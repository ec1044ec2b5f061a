------------------------------ MODULE CollabDaemon ------------------------------
(***************************************************************************)
(* The collab daemon around DocStore: one task per client connection, each *)
(* running the handlers of daemon/src/collab_handler one request at a      *)
(* time, and the background task of daemon/src/main.rs that compacts and   *)
(* evicts.  The process can be killed at any step; on restart it recovers  *)
(* every stored document.                                                  *)
(***************************************************************************)
EXTENDS DocStore

CONSTANTS
    Sessions,       \* client connections
    Background,     \* the compaction and eviction task
    Collections,    \* KB collections; the other durable documents are KB nodes
    Requests,       \* kinds of request the clients of an instance send
    IdleEviction,   \* whether idle_eviction_secs is above 0
    StorageErrors,  \* whether storage calls can fail
    MaxSent,        \* bound: requests that write, count or touch a document
    MaxCrashes      \* bound: crashes in one behaviour

ASSUME DaemonAssumption ==
    /\ Tasks = Sessions \cup {Background}
    /\ Background \notin Sessions
    /\ Collections \subseteq Durable
    /\ IdleEviction \in BOOLEAN
    /\ StorageErrors \in BOOLEAN
    /\ MaxSent \in Nat
    /\ MaxCrashes \in Nat

VARIABLES
    sessDocs,   \* session_docs: the documents to clean up after each session
    sent,       \* requests counted against MaxSent so far
    crashes     \* crashes so far

vars == <<storageVars, storeVars, sessDocs, sent, crashes>>

TypeOK ==
    /\ StorageTypeOK
    /\ DocStoreTypeOK
    /\ sessDocs \in [Sessions -> SUBSET Docs]
    /\ sent \in Nat
    /\ crashes \in Nat

Init ==
    /\ StorageInit
    /\ DocStoreInit
    /\ sessDocs = [s \in Sessions |-> {}]
    /\ sent = 0
    /\ crashes = 0

--------------------------------------------------------------------------------
(***************************************************************************)
(* The sync/* and docs/* handlers.  The first interaction of a session     *)
(* with a document counts it as a client (k_get) before anything else.     *)
(***************************************************************************)
Call(s, d, u, pc) ==
    GoOn(s, [IdleTask EXCEPT !.pc = pc, !.doc = d, !.upd = u])

TrackedCall(s, d, u, pc) ==
    GoOn(s, [IdleTask EXCEPT
               !.pc = IF d \in sessDocs[s] THEN pc ELSE "k_get",
               !.ret = pc, !.doc = d, !.upd = u])

Touch(s, d) == sessDocs' = [sessDocs EXCEPT ![s] = @ \cup {d}]

CanSend(s, request) == request \in Requests /\ At(s, "idle")

Sending == sent < MaxSent /\ sent' = sent + 1

\* sync/update
RequestUpdate(s, d, u) ==
    /\ CanSend(s, "update") /\ Sending
    /\ TrackedCall(s, d, u, "u_append")
    /\ Touch(s, d)
    /\ UNCHANGED <<storageVars, docs, heap, historyVars, crashes>>

\* A sync/update that is refused (too large, not signed, no access, fenced): by then
\* the session has been counted.
RequestRefused(s, d) ==
    /\ CanSend(s, "update") /\ Sending /\ d \notin sessDocs[s]
    /\ TrackedCall(s, d, None, "idle")
    /\ Touch(s, d)
    /\ UNCHANGED <<storageVars, docs, heap, historyVars, crashes>>

\* An update of no session's own: membership ops, the mesh dialer, the MCP tool.
RequestRelay(s, d, u) ==
    /\ CanSend(s, "relay") /\ Sending
    /\ Call(s, d, u, "u_append")
    /\ UNCHANGED <<storageVars, docs, heap, historyVars, sessDocs, crashes>>

\* sync/share: the sharer is counted by share_doc itself.
RequestShare(s, d, u) ==
    /\ CanSend(s, "share") /\ Sending
    /\ Call(s, d, u, "s_delete")
    /\ Touch(s, d)
    /\ UNCHANGED <<storageVars, docs, heap, historyVars, crashes>>

\* kb/node_update: an edit is merged, a reseal or rebirth replaces the node.
RequestNodeUpdate(s, d, u) ==
    /\ CanSend(s, "nodeupdate") /\ Sending
    /\ TrackedCall(s, d, u, "u_append") \/ TrackedCall(s, d, u, "s_delete")
    /\ Touch(s, d)
    /\ UNCHANGED <<storageVars, docs, heap, historyVars, crashes>>

\* deny_kb_doc_read: a KB node is read through the kb/* handlers only.
RawReadable == Collections \cup (Docs \ Durable)

\* sync/full_state, sync/resync
RequestState(s, d) ==
    /\ CanSend(s, "state") /\ d \in RawReadable /\ Sending
    /\ TrackedCall(s, d, None, "r_get")
    /\ Touch(s, d)
    /\ UNCHANGED <<storageVars, docs, heap, historyVars, crashes>>

\* sync/state_vector, sync/diff, docs/content: not tracked.
RequestRead(s, d) ==
    /\ CanSend(s, "read") /\ d \in RawReadable
    /\ Call(s, d, None, "r_get")
    /\ UNCHANGED <<storageVars, docs, heap, historyVars, sessDocs, sent, crashes>>

\* docs/delete: delete_doc removes the entry, then the stored document.  The
\* docs/* methods are refused on the documents of a KB.
RequestDelete(s, d) ==
    /\ CanSend(s, "delete") /\ d \notin Durable /\ Sending
    /\ docs' = [docs EXCEPT ![d] = 0]
    /\ Call(s, d, None, "d_delete")
    /\ UNCHANGED <<storageVars, heap, historyVars, sessDocs, crashes>>

\* sync/awareness, kb/register: these touch a document and count no client.
RequestAwareness(s, d) ==
    /\ CanSend(s, "awareness") /\ d \notin sessDocs[s] /\ Sending
    /\ Touch(s, d)
    /\ UNCHANGED <<storageVars, storeVars, crashes>>

\* The end of run_session: track_client_disconnect for every document touched.
Leave(s) ==
    /\ CanSend(s, "leave") /\ sessDocs[s] # {}
    /\ GoOn(s, [IdleTask EXCEPT !.pc = "x_next", !.queue = sessDocs[s]])
    /\ UNCHANGED <<storageVars, docs, heap, historyVars, sessDocs, sent, crashes>>

LeaveNext(s) ==
    /\ At(s, "x_next")
    /\ \E d \in task[s].queue :
         GoOn(s, [task[s] EXCEPT !.pc = "x_get", !.doc = d, !.queue = @ \ {d}])
    /\ UNCHANGED <<storageVars, docs, heap, historyVars, sessDocs, sent, crashes>>

Left(s) ==
    /\ At(s, "x_next") /\ task[s].queue = {}
    /\ GoOn(s, IdleTask)
    /\ sessDocs' = [sessDocs EXCEPT ![s] = {}]
    /\ UNCHANGED <<storageVars, docs, heap, historyVars, sent, crashes>>

--------------------------------------------------------------------------------
(***************************************************************************)
(* The kb/* handlers.  kb/share and kb/join visit the collection, then its *)
(* nodes, and count the session as a client of each.  kb/share replaces a  *)
(* document that is not in memory; one that is it keeps (a collection) or  *)
(* merges into (a node).  It also widens the collection's transport policy *)
(* if it has to, and answers with the collection's state.                  *)
(***************************************************************************)
RequestKbShare(s, c, nodes, u) ==
    /\ CanSend(s, "kbshare") /\ Sending
    /\ GoOn(s, [IdleTask EXCEPT
                  !.pc = "h_has", !.doc = c, !.upd = u, !.done = "h_touch",
                  !.queue = nodes, !.cand = {c}])
    /\ UNCHANGED <<storageVars, docs, heap, historyVars, sessDocs, crashes>>

RequestKbJoin(s, c, nodes) ==
    /\ CanSend(s, "kbjoin") /\ Sending
    /\ GoOn(s, [IdleTask EXCEPT
                  !.pc = "r_get", !.doc = c, !.done = "h_touch", !.queue = nodes])
    /\ UNCHANGED <<storageVars, docs, heap, historyVars, sessDocs, crashes>>

\* has_doc looks at the map only.  A collection that is there is first read, to
\* compare its owner with the caller, if the caller has an identity.
KbShareHas(s) ==
    LET d == task[s].doc IN
    /\ At(s, "h_has")
    /\ \/ /\ d \notin Loaded
          /\ GoOn(s, [task[s] EXCEPT !.pc = "s_delete"])
       \/ /\ d \in Loaded \ Collections
          /\ GoOn(s, [task[s] EXCEPT !.pc = "u_append"])
       \/ /\ d \in Loaded \cap Collections
          /\ \/ GoOn(s, [task[s] EXCEPT !.pc = "h_touch"])
             \/ GoOn(s, [task[s] EXCEPT !.pc = "r_get", !.done = "h_own"])
    /\ UNCHANGED <<storageVars, docs, heap, historyVars, sessDocs, sent, crashes>>

\* refuse_if_owned_by_another
KbShareOwned(s) ==
    /\ At(s, "h_own")
    /\ GoOn(s, IdleTask) \/ GoOn(s, [task[s] EXCEPT !.pc = "h_touch"])
    /\ UNCHANGED <<storageVars, docs, heap, historyVars, sessDocs, sent, crashes>>

\* session_docs.insert and track_client_connect, whether or not it was there.
KbTouch(s) ==
    /\ At(s, "h_touch")
    /\ Touch(s, task[s].doc)
    /\ GoOn(s, [task[s] EXCEPT
                  !.pc = "k_get",
                  !.ret = IF task[s].doc \in task[s].cand THEN "h_policy" ELSE "h_next"])
    /\ UNCHANGED <<storageVars, docs, heap, historyVars, sent, crashes>>

\* kb/share: load_collection, then -- if the policy changes -- an update of the
\* collection.  A failure of either is passed over.
KbPolicy(s) ==
    /\ \/ /\ At(s, "h_policy")
          /\ GoOn(s, [task[s] EXCEPT !.pc = "r_get", !.done = "h_widen", !.fail = "h_next"])
       \/ /\ At(s, "h_widen")
          /\ GoOn(s, [task[s] EXCEPT !.pc = "h_next"])
       \/ /\ At(s, "h_widen")
          /\ \E u \in Updates :
               GoOn(s, [task[s] EXCEPT !.pc = "u_append", !.upd = u,
                                       !.done = "h_next", !.fail = "h_next"])
    /\ UNCHANGED <<storageVars, docs, heap, historyVars, sessDocs, sent, crashes>>

\* A node that fails is skipped, a collection that fails ends the request.
KbNext(s) ==
    /\ At(s, "h_next")
    /\ \/ \E d \in task[s].queue :
            GoOn(s, [task[s] EXCEPT
                       !.pc = IF task[s].upd = None THEN "r_get" ELSE "h_has",
                       !.doc = d, !.done = "h_touch", !.fail = "h_next", !.queue = @ \ {d}])
       \/ /\ task[s].queue = {} /\ task[s].cand = {}
          /\ GoOn(s, IdleTask)
       \/ /\ task[s].queue = {}
          /\ \E c \in task[s].cand : Call(s, c, None, "r_get")
    /\ UNCHANGED <<storageVars, docs, heap, historyVars, sessDocs, sent, crashes>>

\* kb/node_fetch: an authorised read may create the node's document.
RequestFetch(s, d) ==
    /\ CanSend(s, "fetch") /\ Sending
    /\ GoOn(s, [IdleTask EXCEPT
                  !.pc = "r_make", !.doc = d, !.done = "f_touch"])
    /\ UNCHANGED <<storageVars, docs, heap, historyVars, sessDocs, crashes>>

FetchTouch(s) ==
    /\ At(s, "f_touch")
    /\ Touch(s, task[s].doc)
    /\ GoOn(s, IF task[s].doc \in sessDocs[s] THEN IdleTask
               ELSE [task[s] EXCEPT !.pc = "k_get", !.ret = "idle"])
    /\ UNCHANGED <<storageVars, docs, heap, historyVars, sent, crashes>>

\* kb/leave: s is no longer cleaned up after.  The nodes are known only when the
\* collection could be read.
RequestKbLeave(s, c, nodes) ==
    /\ CanSend(s, "kbleave") /\ sessDocs[s] # {}
    /\ GoOn(s, [IdleTask EXCEPT
                  !.pc = "r_get", !.doc = c, !.done = "l_all", !.fail = "l_one",
                  !.queue = nodes])
    /\ UNCHANGED <<storageVars, docs, heap, historyVars, sessDocs, sent, crashes>>

KbLeft(s) ==
    /\ At(s, "l_all") \/ At(s, "l_one")
    /\ sessDocs' = [sessDocs EXCEPT ![s] =
         @ \ ({task[s].doc} \cup IF At(s, "l_all") THEN task[s].queue ELSE {})]
    /\ GoOn(s, IdleTask)
    /\ UNCHANGED <<storageVars, docs, heap, historyVars, sent, crashes>>

\* kb/unregister
RequestUnregister(s, c) ==
    /\ CanSend(s, "kbleave") /\ c \in sessDocs[s]
    /\ sessDocs' = [sessDocs EXCEPT ![s] = @ \ {c}]
    /\ UNCHANGED <<storageVars, storeVars, sent, crashes>>

Request(s) ==
    \/ \E d \in Docs, u \in Updates :
         RequestUpdate(s, d, u) \/ RequestRelay(s, d, u) \/ RequestShare(s, d, u)
    \/ \E d \in Durable \ Collections, u \in Updates : RequestNodeUpdate(s, d, u)
    \/ \E d \in Docs : \/ RequestRefused(s, d)
                       \/ RequestState(s, d)
                       \/ RequestRead(s, d)
                       \/ RequestDelete(s, d)
                       \/ RequestAwareness(s, d)
    \/ \E c \in Collections, nodes \in SUBSET (Durable \ Collections) :
         \/ \E u \in Updates : RequestKbShare(s, c, nodes, u)
         \/ RequestKbJoin(s, c, nodes) \/ RequestKbLeave(s, c, nodes)
         \/ RequestUnregister(s, c)
    \/ \E d \in Durable \ Collections : RequestFetch(s, d)
    \/ Leave(s)

SessionStep(s) ==
    LeaveNext(s) \/ Left(s) \/ KbShareHas(s) \/ KbShareOwned(s) \/ KbTouch(s)
    \/ KbPolicy(s) \/ KbNext(s) \/ FetchTouch(s) \/ KbLeft(s)

--------------------------------------------------------------------------------
(***************************************************************************)
(* The background task: compact every loaded document, then evict.         *)
(***************************************************************************)
Tick ==
    /\ At(Background, "idle") /\ Loaded # {}
    /\ GoOn(Background, [IdleTask EXCEPT !.pc = "b_next", !.queue = Loaded])
    /\ UNCHANGED <<storageVars, docs, heap, historyVars, sessDocs, sent, crashes>>

TickCompact(t) ==
    /\ At(t, "b_next")
    /\ \E d \in task[t].queue :
         GoOn(t, [task[t] EXCEPT !.pc = "c_get", !.ret = "b_next", !.doc = d,
                                 !.queue = @ \ {d}])
    /\ UNCHANGED <<storageVars, docs, heap, historyVars>>

TickEvict(t) ==
    /\ At(t, "b_next") /\ task[t].queue = {}
    /\ IF IdleEviction THEN EvictScan(t)
       ELSE /\ GoOn(t, IdleTask)
            /\ UNCHANGED <<storageVars, docs, heap, historyVars>>

\* One step of a call that task t is in.
StoreStep(t) ==
    \/ ConnectGet(t) \/ ConnectIncrement(t)
    \/ DisconnectGet(t) \/ DisconnectDecrement(t)
    \/ ReadGet(t) \/ ReadEntry(t)
    \/ UpdateAppend(t) \/ UpdateGet(t) \/ UpdateApply(t) \/ UpdateAck(t)
    \/ CompactGet(t) \/ CompactCapture(t) \/ CompactWrite(t)
    \/ DeleteStored(t)
    \/ ShareDelete(t) \/ ShareRemove(t) \/ ShareAppend(t) \/ ShareGet(t) \/ ShareApply(t)
    \/ TickCompact(t) \/ TickEvict(t)
    \/ EvictCompact(t) \/ EvictRemove(t) \/ EvictDelete(t)

TaskStep(t) == StoreStep(t) /\ UNCHANGED <<sessDocs, sent, crashes>>

--------------------------------------------------------------------------------
(***************************************************************************)
(* The environment.                                                        *)
(***************************************************************************)

\* idle_eviction_secs pass.  No request on a document takes that long.
GoIdle(d) ==
    /\ d \in Loaded /\ ~ heap[d][docs[d]].idle
    /\ \A s \in Sessions : task[s].doc # d
    /\ heap' = [heap EXCEPT ![d][docs[d]].idle = TRUE]
    /\ UNCHANGED <<storageVars, docs, task, historyVars, sessDocs, sent, crashes>>

StorageFailure(t) ==
    /\ StorageErrors
    /\ StorageError(t) \/ DeleteError(t) \/ LoadError(t)
    /\ UNCHANGED <<sessDocs, sent, crashes>>

\* prepare_doc_store: the map holds as many stored documents as fit.
Recover ==
    /\ \E l \in SUBSET Docs :
         /\ \A d \in l : Exists(d)'
         /\ \/ \A d \in Docs \ l : ~ Exists(d)'
            \/ Cardinality(l) = MaxDocuments
         /\ Cardinality(l) <= MaxDocuments
         /\ docs' = [d \in Docs |-> IF d \in l THEN 1 ELSE 0]
         /\ heap' = [d \in Docs |-> [g \in Gens |->
                       IF d \in l /\ g = 1
                       THEN NewEntry(LoadState(d)', LastReplayed(d)')
                       ELSE NewEntry({}, 0)]]
    /\ task' = [t \in Tasks |-> IdleTask]
    /\ sessDocs' = [s \in Sessions |-> {}]

Crash ==
    /\ crashes < MaxCrashes
    /\ crashes' = crashes + 1
    /\ UNCHANGED <<storageVars, historyVars, sent>>
    /\ Recover

\* A crash between the two statements of delete_document.
CrashInDelete(t) ==
    /\ crashes < MaxCrashes
    /\ crashes' = crashes + 1
    /\ \/ /\ At(t, "d_delete") \/ At(t, "s_delete")
          /\ DeleteInterrupted(task[t].doc)
          /\ Destroyed({task[t].doc})
       \/ /\ At(t, "e_delete")
          /\ \E d \in task[t].queue : DeleteInterrupted(d)
          /\ UNCHANGED historyVars
    /\ UNCHANGED sent
    /\ Recover

Next ==
    \/ \E s \in Sessions : Request(s) \/ SessionStep(s)
    \/ Tick
    \/ \E t \in Tasks : TaskStep(t) \/ StorageFailure(t) \/ CrashInDelete(t)
    \/ \E d \in Docs : GoIdle(d)
    \/ Crash

Spec == Init /\ [][Next]_vars

\* The daemon makes progress: the runtime schedules every task whose call can go
\* on, the interval timer fires, and time passes.  Clients owe nothing.
Fairness ==
    /\ \A t \in Tasks : WF_vars(TaskStep(t))
    /\ \A s \in Sessions : WF_vars(SessionStep(s))
    /\ WF_vars(Tick)
    /\ \A d \in Docs : WF_vars(GoIdle(d))

FairSpec == Spec /\ Fairness

--------------------------------------------------------------------------------
(***************************************************************************)
(* Properties                                                              *)
(***************************************************************************)

\* Every update whose sender was answered is in the document in memory and would
\* be in it after a restart: what apply_update's WAL append is for.
AckedKept ==
    \A d \in Docs :
      /\ acked[d] \subseteq LoadState(d)
      /\ d \in Loaded => acked[d] \subseteq heap[d][docs[d]].content

\* Task t is compacting d: it has the entry, or a state captured from it.
Compacting(t, d) == task[t].doc = d /\ task[t].pc \in {"c_capture", "c_write"}

\* load_document skips no entry the WAL still holds: each is above the cutoff of
\* the document's snapshot, whichever of two racing compactions wrote it.
CutoffSkipsNothing == \A d \in Docs : WalTail(d) = wal[d]

\* INV-1: nothing is in a document in memory, in a captured state or in a snapshot
\* that was not appended to the WAL first.
WalFirst ==
    \A d \in Docs :
      /\ d \in Loaded => heap[d][docs[d]].content \subseteq wrote[d]
      /\ snap[d].state \subseteq wrote[d]
      /\ \A t \in Tasks : Compacting(t, d) => task[t].cap \subseteq wrote[d]

\* ADR-105: a durable document exists only once some client wrote it; asking about
\* it, counting a client of it or compacting it never creates it.
DurableNotMadeUp ==
    "fetch" \notin Requests =>
      \A d \in Durable : d \in Loaded \/ Exists(d) => wrote[d] # {}

\* ADR-032: a durable document leaves the disk only when a client replaces it, by
\* sync/share or a reseal; eviction, compaction and kb/share (B-12) never remove it.
DurableLeavesOnRequest ==
    [][\A d \in Durable :
         Exists(d) /\ ~ Exists(d)' =>
           \E s \in Sessions :
             /\ task[s].doc = d /\ At(s, "s_delete")
             /\ task[s].done # "h_touch"]_vars

\* ADR-032: whatever the clients send, what a restart would load of a durable
\* document shrinks only where a session replaces the document (share_doc), or where
\* a compaction writes a state captured without the update, its WAL entry, if there
\* is one, not above the cutoff.  Neither eviction -- of idle documents, or to make
\* room -- nor a failing storage call nor a crash takes an update away.
LostByReplaceOrCompaction ==
    [][\A d \in Durable : \A u \in LoadState(d) \ LoadState(d)' :
         \/ \E s \in Sessions : task[s].doc = d /\ At(s, "s_delete")
         \/ \E t \in Tasks :
              /\ task[t].doc = d /\ At(t, "c_write")
              /\ u \notin task[t].cap
              /\ \A w \in wal[d] : w.upd = u => w.id <= task[t].seq]_vars

Open(d) == \E s \in Sessions : d \in sessDocs[s] \/ task[s].doc = d

\* In use: in memory, or written since it was last destroyed.
Live(d) == d \in Loaded \/ log[d] # {}

\* INV-6: an ephemeral document that every session has left is in the end evicted
\* from memory and deleted from storage.  What a compaction under way writes back
\* of a document that docs/delete has removed is not live, and stays.
Reclaimed ==
    \A d \in Docs \ Durable :
      <>[](~ Open(d)) => [](Live(d) => <>(~ Exists(d) /\ d \notin Loaded))

================================================================================
