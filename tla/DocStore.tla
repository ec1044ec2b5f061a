-------------------------------- MODULE DocStore --------------------------------
(***************************************************************************)
(* The daemon's document store (daemon/src/doc_store.rs) over Storage.     *)
(*                                                                         *)
(* docs is the RwLock<HashMap>, an entry of heap an Arc<Mutex<DocEntry>>.  *)
(* A task that has looked an entry up holds a reference to it (ref) and    *)
(* locks it in a later step; in between, the entry can be removed from the *)
(* map and the document loaded again under another address.  A section     *)
(* that holds one of the locks and awaits nothing else is one step.        *)
(*                                                                         *)
(* The operations are written per task: task[t] is the program counter and *)
(* the locals of the call that task t runs.  Who calls what is in the      *)
(* module CollabDaemon.                                                    *)
(***************************************************************************)
EXTENDS Storage

CONSTANTS
    Durable,            \* KB collections and KB nodes: is_durable_doc
    Tasks,              \* the tokio tasks that use the store
    Gens,               \* addresses an entry of one document can have
    MaxDocuments,       \* max_documents
    CompactThreshold,   \* compact_threshold
    MaxWalEntries,      \* max_wal_entries, 0 when not set
    None

ASSUME DocStoreAssumption ==
    /\ Durable \subseteq Docs
    /\ Gens \subseteq Nat \ {0}
    /\ 1 \in Gens
    /\ MaxDocuments \in Nat \ {0}
    /\ CompactThreshold \in Nat \ {0}
    /\ MaxWalEntries \in Nat
    /\ None \notin Docs \cup Updates

VARIABLES
    docs,       \* the map: the address of each document's entry, 0 if absent
    heap,       \* the entries, by document and address
    task,       \* the call each task is in
    \* History: what the clients were told, for the properties.
    log,        \* WAL entries appended since the document was last destroyed
    acked,      \* updates of log whose sender got its answer
    wrote       \* updates ever appended

storeVars == <<docs, heap, task, log, acked, wrote>>

Entry ==
    [content : SUBSET Updates,  \* sync
     walSeq : Nat,              \* wal_seq
     count : Nat,               \* update_count
     connected : Nat,           \* connected_clients
     idle : BOOLEAN]            \* last_activity is max_idle_secs ago or more

NewEntry(content, seq) ==
    [content |-> content, walSeq |-> seq, count |-> 0, connected |-> 0,
     idle |-> FALSE]

Pcs == {"idle",
        "k_get", "k_inc",                               \* track_client_connect
        "x_next", "x_get", "x_dec",                     \* track_client_disconnect
        "r_get", "r_make", "r_read",                    \* encode_state and other reads
        "u_append", "u_get", "u_apply", "u_ack",        \* apply_update
        "c_get", "c_capture", "c_write",                \* compact_doc
        "d_delete",                                     \* delete_doc
        "s_delete", "s_remove", "s_append", "s_get", "s_apply",  \* share_doc
        "b_next", "e_next", "e_delete",                 \* background, evict_idle
        "h_next", "h_has", "h_own", "h_touch", "h_policy", "h_widen",  \* kb/share, kb/join
        "f_touch", "l_all", "l_one"}                    \* kb/node_fetch, kb/leave

TaskState ==
    [pc : Pcs,
     ret : Pcs,                     \* where a nested call returns to
     done : Pcs,                    \* where the handler goes on after the store
     fail : Pcs,                    \*   answered, or returned an error
     doc : Docs \cup {None},
     upd : Updates \cup {None},
     id : Nat,                      \* wal_id
     ref : Gens \cup {0},           \* entry
     cap : SUBSET Updates,          \* compact_doc: the captured state
     seq : Nat,                     \* compact_doc: the captured wal_seq
     queue : SUBSET Docs,           \* documents a loop still has to visit
     cand : SUBSET Docs]            \* evict_idle: to_evict; kb/share: the collection

IdleTask ==
    [pc |-> "idle", ret |-> "idle", done |-> "idle", fail |-> "idle",
     doc |-> None, upd |-> None, id |-> 0, ref |-> 0, cap |-> {}, seq |-> 0,
     queue |-> {}, cand |-> {}]

DocStoreTypeOK ==
    /\ docs \in [Docs -> Gens \cup {0}]
    /\ heap \in [Docs -> [Gens -> Entry]]
    /\ task \in [Tasks -> TaskState]
    /\ log \in [Docs -> SUBSET WalEntry]
    /\ acked \in [Docs -> SUBSET Updates]
    /\ wrote \in [Docs -> SUBSET Updates]

DocStoreInit ==
    /\ docs = [d \in Docs |-> 0]
    /\ heap = [d \in Docs |-> [g \in Gens |-> NewEntry({}, 0)]]
    /\ task = [t \in Tasks |-> IdleTask]
    /\ log = [d \in Docs |-> {}]
    /\ acked = [d \in Docs |-> {}]
    /\ wrote = [d \in Docs |-> {}]

historyVars == <<log, acked, wrote>>

--------------------------------------------------------------------------------
(***************************************************************************)
(* get_or_create_with.  A document that is not in the map is loaded under  *)
(* the map's write lock, after the least recently used document without a  *)
(* client has made room for it if the map is full.                         *)
(***************************************************************************)
Loaded == {d \in Docs : docs[d] # 0}

\* Documents whose entry a task may have locked: try_lock can fail on them.
Busy == {d \in Loaded :
           \E t \in Tasks : task[t].doc = d /\ task[t].ref = docs[d]}

Evictable(busy) == {d \in Loaded \ busy : heap[d][docs[d]].connected = 0}

\* Of two evictable documents, one that went idle is older than one that did not.
PickLru(evictable) ==
    {v \in evictable :
       \A w \in evictable : heap[w][docs[w]].idle => heap[v][docs[v]].idle}

\* The maps that making room can leave.
MakeRoom ==
    IF Cardinality(Loaded) < MaxDocuments THEN {docs}
    ELSE UNION {LET evictable == Evictable(busy)
                IN IF evictable = {} THEN {docs}
                   ELSE {[docs EXCEPT ![v] = 0] : v \in PickLru(evictable)} :
                busy \in SUBSET Busy}

\* No task and no map slot holds this address: its entry has been dropped.
Free(d, g) ==
    /\ docs[d] # g
    /\ \A t \in Tasks : task[t].doc = d => task[t].ref # g

Fresh(d, g) == Free(d, g) /\ \A h \in Gens : Free(d, h) => g <= h

At(t, pc) == task[t].pc = pc

\* Task t goes on as r.
GoOn(t, r) == task' = [task EXCEPT ![t] = r]

\* The task when the call it is in has returned and it goes on at pc.
Return(t, pc) ==
    IF pc = "idle" THEN IdleTask
    ELSE [task[t] EXCEPT !.pc = pc, !.id = 0, !.ref = 0, !.cap = {}, !.seq = 0]

\* The task when its lookup returned an error.  Callers ignore that a client was
\* not counted; apply_update passes on that its compaction failed, a background
\* caller logs it.
LookupFailed(t) ==
    CASE At(t, "k_get") -> Return(t, task[t].ret)
      [] At(t, "x_get") -> Return(t, "x_next")
      [] At(t, "c_get") /\ task[t].ret # "u_ack" -> Return(t, task[t].ret)
      [] OTHER -> Return(t, task[t].fail)

\* Task t goes on at found with a reference to the entry.  A durable document that
\* would have to be created is an error when creation is "refused".
GetOrCreate(t, creation, found) ==
    LET d == task[t].doc
        Found(g) == GoOn(t, [task[t] EXCEPT !.pc = found, !.ref = g])
    IN /\ \/ /\ docs[d] # 0
             /\ Found(docs[d])
             /\ UNCHANGED <<docs, heap>>
          \/ /\ docs[d] = 0
             /\ Exists(d) \/ creation = "allowed" \/ d \notin Durable
             /\ \E room \in MakeRoom, g \in Gens :
                  /\ Fresh(d, g)
                  /\ docs' = [room EXCEPT ![d] = g]
                  /\ heap' = [heap EXCEPT ![d][g] =
                                NewEntry(LoadState(d), LastReplayed(d))]
                  /\ Found(g)
          \/ /\ docs[d] = 0
             /\ ~ Exists(d) /\ creation = "refused" /\ d \in Durable
             /\ docs' \in MakeRoom
             /\ GoOn(t, LookupFailed(t))
             /\ UNCHANGED heap
       /\ UNCHANGED <<storageVars, historyVars>>

--------------------------------------------------------------------------------
(***************************************************************************)
(* track_client_connect, track_client_disconnect and the reads.  Their     *)
(* callers ignore a failure to count a client.                             *)
(***************************************************************************)
LockEntry(t, entry) ==
    heap' = [heap EXCEPT ![task[t].doc][task[t].ref] = entry]

Locked(t) == heap[task[t].doc][task[t].ref]

\* Task t leaves the entry it had locked and goes on at pc.
Goto(t, pc) == GoOn(t, [task[t] EXCEPT !.pc = pc, !.ref = 0])

\* Mutant: counting a client may create the document.
ConnectGetCreating(t) ==
    /\ At(t, "k_get")
    /\ GetOrCreate(t, "allowed", "k_inc")

ConnectGet(t) ==
    /\ At(t, "k_get")
    /\ GetOrCreate(t, "refused", "k_inc")

ConnectIncrement(t) ==
    /\ At(t, "k_inc")
    /\ LockEntry(t, [Locked(t) EXCEPT !.connected = @ + 1, !.idle = FALSE])
    /\ GoOn(t, Return(t, task[t].ret))
    /\ UNCHANGED <<storageVars, docs, historyVars>>

DisconnectGet(t) ==
    /\ At(t, "x_get")
    /\ GetOrCreate(t, "refused", "x_dec")

\* Mutant: a subtraction that does not saturate.
DisconnectBelowZero(t) ==
    /\ At(t, "x_dec")
    /\ LockEntry(t, [Locked(t) EXCEPT !.connected = @ - 1])
    /\ Goto(t, "x_next")
    /\ UNCHANGED <<storageVars, docs, historyVars>>

\* saturating_sub: a count of 0 stays 0.
DisconnectDecrement(t) ==
    /\ At(t, "x_dec")
    /\ LockEntry(t, [Locked(t) EXCEPT !.connected = IF @ = 0 THEN 0 ELSE @ - 1])
    /\ Goto(t, "x_next")
    /\ UNCHANGED <<storageVars, docs, historyVars>>

ReadGet(t) ==
    \/ At(t, "r_get") /\ GetOrCreate(t, "refused", "r_read")
    \/ At(t, "r_make") /\ GetOrCreate(t, "allowed", "r_read")

ReadEntry(t) ==
    /\ At(t, "r_read")
    /\ GoOn(t, Return(t, task[t].done))
    /\ UNCHANGED <<storageVars, docs, heap, historyVars>>

--------------------------------------------------------------------------------
(***************************************************************************)
(* apply_update: WAL append, lookup, in-memory apply, compaction when due, *)
(* answer.  No lock is held from one of these to the next.                 *)
(***************************************************************************)
Append(t, next) ==
    LET d == task[t].doc
        u == task[t].upd
    IN /\ WalAppend(d, u)
       /\ GoOn(t, [task[t] EXCEPT !.pc = next, !.id = lastId + 1])
       /\ log' = [log EXCEPT ![d] = @ \cup {[id |-> lastId + 1, upd |-> u]}]
       /\ wrote' = [wrote EXCEPT ![d] = @ \cup {u}]
       /\ UNCHANGED <<docs, heap, acked>>

\* Mutant: a document in memory is updated there, and written when it is compacted.
UpdateAppendUnlessLoaded(t) ==
    /\ At(t, "u_append")
    /\ \/ task[t].doc \notin Loaded /\ Append(t, "u_get")
       \/ /\ task[t].doc \in Loaded
          /\ GoOn(t, [task[t] EXCEPT !.pc = "u_get"])
          /\ UNCHANGED <<storageVars, docs, heap, historyVars>>

UpdateAppend(t) == At(t, "u_append") /\ Append(t, "u_get")

UpdateGet(t) ==
    /\ At(t, "u_get")
    /\ GetOrCreate(t, "allowed", "u_apply")

CompactionDue(count) ==
    \/ MaxWalEntries > 0 /\ count >= MaxWalEntries
    \/ count >= CompactThreshold

UpdateApply(t) ==
    /\ At(t, "u_apply")
    /\ LockEntry(t, [Locked(t) EXCEPT !.content = @ \cup {task[t].upd},
                                      !.walSeq = task[t].id,
                                      !.count = @ + 1,
                                      !.idle = FALSE])
    /\ GoOn(t, [task[t] EXCEPT
                  !.pc = IF CompactionDue(Locked(t).count + 1) THEN "c_get" ELSE "u_ack",
                  !.ret = "u_ack", !.ref = 0])
    /\ UNCHANGED <<storageVars, docs, historyVars>>

\* Ok to the caller.  An update of a document destroyed since is not owed.
UpdateAck(t) ==
    LET d == task[t].doc
        r == [id |-> task[t].id, upd |-> task[t].upd]
    IN /\ At(t, "u_ack")
       /\ acked' = [acked EXCEPT ![d] =
                      IF r \in log[d] THEN @ \cup {r.upd} ELSE @]
       /\ GoOn(t, Return(t, task[t].done))
       /\ UNCHANGED <<storageVars, docs, heap, log, wrote>>

--------------------------------------------------------------------------------
(***************************************************************************)
(* compact_doc: the state and wal_seq are captured under the entry's lock, *)
(* the snapshot is written after it is released.                           *)
(***************************************************************************)
CompactGet(t) ==
    /\ At(t, "c_get")
    /\ GetOrCreate(t, "refused", "c_capture")

CompactCapture(t) ==
    /\ At(t, "c_capture")
    /\ LockEntry(t, [Locked(t) EXCEPT !.count = 0])
    /\ GoOn(t, [task[t] EXCEPT !.pc = "c_write", !.cap = Locked(t).content,
                               !.seq = Locked(t).walSeq, !.ref = 0])
    /\ UNCHANGED <<storageVars, docs, historyVars>>

CompactWrite(t) ==
    /\ At(t, "c_write")
    /\ Compact(task[t].doc, task[t].cap, task[t].seq)
    /\ GoOn(t, [task[t] EXCEPT !.pc = task[t].ret, !.cap = {}, !.seq = 0])
    /\ UNCHANGED <<docs, heap, historyVars>>

--------------------------------------------------------------------------------
(***************************************************************************)
(* delete_doc and share_doc.                                               *)
(***************************************************************************)
Destroyed(gone) ==
    /\ log' = [d \in Docs |-> IF d \in gone THEN {} ELSE log[d]]
    /\ acked' = [d \in Docs |-> IF d \in gone THEN {} ELSE acked[d]]
    /\ UNCHANGED wrote

DeleteStored(t) ==
    /\ At(t, "d_delete")
    /\ DeleteDocument(task[t].doc)
    /\ Destroyed({task[t].doc})
    /\ GoOn(t, IdleTask)
    /\ UNCHANGED <<docs, heap>>

ShareDelete(t) ==
    /\ At(t, "s_delete")
    /\ DeleteDocument(task[t].doc)
    /\ Destroyed({task[t].doc})
    /\ Goto(t, "s_remove")
    /\ UNCHANGED <<docs, heap>>

ShareRemove(t) ==
    /\ At(t, "s_remove")
    /\ docs' = [docs EXCEPT ![task[t].doc] = 0]
    /\ Goto(t, "s_append")
    /\ UNCHANGED <<storageVars, heap, historyVars>>

ShareAppend(t) == At(t, "s_append") /\ Append(t, "s_get")

ShareGet(t) ==
    /\ At(t, "s_get")
    /\ GetOrCreate(t, "allowed", "s_apply")

ShareApply(t) ==
    /\ At(t, "s_apply")
    /\ LockEntry(t, [Locked(t) EXCEPT !.content = @ \cup {task[t].upd},
                                      !.walSeq = task[t].id,
                                      !.count = 1,
                                      !.idle = FALSE,
                                      !.connected = 1])
    /\ Goto(t, "u_ack")
    /\ UNCHANGED <<storageVars, docs, historyVars>>

--------------------------------------------------------------------------------
(***************************************************************************)
(* evict_idle: candidates, a compaction of each, removal after a re-check  *)
(* under the map's write lock, then -- the lock released -- deletion of    *)
(* the ephemeral ones from storage.                                        *)
(***************************************************************************)
Unused == {d \in Loaded : heap[d][docs[d]].connected = 0 /\ heap[d][docs[d]].idle}

EvictScan(t) ==
    /\ GoOn(t, IF Unused = {} THEN IdleTask
               ELSE [IdleTask EXCEPT !.pc = "e_next", !.queue = Unused, !.cand = Unused])
    /\ UNCHANGED <<storageVars, docs, heap, historyVars>>

EvictCompact(t) ==
    /\ At(t, "e_next")
    /\ \E d \in task[t].queue :
         GoOn(t, [task[t] EXCEPT !.pc = "c_get", !.ret = "e_next", !.doc = d,
                                 !.queue = @ \ {d}])
    /\ UNCHANGED <<storageVars, docs, heap, historyVars>>

\* Mutants: durable documents are deleted like the others; none is deleted.
EvictRemoveAll(t) ==
    LET gone == task[t].cand \cap Unused IN
    /\ At(t, "e_next") /\ task[t].queue = {}
    /\ docs' = [d \in Docs |-> IF d \in gone THEN 0 ELSE docs[d]]
    /\ Destroyed(gone)
    /\ GoOn(t, IF gone = {} THEN IdleTask
               ELSE [IdleTask EXCEPT !.pc = "e_delete", !.queue = gone])
    /\ UNCHANGED <<storageVars, heap>>

EvictRemoveFromMemory(t) ==
    /\ At(t, "e_next") /\ task[t].queue = {}
    /\ docs' = [d \in Docs |-> IF d \in task[t].cand \cap Unused THEN 0 ELSE docs[d]]
    /\ GoOn(t, IdleTask)
    /\ UNCHANGED <<storageVars, heap, historyVars>>

EvictRemove(t) ==
    LET gone == task[t].cand \cap Unused IN
    /\ At(t, "e_next") /\ task[t].queue = {}
    /\ docs' = [d \in Docs |-> IF d \in gone THEN 0 ELSE docs[d]]
    /\ Destroyed(gone \ Durable)
    /\ GoOn(t, IF gone \subseteq Durable THEN IdleTask
               ELSE [IdleTask EXCEPT !.pc = "e_delete", !.queue = gone \ Durable])
    /\ UNCHANGED <<storageVars, heap>>

\* The task after it has visited d.
Visited(t, d) ==
    IF task[t].queue = {d} THEN IdleTask
    ELSE [task[t] EXCEPT !.queue = @ \ {d}]

EvictDelete(t) ==
    /\ At(t, "e_delete")
    /\ \E d \in task[t].queue :
         /\ DeleteDocument(d)
         /\ GoOn(t, Visited(t, d))
    /\ UNCHANGED <<docs, heap, historyVars>>

--------------------------------------------------------------------------------
(***************************************************************************)
(* A storage call returns an error.  share_doc and evict_idle log a failed *)
(* delete and go on.                                                       *)
(***************************************************************************)
StorageError(t) ==
    /\ \/ /\ task[t].pc \in {"u_append", "s_append", "d_delete"}
          /\ GoOn(t, Return(t, task[t].fail))
       \/ At(t, "s_delete") /\ Goto(t, "s_remove")
       \/ /\ At(t, "c_write")
          /\ GoOn(t, Return(t, IF task[t].ret = "u_ack" THEN task[t].fail
                               ELSE task[t].ret))
       \/ /\ At(t, "e_delete")
          /\ \E d \in task[t].queue : GoOn(t, Visited(t, d))
    /\ UNCHANGED <<storageVars, docs, heap, historyVars>>

\* delete_document fails at its second statement, the first one done.
DeleteError(t) ==
    /\ \/ /\ At(t, "d_delete") /\ GoOn(t, Return(t, task[t].fail))
          /\ DeleteInterrupted(task[t].doc)
          /\ Destroyed({task[t].doc})
       \/ /\ At(t, "s_delete") /\ Goto(t, "s_remove")
          /\ DeleteInterrupted(task[t].doc)
          /\ Destroyed({task[t].doc})
       \/ /\ At(t, "e_delete")
          /\ \E d \in task[t].queue : DeleteInterrupted(d) /\ GoOn(t, Visited(t, d))
          /\ UNCHANGED historyVars
    /\ UNCHANGED <<docs, heap>>

\* load_document fails in get_or_create_with: room was made, nothing is loaded.
LoadError(t) ==
    /\ task[t].pc \in {"k_get", "x_get", "r_get", "r_make", "u_get", "c_get", "s_get"}
    /\ docs[task[t].doc] = 0
    /\ docs' \in MakeRoom
    /\ GoOn(t, LookupFailed(t))
    /\ UNCHANGED <<storageVars, heap, historyVars>>

================================================================================
