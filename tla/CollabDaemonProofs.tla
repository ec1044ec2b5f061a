--------------------------- MODULE CollabDaemonProofs ---------------------------
(***************************************************************************)
(* Proofs about CollabDaemon, for any sets of documents, updates, sessions *)
(* and any bounds.                                                         *)
(***************************************************************************)
EXTENDS CollabDaemon, TLAPS

\* What a task needs at each point of the call it is in.
HasDoc == Pcs \ {"idle", "x_next", "b_next", "e_next", "e_delete", "h_next"}

HasRef == {"k_inc", "x_dec", "r_read", "u_apply", "c_capture", "s_apply"}

HasUpd == {"u_append", "u_get", "u_apply", "u_ack", "s_delete", "s_remove",
           "s_append", "s_get", "s_apply", "h_has"}

CallOK(r) ==
    /\ r.pc \in HasDoc => r.doc \in Docs
    /\ r.pc \in HasRef => r.ref \in Gens
    /\ r.pc \in HasUpd => r.upd \in Updates
    /\ r.pc \in {"k_get", "k_inc"} =>
         /\ r.ret \in {"u_append", "s_delete", "r_get", "h_policy", "h_next", "idle"}
         /\ r.ret \in {"u_append", "s_delete"} => r.upd \in Updates
    /\ r.pc \in {"c_get", "c_capture", "c_write"} =>
         /\ r.ret \in {"u_ack", "b_next", "e_next"}
         /\ r.ret = "u_ack" => r.upd \in Updates
    /\ r.done \in {"idle", "h_own", "h_touch", "h_widen", "h_next", "f_touch", "l_all"}
    /\ r.fail \in {"idle", "h_next", "l_one"}

(***************************************************************************)
(* The base invariant: types, well-formed calls, and the bounds on ids     *)
(* that keep them ordered: no id is ahead of the AUTOINCREMENT counter,    *)
(* the WAL is above the cutoff of its snapshot and has a latest entry      *)
(* unless it is empty.                                                     *)
(***************************************************************************)
HasLatest(W) == W # {} => \E w \in W : \A v \in W : v.id <= w.id

StorageOK ==
    /\ StorageTypeOK
    /\ \A d \in Docs :
         /\ snap[d].walId <= lastId
         /\ \A w \in wal[d] : snap[d].walId < w.id /\ w.id <= lastId
         /\ HasLatest(wal[d])

MapOK ==
    /\ docs \in [Docs -> Gens \cup {0}]
    /\ heap \in [Docs -> [Gens -> Entry]]
    /\ \A d \in Docs, g \in Gens : heap[d][g].walSeq <= lastId

CallsOK ==
    /\ task \in [Tasks -> TaskState]
    /\ \A t \in Tasks : CallOK(task[t]) /\ task[t].id <= lastId /\ task[t].seq <= lastId

HistoryOK ==
    /\ log \in [Docs -> SUBSET WalEntry]
    /\ acked \in [Docs -> SUBSET Updates]
    /\ wrote \in [Docs -> SUBSET Updates]

SessionsOK ==
    /\ sessDocs \in [Sessions -> SUBSET Docs]
    /\ sent \in Nat
    /\ crashes \in Nat

StoreBase == StorageOK /\ MapOK /\ CallsOK /\ HistoryOK

Base == StoreBase /\ SessionsOK

--------------------------------------------------------------------------------
\* load_document returns updates, and reports an id that was given out.
LEMMA LoadStateType ==
  ASSUME StorageTypeOK, NEW d \in Docs
  PROVE  LoadState(d) \subseteq Updates
<1>1. snap[d] \in Snapshot /\ wal[d] \subseteq WalEntry
  BY DEF StorageTypeOK
<1>2. snap[d].state \subseteq Updates
  BY <1>1 DEF Snapshot
<1>3. \A w \in WalTail(d) : w.upd \in Updates
  BY <1>1 DEF WalTail, WalEntry
<1> QED
  BY <1>2, <1>3 DEF LoadState

LEMMA LastReplayedBounded ==
  ASSUME StorageOK, NEW d \in Docs
  PROVE  LastReplayed(d) \in Nat /\ LastReplayed(d) <= lastId
<1> DEFINE S == {w.id : w \in WalTail(d)}
<1>1. CASE WalTail(d) = {}
  BY <1>1 DEF LastReplayed, StorageOK, StorageTypeOK
<1>2. CASE WalTail(d) # {}
  <2>1. S \subseteq Nat /\ S # {} /\ \A i \in S : i <= lastId
    BY <1>2 DEF WalTail, StorageOK, StorageTypeOK, WalEntry
  <2>2. WalTail(d) = wal[d]
    BY DEF WalTail, StorageOK, StorageTypeOK, WalEntry, Snapshot
  <2>3. PICK w \in WalTail(d) : \A v \in WalTail(d) : v.id <= w.id
    BY Zenon, <1>2, <2>2 DEF StorageOK, HasLatest
  <2>4. LastReplayed(d) \in S
    BY <1>2, <2>3 DEF LastReplayed
  <2> QED
    BY <2>1, <2>4
<1> QED
  BY <1>1, <1>2

\* An entry loaded from storage is as it should be.
LEMMA LoadedEntry ==
  ASSUME StorageOK, NEW d \in Docs
  PROVE  /\ NewEntry(LoadState(d), LastReplayed(d)) \in Entry
         /\ NewEntry(LoadState(d), LastReplayed(d)).walSeq <= lastId
BY LoadStateType, LastReplayedBounded DEF NewEntry, Entry, StorageOK

--------------------------------------------------------------------------------
\* A task goes on as r and the others stay: the calls stay right.
LEMMA TaskGoesOn ==
  ASSUME CallsOK, NEW t \in Tasks, NEW r \in TaskState, CallOK(r), GoOn(t, r),
         lastId \in Nat, lastId' \in Nat, lastId <= lastId',
         r.id <= lastId', r.seq <= lastId'
  PROVE  CallsOK'
<1>1. task \in [Tasks -> TaskState] /\ task' = [task EXCEPT ![t] = r]
  BY DEF CallsOK, GoOn
<1>2. ASSUME NEW u \in Tasks
      PROVE  CallOK(task'[u]) /\ task'[u].id <= lastId' /\ task'[u].seq <= lastId'
  <2>1. CASE u = t
    BY <1>1, <2>1
  <2>2. CASE u # t
    <3>1. task'[u] = task[u] /\ task[u] \in TaskState
      BY <1>1, <2>2
    <3>2. task[u].id \in Nat /\ task[u].seq \in Nat
      BY <3>1 DEF TaskState
    <3> QED
      BY <1>1, <3>1, <3>2 DEF CallsOK
  <2> QED
    BY <2>1, <2>2
<1> QED
  BY <1>1, <1>2 DEF CallsOK

LEMMA IdleFields ==
  /\ IdleTask \in TaskState
  /\ IdleTask.pc = "idle"
  /\ IdleTask.ret = "idle" /\ IdleTask.done = "idle" /\ IdleTask.fail = "idle"
  /\ IdleTask.id = 0 /\ IdleTask.seq = 0 /\ IdleTask.upd = None
BY DEF IdleTask, TaskState, Pcs

\* A task that returns from a call is in a call it can go on with.
LEMMA ReturnOK ==
  ASSUME CallsOK, NEW t \in Tasks, NEW pc \in Pcs,
         pc \in HasDoc => task[t].doc \in Docs,
         pc \notin HasRef, pc \in HasUpd => task[t].upd \in Updates,
         pc \notin {"k_get", "k_inc", "c_get", "c_capture", "c_write"}
  PROVE  /\ Return(t, pc) \in TaskState /\ CallOK(Return(t, pc))
         /\ Return(t, pc).id = 0 /\ Return(t, pc).seq = 0
<1>1. task[t] \in TaskState /\ CallOK(task[t])
  BY DEF CallsOK
<1>2. IdleTask \in TaskState /\ CallOK(IdleTask) /\ IdleTask.id = 0 /\ IdleTask.seq = 0
  BY IdleFields DEF CallOK, HasDoc, HasRef, HasUpd
<1>3. CASE pc = "idle"
  BY <1>2, <1>3 DEF Return
<1>4. CASE pc # "idle"
  BY Zenon, <1>1, <1>4 DEF Return, TaskState, CallOK
<1> QED
  BY <1>3, <1>4

Gets == {"k_get", "x_get", "r_get", "r_make", "u_get", "c_get", "s_get"}

LEMMA LookupFailedOK ==
  ASSUME CallsOK, NEW t \in Tasks, task[t].pc \in Gets
  PROVE  /\ LookupFailed(t) \in TaskState /\ CallOK(LookupFailed(t))
         /\ LookupFailed(t).id = 0 /\ LookupFailed(t).seq = 0
<1>1. task[t] \in TaskState /\ CallOK(task[t])
  BY DEF CallsOK
<1>2. CASE At(t, "k_get")
  BY <1>1, <1>2, ReturnOK
     DEF LookupFailed, At, CallOK, Pcs, HasDoc, HasRef, HasUpd
<1>3. CASE At(t, "x_get")
  BY <1>1, <1>3, ReturnOK
     DEF LookupFailed, At, CallOK, Pcs, HasDoc, HasRef, HasUpd
<1>4. CASE At(t, "c_get") /\ task[t].ret # "u_ack"
  BY <1>1, <1>4, ReturnOK
     DEF LookupFailed, At, CallOK, Pcs, HasDoc, HasRef, HasUpd
<1>5. CASE /\ ~ At(t, "k_get") /\ ~ At(t, "x_get")
           /\ ~ (At(t, "c_get") /\ task[t].ret # "u_ack")
  <2>1. LookupFailed(t) = Return(t, task[t].fail)
    BY <1>5 DEF LookupFailed
  <2>2. task[t].doc \in Docs /\ task[t].fail \in {"idle", "h_next", "l_one"}
    BY <1>1 DEF CallOK, Gets, HasDoc, Pcs
  <2> QED
    BY <2>1, <2>2, ReturnOK DEF Pcs, HasDoc, HasRef, HasUpd
<1> QED
  BY <1>2, <1>3, <1>4, <1>5

\* Making room only removes entries from the map.
LEMMA MakeRoomShrinks ==
  ASSUME MapOK, NEW room \in MakeRoom
  PROVE  /\ room \in [Docs -> Gens \cup {0}]
         /\ \A d \in Docs : room[d] = docs[d] \/ room[d] = 0
<1>1. CASE room = docs
  BY <1>1 DEF MapOK
<1>2. CASE room # docs
  <2>1. \E v \in Docs : room = [docs EXCEPT ![v] = 0]
    BY <1>2 DEF MakeRoom, PickLru, Evictable, Loaded
  <2> QED
    BY <2>1 DEF MapOK
<1> QED
  BY <1>1, <1>2

--------------------------------------------------------------------------------
\* What an action leaves alone stays right.
LEMMA StorageStays == StorageOK /\ UNCHANGED storageVars => StorageOK'
BY DEF StorageOK, StorageTypeOK, storageVars

LEMMA HistoryStays == HistoryOK /\ UNCHANGED historyVars => HistoryOK'
BY DEF HistoryOK, historyVars

LEMMA MapStays ==
  ASSUME MapOK, StorageOK, lastId' \in Nat, lastId <= lastId', UNCHANGED heap,
         docs' \in [Docs -> Gens \cup {0}]
  PROVE  MapOK'
<1>1. \A d \in Docs, g \in Gens : heap[d][g].walSeq \in Nat
  BY DEF MapOK, Entry
<1> QED
  BY <1>1 DEF MapOK, StorageOK, StorageTypeOK

\* A locked entry is replaced by a right one.
LEMMA LockEntryOK ==
  ASSUME MapOK, NEW t \in Tasks, task[t].doc \in Docs, task[t].ref \in Gens,
         NEW e \in Entry, e.walSeq <= lastId, LockEntry(t, e),
         UNCHANGED <<docs, lastId>>
  PROVE  MapOK'
<1>1. heap' = [heap EXCEPT ![task[t].doc] = [heap[task[t].doc] EXCEPT ![task[t].ref] = e]]
  BY DEF LockEntry, MapOK
<1>2. heap' \in [Docs -> [Gens -> Entry]]
  BY <1>1 DEF MapOK
<1>3. \A d \in Docs, g \in Gens : heap'[d][g] = e \/ heap'[d][g] = heap[d][g]
  BY <1>1 DEF MapOK
<1> QED
  BY <1>2, <1>3 DEF MapOK

\* get_or_create_with keeps the store right, whether it finds the entry, loads it
\* or refuses to create it.
LEMMA GetOrCreateBase ==
  ASSUME StoreBase, NEW t \in Tasks, task[t].pc \in Gets, NEW creation, NEW found \in HasRef,
         found \in HasUpd => task[t].upd \in Updates,
         found = "k_inc" => task[t].pc = "k_get",
         found = "c_capture" => task[t].pc = "c_get",
         GetOrCreate(t, creation, found)
  PROVE  StoreBase'
<1> DEFINE d == task[t].doc
           Found(g) == [task[t] EXCEPT !.pc = found, !.ref = g]
<1>1. /\ task[t] \in TaskState /\ CallOK(task[t]) /\ d \in Docs /\ lastId \in Nat
      /\ task[t].id <= lastId /\ task[t].seq <= lastId
  BY DEF StoreBase, CallsOK, CallOK, Gets, HasDoc, Pcs, StorageOK, StorageTypeOK
<1>2. UNCHANGED storageVars /\ UNCHANGED historyVars /\ lastId' = lastId
  BY Zenon DEF GetOrCreate, storageVars
<1>3. StorageOK' /\ HistoryOK'
  BY <1>2, StorageStays, HistoryStays DEF StoreBase
<1>4. ASSUME NEW g \in Gens
      PROVE  Found(g) \in TaskState /\ CallOK(Found(g))
             /\ Found(g).id <= lastId' /\ Found(g).seq <= lastId'
  <2>1. found \in Pcs
    BY DEF HasRef, Pcs
  <2>2. Found(g) \in TaskState
    BY Zenon, <1>1, <2>1 DEF TaskState
  <2>3. /\ Found(g).pc = found /\ Found(g).ref = g /\ Found(g).doc = task[t].doc
        /\ Found(g).upd = task[t].upd /\ Found(g).ret = task[t].ret
        /\ Found(g).id = task[t].id /\ Found(g).seq = task[t].seq
        /\ Found(g).done = task[t].done /\ Found(g).fail = task[t].fail
    BY <1>1 DEF TaskState
  <2> HIDE DEF Found
  <2>4. CallOK(Found(g))
    BY <1>1, <2>3 DEF CallOK, HasRef
  <2> QED
    BY <1>1, <1>2, <2>2, <2>3, <2>4
<1> HIDE DEF Found
<1>5. ASSUME NEW g \in Gens, GoOn(t, Found(g))
      PROVE  CallsOK'
  BY <1>1, <1>2, <1>4, <1>5, TaskGoesOn DEF StoreBase
<1> USE DEF Found
<1>6. CASE docs[d] # 0 /\ GoOn(t, Found(docs[d])) /\ UNCHANGED <<docs, heap>>
  <2>1. docs[d] \in Gens
    BY <1>1, <1>6 DEF StoreBase, MapOK
  <2>2. CallsOK'
    BY Zenon, <1>5, <1>6, <2>1
  <2>3. MapOK'
    BY <1>1, <1>2, <1>6, MapStays DEF StoreBase, MapOK
  <2> QED
    BY <1>3, <2>2, <2>3 DEF StoreBase
<1>7. ASSUME NEW room \in MakeRoom, NEW g \in Gens,
             docs' = [room EXCEPT ![d] = g],
             heap' = [heap EXCEPT ![d][g] = NewEntry(LoadState(d), LastReplayed(d))],
             GoOn(t, Found(g))
      PROVE  StoreBase'
  <2> DEFINE e == NewEntry(LoadState(d), LastReplayed(d))
  <2>1. CallsOK'
    BY Zenon, <1>5, <1>7
  <2>2. e \in Entry /\ e.walSeq <= lastId
    BY <1>1, LoadedEntry DEF StoreBase
  <2>3. room \in [Docs -> Gens \cup {0}]
    BY MakeRoomShrinks DEF StoreBase
  <2> HIDE DEF e
  <2>4. heap' = [heap EXCEPT ![d] = [heap[d] EXCEPT ![g] = e]]
    BY <1>7 DEF e
  <2>5. heap' \in [Docs -> [Gens -> Entry]] /\ docs' \in [Docs -> Gens \cup {0}]
    BY <1>1, <1>7, <2>2, <2>3, <2>4 DEF StoreBase, MapOK
  <2>6. \A x \in Docs, h \in Gens : heap'[x][h] = e \/ heap'[x][h] = heap[x][h]
    BY <1>1, <2>4 DEF StoreBase, MapOK
  <2>7. MapOK'
    BY Zenon, <1>2, <2>2, <2>5, <2>6 DEF StoreBase, MapOK
  <2> QED
    BY <1>3, <2>1, <2>7 DEF StoreBase
<1>8. CASE docs' \in MakeRoom /\ GoOn(t, LookupFailed(t)) /\ UNCHANGED heap
  <2>1. CallsOK'
    BY <1>1, <1>2, <1>8, LookupFailedOK, TaskGoesOn DEF StoreBase
  <2>2. MapOK'
    BY <1>1, <1>2, <1>8, MakeRoomShrinks, MapStays DEF StoreBase
  <2> QED
    BY <1>3, <2>1, <2>2 DEF StoreBase
<1> QED
  BY Zenon, <1>6, <1>7, <1>8 DEF GetOrCreate

\* A step that only moves a task on, to a call with ids already given out.
CallNow(r) == r \in TaskState /\ CallOK(r) /\ r.id <= lastId /\ r.seq <= lastId

LEMMA IdleNow == lastId \in Nat => CallNow(IdleTask)
<1>1. CallOK(IdleTask)
  BY IdleFields DEF CallOK, HasDoc, HasRef, HasUpd
<1> QED
  BY <1>1, IdleFields DEF CallNow

LEMMA CallStep ==
  ASSUME StoreBase, NEW t \in Tasks, NEW r, CallNow(r), GoOn(t, r),
         UNCHANGED <<storageVars, docs, heap, historyVars>>
  PROVE  StoreBase'
<1>1. lastId \in Nat /\ lastId' = lastId
  BY DEF StoreBase, StorageOK, StorageTypeOK, storageVars
<1>2. CallsOK'
  BY <1>1, TaskGoesOn DEF StoreBase, CallNow
<1>3. MapOK'
  BY <1>1, MapStays DEF StoreBase, MapOK
<1> QED
  BY <1>2, <1>3, StorageStays, HistoryStays DEF StoreBase

\* A step that also replaces the entry the task has locked.
LEMMA EntryStep ==
  ASSUME StoreBase, NEW t \in Tasks, task[t].pc \in HasRef, NEW r, CallNow(r), GoOn(t, r),
         NEW e \in Entry, e.walSeq <= lastId, LockEntry(t, e),
         UNCHANGED <<storageVars, docs, historyVars>>
  PROVE  StoreBase'
<1>1. lastId \in Nat /\ lastId' = lastId
  BY DEF StoreBase, StorageOK, StorageTypeOK, storageVars
<1>2. CallsOK'
  BY <1>1, TaskGoesOn DEF StoreBase, CallNow
<1>3. task[t].doc \in Docs /\ task[t].ref \in Gens
  BY DEF StoreBase, CallsOK, CallOK, HasRef, HasDoc, Pcs
<1>4. MapOK'
  BY <1>1, <1>3, LockEntryOK DEF StoreBase
<1> QED
  BY <1>2, <1>4, StorageStays, HistoryStays DEF StoreBase

\* What is known of a task and of the entry it has locked.
LEMMA TaskNow ==
  ASSUME StoreBase, NEW t \in Tasks
  PROVE  CallNow(task[t]) /\ lastId \in Nat
BY DEF StoreBase, CallsOK, CallNow, StorageOK, StorageTypeOK

LEMMA LockedNow ==
  ASSUME StoreBase, NEW t \in Tasks, task[t].pc \in HasRef
  PROVE  /\ task[t].doc \in Docs /\ task[t].ref \in Gens
         /\ Locked(t) \in Entry /\ Locked(t).walSeq <= lastId
<1>1. task[t].doc \in Docs /\ task[t].ref \in Gens
  BY DEF StoreBase, CallsOK, CallOK, HasRef, HasDoc, Pcs
<1> QED
  BY <1>1 DEF StoreBase, MapOK, Locked

\* Entries stay entries when some of their fields are set.
LEMMA EntryFields ==
  ASSUME NEW e \in Entry, NEW n \in Nat, NEW w \in Nat, NEW c \in SUBSET Updates,
         NEW b \in BOOLEAN, NEW k \in Nat
  PROVE  /\ [e EXCEPT !.connected = n, !.idle = b] \in Entry
         /\ [e EXCEPT !.connected = n] \in Entry
         /\ [e EXCEPT !.count = k] \in Entry
         /\ [e EXCEPT !.idle = b] \in Entry
         /\ [e EXCEPT !.content = c, !.walSeq = w, !.count = k, !.idle = b] \in Entry
         /\ [e EXCEPT !.content = c, !.walSeq = w, !.count = k, !.idle = b,
                      !.connected = n] \in Entry
BY Zenon DEF Entry

--------------------------------------------------------------------------------
(***************************************************************************)
(* The operations of the store, one after the other.                       *)
(***************************************************************************)
\* A handler that has its answer goes on with a call it can make.
LEMMA ReturnNow ==
  ASSUME StoreBase, NEW t \in Tasks, NEW pc \in Pcs,
         pc \in HasDoc => task[t].doc \in Docs,
         pc \notin HasRef, pc \in HasUpd => task[t].upd \in Updates,
         pc \notin {"k_get", "k_inc", "c_get", "c_capture", "c_write"}
  PROVE  CallNow(Return(t, pc))
BY ReturnOK, TaskNow DEF CallNow, StoreBase

LEMMA ConnectBase ==
  ASSUME StoreBase, NEW t \in Tasks, ConnectIncrement(t)
  PROVE  StoreBase'
<1> DEFINE e == [Locked(t) EXCEPT !.connected = @ + 1, !.idle = FALSE]
           r == Return(t, task[t].ret)
<1>1. CallNow(task[t]) /\ lastId \in Nat /\ task[t].pc = "k_inc"
  BY TaskNow DEF ConnectIncrement, At
<1>2. task[t].pc \in HasRef
  BY <1>1 DEF HasRef
<1>3. /\ task[t].ret \in {"u_append", "s_delete", "r_get", "h_policy", "h_next", "idle"}
      /\ task[t].doc \in Docs
      /\ task[t].ret \in {"u_append", "s_delete"} => task[t].upd \in Updates
  BY <1>1 DEF CallNow, CallOK, HasDoc, Pcs
<1>4. CallNow(r)
  BY <1>3, ReturnNow DEF Pcs, HasDoc, HasRef, HasUpd
<1>5. Locked(t) \in Entry /\ Locked(t).walSeq <= lastId /\ Locked(t).connected + 1 \in Nat
  BY <1>2, LockedNow DEF Entry
<1>6. e \in Entry /\ e.walSeq <= lastId
  <2>1. e \in Entry
    BY Zenon, <1>5, EntryFields
  <2>2. e.walSeq = Locked(t).walSeq
    BY <1>5 DEF Entry
  <2> QED
    BY <1>5, <2>1, <2>2
<1>7. GoOn(t, r) /\ LockEntry(t, e) /\ UNCHANGED <<storageVars, docs, historyVars>>
  BY DEF ConnectIncrement
<1> HIDE DEF e, r
<1> QED
  BY <1>2, <1>4, <1>6, <1>7, EntryStep

LEMMA DisconnectBase ==
  ASSUME StoreBase, NEW t \in Tasks, DisconnectDecrement(t)
  PROVE  StoreBase'
<1> DEFINE n == IF Locked(t).connected = 0 THEN 0 ELSE Locked(t).connected - 1
           e == [Locked(t) EXCEPT !.connected = n]
           r == [task[t] EXCEPT !.pc = "x_next", !.ref = 0]
<1>1. CallNow(task[t]) /\ lastId \in Nat /\ task[t].pc \in HasRef
  BY TaskNow DEF DisconnectDecrement, At, HasRef
<1>2. CallNow(r)
  <2>1. r \in TaskState
    BY Zenon, <1>1 DEF CallNow, TaskState, Pcs
  <2>2. CallOK(r) /\ r.id = task[t].id /\ r.seq = task[t].seq
    BY <1>1 DEF CallNow, CallOK, TaskState, HasDoc, HasRef, HasUpd, Pcs
  <2> QED
    BY <1>1, <2>1, <2>2 DEF CallNow
<1>3. Locked(t) \in Entry /\ Locked(t).walSeq <= lastId /\ n \in Nat
  BY <1>1, LockedNow DEF Entry
<1>4. e \in Entry /\ e.walSeq <= lastId
  <2> HIDE DEF n
  <2>1. e \in Entry
    BY Zenon, <1>3, EntryFields
  <2>2. e.walSeq = Locked(t).walSeq
    BY <1>3 DEF Entry
  <2> QED
    BY <1>3, <2>1, <2>2
<1>5. GoOn(t, r) /\ LockEntry(t, e) /\ UNCHANGED <<storageVars, docs, historyVars>>
  BY DEF DisconnectDecrement, Goto
<1> HIDE DEF e, r
<1> QED
  BY <1>1, <1>2, <1>4, <1>5, EntryStep

LEMMA ReadBase ==
  ASSUME StoreBase, NEW t \in Tasks, ReadEntry(t)
  PROVE  StoreBase'
<1>1. CallNow(task[t]) /\ task[t].pc = "r_read"
  BY TaskNow DEF ReadEntry, At
<1>2. task[t].done \in {"idle", "h_own", "h_touch", "h_widen", "h_next", "f_touch", "l_all"}
      /\ task[t].doc \in Docs
  BY <1>1 DEF CallNow, CallOK, HasDoc, Pcs
<1>3. CallNow(Return(t, task[t].done))
  BY <1>2, ReturnNow DEF Pcs, HasDoc, HasRef, HasUpd
<1> QED
  BY <1>3, CallStep DEF ReadEntry

\* wal_append gives out an id above every other.
LEMMA AppendBase ==
  ASSUME StoreBase, NEW t \in Tasks, NEW next \in {"u_get", "s_get"},
         task[t].pc \in {"u_append", "s_append"}, Append(t, next)
  PROVE  StoreBase'
<1> DEFINE d == task[t].doc
           u == task[t].upd
           w == [id |-> lastId + 1, upd |-> u]
           r == [task[t] EXCEPT !.pc = next, !.id = lastId + 1]
<1>1. CallNow(task[t]) /\ lastId \in Nat
  BY TaskNow
<1>2. d \in Docs /\ u \in Updates
  BY <1>1 DEF CallNow, CallOK, HasDoc, HasUpd, Pcs
<1>3. w \in WalEntry /\ w.id = lastId + 1
  BY <1>1, <1>2 DEF WalEntry
<1>4. /\ lastId' = lastId + 1 /\ UNCHANGED <<snap, docs, heap, acked>>
      /\ wal' = [wal EXCEPT ![d] = @ \cup {w}]
      /\ log' = [log EXCEPT ![d] = @ \cup {w}]
      /\ wrote' = [wrote EXCEPT ![d] = @ \cup {u}]
      /\ GoOn(t, r)
  BY DEF Append, WalAppend
<1>5. StorageOK'
  <2> HIDE DEF w
  <2>1. \A x \in Docs : snap[x].walId \in Nat /\ \A v \in wal[x] : v.id \in Nat
    BY DEF StoreBase, StorageOK, StorageTypeOK, Snapshot, WalEntry
  <2>2. StorageTypeOK'
    BY <1>1, <1>2, <1>3, <1>4 DEF StoreBase, StorageOK, StorageTypeOK
  <2>3. \A x \in Docs : \A v \in wal'[x] : v \in wal[x] \/ v = w
    BY <1>2, <1>4 DEF StoreBase, StorageOK, StorageTypeOK
  <2>4. \A x \in Docs : HasLatest(wal'[x])
    <3>1. \A x \in Docs : x # d => wal'[x] = wal[x]
      BY <1>2, <1>4 DEF StoreBase, StorageOK, StorageTypeOK
    <3>2. w \in wal'[d] /\ \A v \in wal'[d] : v.id <= w.id
      <4>1. wal'[d] = wal[d] \cup {w}
        BY <1>2, <1>4 DEF StoreBase, StorageOK, StorageTypeOK
      <4>2. \A v \in wal[d] : v.id \in Nat /\ v.id <= lastId
        BY <1>2, <2>1 DEF StoreBase, StorageOK
      <4> QED
        BY <1>1, <1>3, <4>1, <4>2
    <3>3. \A x \in Docs : HasLatest(wal[x])
      BY DEF StoreBase, StorageOK
    <3> QED
      BY Zenon, <3>1, <3>2, <3>3 DEF HasLatest
  <2>5. \A x \in Docs : /\ snap'[x].walId <= lastId'
                       /\ \A v \in wal'[x] : snap'[x].walId < v.id /\ v.id <= lastId'
    BY <1>1, <1>3, <1>4, <2>1, <2>3 DEF StoreBase, StorageOK
  <2> QED
    BY Zenon, <2>2, <2>4, <2>5 DEF StorageOK
<1>6. MapOK'
  BY <1>1, <1>4, MapStays DEF StoreBase, MapOK
<1>7. HistoryOK'
  BY <1>2, <1>3, <1>4 DEF StoreBase, HistoryOK
<1>8. CallsOK'
  <2>1. r \in TaskState
    <3>1. next \in Pcs /\ lastId + 1 \in Nat
      BY <1>1 DEF Pcs
    <3> QED
      BY Zenon, <1>1, <3>1 DEF CallNow, TaskState
  <2>2. CallOK(r)
    BY <1>1, <1>2 DEF CallNow, CallOK, TaskState, HasDoc, HasRef, HasUpd, Pcs
  <2>3. r.id <= lastId' /\ r.seq <= lastId' /\ lastId <= lastId'
    BY <1>1, <1>4 DEF CallNow, TaskState
  <2> HIDE DEF r
  <2> QED
    BY <1>1, <1>4, <2>1, <2>2, <2>3, TaskGoesOn DEF StoreBase
<1> QED
  BY <1>5, <1>6, <1>7, <1>8 DEF StoreBase

\* The in-memory apply of apply_update and of share_doc.
LEMMA ApplyBase ==
  ASSUME StoreBase, NEW t \in Tasks, UpdateApply(t) \/ ShareApply(t)
  PROVE  StoreBase'
<1> DEFINE c == Locked(t).content \cup {task[t].upd}
           next == IF CompactionDue(Locked(t).count + 1) THEN "c_get" ELSE "u_ack"
           eu == [Locked(t) EXCEPT !.content = c, !.walSeq = task[t].id,
                                   !.count = Locked(t).count + 1, !.idle = FALSE]
           es == [Locked(t) EXCEPT !.content = c, !.walSeq = task[t].id,
                                   !.count = 1, !.idle = FALSE, !.connected = 1]
           ru == [task[t] EXCEPT !.pc = next, !.ret = "u_ack", !.ref = 0]
           rs == [task[t] EXCEPT !.pc = "u_ack", !.ref = 0]
<1>1. CallNow(task[t]) /\ lastId \in Nat /\ task[t].pc \in {"u_apply", "s_apply"}
  BY TaskNow DEF UpdateApply, ShareApply, At
<1>2. task[t].pc \in HasRef
  BY <1>1 DEF HasRef
<1>3. /\ task[t].doc \in Docs /\ task[t].upd \in Updates
      /\ task[t].id \in Nat /\ task[t].id <= lastId
  BY <1>1 DEF CallNow, CallOK, TaskState, HasDoc, HasUpd, Pcs
<1>4. Locked(t) \in Entry /\ c \in SUBSET Updates /\ Locked(t).count + 1 \in Nat
  BY <1>2, <1>3, LockedNow DEF Entry
<1>5. CASE UpdateApply(t)
  <2>1. next \in Pcs /\ next \in {"c_get", "u_ack"}
    BY DEF Pcs
  <2> HIDE DEF c, next
  <2>2. eu \in Entry
    BY Zenon, <1>3, <1>4, EntryFields
  <2>3. eu.walSeq = task[t].id
    BY <1>4 DEF Entry
  <2>4. ru \in TaskState
    BY Zenon, <1>1, <2>1 DEF CallNow, TaskState, Pcs
  <2>5. /\ ru.pc = next /\ ru.ret = "u_ack" /\ ru.doc = task[t].doc
        /\ ru.upd = task[t].upd /\ ru.id = task[t].id /\ ru.seq = task[t].seq
        /\ ru.done = task[t].done /\ ru.fail = task[t].fail
    BY <1>1 DEF CallNow, TaskState
  <2>6. GoOn(t, ru) /\ LockEntry(t, eu) /\ UNCHANGED <<storageVars, docs, historyVars>>
    BY <1>5 DEF UpdateApply, c, next
  <2> HIDE DEF eu, ru
  <2>7. CallNow(ru)
    BY <1>1, <1>3, <2>1, <2>4, <2>5 DEF CallNow, CallOK, HasRef
  <2> QED
    BY <1>2, <1>3, <2>2, <2>3, <2>6, <2>7, EntryStep
<1>6. CASE ShareApply(t)
  <2> HIDE DEF c
  <2>1. es \in Entry
    BY Zenon, <1>3, <1>4, EntryFields
  <2>2. es.walSeq = task[t].id
    BY <1>4 DEF Entry
  <2>3. rs \in TaskState
    BY Zenon, <1>1 DEF CallNow, TaskState, Pcs
  <2>4. /\ rs.pc = "u_ack" /\ rs.doc = task[t].doc /\ rs.upd = task[t].upd
        /\ rs.id = task[t].id /\ rs.seq = task[t].seq
        /\ rs.done = task[t].done /\ rs.fail = task[t].fail
    BY <1>1 DEF CallNow, TaskState
  <2>5. GoOn(t, rs) /\ LockEntry(t, es) /\ UNCHANGED <<storageVars, docs, historyVars>>
    BY <1>6 DEF ShareApply, Goto, c
  <2> HIDE DEF es, rs
  <2>6. CallNow(rs)
    BY <1>1, <1>3, <2>3, <2>4 DEF CallNow, CallOK, HasRef
  <2> QED
    BY <1>2, <1>3, <2>1, <2>2, <2>5, <2>6, EntryStep
<1> QED
  BY <1>5, <1>6

LEMMA AckBase ==
  ASSUME StoreBase, NEW t \in Tasks, UpdateAck(t)
  PROVE  StoreBase'
<1>1. CallNow(task[t]) /\ lastId \in Nat /\ task[t].pc = "u_ack"
  BY TaskNow DEF UpdateAck, At
<1>2. /\ task[t].done \in {"idle", "h_own", "h_touch", "h_widen", "h_next", "f_touch", "l_all"}
      /\ task[t].doc \in Docs /\ task[t].upd \in Updates
  BY <1>1 DEF CallNow, CallOK, HasDoc, HasUpd, Pcs
<1>3. CallNow(Return(t, task[t].done))
  BY <1>2, ReturnNow DEF Pcs, HasDoc, HasRef, HasUpd
<1>4. GoOn(t, Return(t, task[t].done)) /\ UNCHANGED <<storageVars, docs, heap, log, wrote>>
  BY DEF UpdateAck
<1>5. HistoryOK'
  BY <1>2, <1>4 DEF UpdateAck, StoreBase, HistoryOK
<1>6. lastId' = lastId
  BY <1>4 DEF storageVars
<1>7. StorageOK' /\ MapOK'
  BY <1>1, <1>4, <1>6, StorageStays, MapStays DEF StoreBase, MapOK
<1>8. CallsOK'
  BY <1>1, <1>3, <1>4, <1>6, TaskGoesOn DEF StoreBase, CallNow
<1> QED
  BY <1>5, <1>7, <1>8 DEF StoreBase

\* compact_doc: the capture, then the write of the snapshot.
LEMMA CaptureBase ==
  ASSUME StoreBase, NEW t \in Tasks, CompactCapture(t)
  PROVE  StoreBase'
<1> DEFINE l == Locked(t)
           e == [l EXCEPT !.count = 0]
           r == [task[t] EXCEPT !.pc = "c_write", !.cap = l.content,
                                !.seq = l.walSeq, !.ref = 0]
<1>1. CallNow(task[t]) /\ lastId \in Nat /\ task[t].pc = "c_capture"
  BY TaskNow DEF CompactCapture, At
<1>2. task[t].pc \in HasRef
  BY <1>1 DEF HasRef
<1>3. l \in Entry /\ l.walSeq <= lastId
  BY <1>2, LockedNow
<1>4. GoOn(t, r) /\ LockEntry(t, e) /\ UNCHANGED <<storageVars, docs, historyVars>>
  BY DEF CompactCapture
<1> HIDE DEF l
<1>5. e \in Entry /\ e.walSeq = l.walSeq /\ l.content \in SUBSET Updates /\ l.walSeq \in Nat
  <2>1. e \in Entry
    BY <1>3 DEF Entry
  <2> QED
    BY <1>3, <2>1 DEF Entry
<1>6. r \in TaskState
  <2>1. "c_write" \in Pcs
    BY DEF Pcs
  <2> QED
    BY Zenon, <1>1, <1>5, <2>1 DEF CallNow, TaskState
<1>7. /\ r.pc = "c_write" /\ r.ret = task[t].ret /\ r.doc = task[t].doc
      /\ r.upd = task[t].upd /\ r.id = task[t].id /\ r.seq = l.walSeq
      /\ r.done = task[t].done /\ r.fail = task[t].fail
  BY <1>1 DEF CallNow, TaskState
<1> HIDE DEF r, e
<1>8. CallNow(r)
  BY <1>1, <1>3, <1>6, <1>7 DEF CallNow, CallOK, HasRef, HasUpd, HasDoc, Pcs
<1> QED
  BY <1>2, <1>3, <1>4, <1>5, <1>8, EntryStep

LEMMA WriteBase ==
  ASSUME StoreBase, NEW t \in Tasks, CompactWrite(t)
  PROVE  StoreBase'
<1> DEFINE d == task[t].doc
           r == [task[t] EXCEPT !.pc = task[t].ret, !.cap = {}, !.seq = 0]
           row == [present |-> TRUE, state |-> task[t].cap, walId |-> task[t].seq]
<1>1. CallNow(task[t]) /\ lastId \in Nat /\ task[t].pc = "c_write"
  BY TaskNow DEF CompactWrite, At
<1>2. /\ d \in Docs /\ task[t].cap \in SUBSET Updates
      /\ task[t].seq \in Nat /\ task[t].seq <= lastId
      /\ task[t].ret \in {"u_ack", "b_next", "e_next"}
      /\ task[t].ret = "u_ack" => task[t].upd \in Updates
  BY <1>1 DEF CallNow, CallOK, TaskState, HasDoc, Pcs
<1>3. /\ snap' = [snap EXCEPT ![d] = row]
      /\ wal' = [wal EXCEPT ![d] = {w \in @ : w.id > task[t].seq}]
      /\ GoOn(t, r) /\ lastId' = lastId /\ UNCHANGED <<docs, heap, historyVars>>
  BY DEF CompactWrite, Compact
<1>4. StorageOK'
  <2>1. row \in Snapshot /\ row.walId = task[t].seq
    BY <1>2 DEF Snapshot
  <2> HIDE DEF row
  <2>2. StorageTypeOK'
    BY <1>2, <1>3, <2>1 DEF StoreBase, StorageOK, StorageTypeOK
  <2>3. \A x \in Docs : wal'[x] \subseteq wal[x]
    BY <1>2, <1>3 DEF StoreBase, StorageOK, StorageTypeOK
  <2>4. \A w \in wal'[d] : w.id > task[t].seq /\ w.id \in Nat
    BY <1>2, <1>3 DEF StoreBase, StorageOK, StorageTypeOK, WalEntry
  <2>5. snap'[d] = row /\ \A x \in Docs : x # d => snap'[x] = snap[x]
    BY <1>2, <1>3 DEF StoreBase, StorageOK, StorageTypeOK
  <2>6. \A x \in Docs : HasLatest(wal'[x])
    <3>1. \A x \in Docs : x # d => wal'[x] = wal[x]
      BY <1>2, <1>3 DEF StoreBase, StorageOK, StorageTypeOK
    <3>2. wal'[d] = {w \in wal[d] : w.id > task[t].seq} /\ HasLatest(wal[d])
      BY <1>2, <1>3 DEF StoreBase, StorageOK, StorageTypeOK
    <3>3. \A w \in wal[d] : w.id \in Nat
      BY <1>2 DEF StoreBase, StorageOK, StorageTypeOK, WalEntry
    <3>4. HasLatest(wal'[d])
      BY <1>2, <3>2, <3>3 DEF HasLatest
    <3> QED
      BY Zenon, <3>1, <3>4 DEF StoreBase, StorageOK
  <2> QED
    BY <1>2, <1>3, <2>1, <2>2, <2>3, <2>4, <2>5, <2>6 DEF StoreBase, StorageOK
<1>5. HistoryOK' /\ MapOK'
  BY <1>1, <1>3, HistoryStays, MapStays DEF StoreBase, MapOK
<1>6. CallNow(r)
  <2>1. r \in TaskState
    BY Zenon, <1>1 DEF CallNow, TaskState
  <2>2. /\ r.pc = task[t].ret /\ r.ret = task[t].ret /\ r.doc = task[t].doc
        /\ r.upd = task[t].upd /\ r.id = task[t].id /\ r.seq = 0
        /\ r.done = task[t].done /\ r.fail = task[t].fail
    BY <1>1 DEF CallNow, TaskState
  <2> HIDE DEF r
  <2> QED
    BY <1>1, <1>2, <2>1, <2>2 DEF CallNow, CallOK, HasRef, HasUpd, HasDoc, Pcs
<1>7. CallsOK'
  <2> HIDE DEF r
  <2> QED
    BY <1>1, <1>3, <1>6, TaskGoesOn DEF StoreBase, CallNow
<1> QED
  BY <1>4, <1>5, <1>7 DEF StoreBase

\* delete_document, whole or interrupted, leaves the tables right.
LEMMA DeletedOK ==
  ASSUME StorageOK, NEW d \in Docs, DeleteDocument(d) \/ DeleteInterrupted(d)
  PROVE  StorageOK' /\ lastId' = lastId
<1>1. NoSnapshot \in Snapshot /\ NoSnapshot.walId = 0
  BY DEF NoSnapshot, Snapshot
<1>2. /\ snap' = [snap EXCEPT ![d] = NoSnapshot] /\ lastId' = lastId
      /\ wal' = [wal EXCEPT ![d] = {}] \/ wal' = wal
  BY DEF DeleteDocument, DeleteInterrupted
<1>3. StorageTypeOK'
  BY <1>1, <1>2 DEF StorageOK, StorageTypeOK
<1>4. \A x \in Docs : wal'[x] \subseteq wal[x]
  BY <1>2 DEF StorageOK, StorageTypeOK
<1>5. \A x \in Docs : snap'[x] = NoSnapshot \/ snap'[x] = snap[x]
  BY <1>2 DEF StorageOK, StorageTypeOK
<1>6. \A x \in Docs : snap[x].walId \in Nat /\ \A v \in wal[x] : v.id \in Nat
  BY DEF StorageOK, StorageTypeOK, Snapshot, WalEntry
<1>7. \A x \in Docs : \A w \in wal[x] : 0 < w.id
  BY <1>6 DEF StorageOK
<1>8. \A x \in Docs : HasLatest(wal'[x])
  <2>1. \A x \in Docs : wal'[x] = {} \/ wal'[x] = wal[x]
    BY <1>2 DEF StorageOK, StorageTypeOK
  <2> QED
    BY Zenon, <2>1 DEF StorageOK, HasLatest
<1> QED
  BY <1>1, <1>2, <1>3, <1>4, <1>5, <1>6, <1>7, <1>8 DEF StorageOK, StorageTypeOK

LEMMA DestroyedOK ==
  ASSUME HistoryOK, NEW gone, Destroyed(gone)
  PROVE  HistoryOK'
BY DEF HistoryOK, Destroyed

\* A task that leaves a deletion or a removal for one of these points.
LEMMA GotoNow ==
  ASSUME StoreBase, NEW t \in Tasks, task[t].pc \in {"s_delete", "s_remove"},
         NEW pc \in {"s_remove", "s_append"}
  PROVE  CallNow([task[t] EXCEPT !.pc = pc, !.ref = 0])
<1> DEFINE r == [task[t] EXCEPT !.pc = pc, !.ref = 0]
<1>1. CallNow(task[t]) /\ pc \in Pcs
  BY TaskNow DEF Pcs
<1>2. r \in TaskState
  BY Zenon, <1>1 DEF CallNow, TaskState
<1>3. /\ r.pc = pc /\ r.doc = task[t].doc /\ r.upd = task[t].upd
      /\ r.id = task[t].id /\ r.seq = task[t].seq
      /\ r.done = task[t].done /\ r.fail = task[t].fail
  BY <1>1 DEF CallNow, TaskState
<1> HIDE DEF r
<1>4. CallNow(r)
  BY <1>1, <1>2, <1>3 DEF CallNow, CallOK, HasRef, HasUpd, HasDoc, Pcs
<1> QED
  BY <1>4 DEF r

LEMMA DeleteBase ==
  ASSUME StoreBase, NEW t \in Tasks, DeleteStored(t) \/ ShareDelete(t)
  PROVE  StoreBase'
<1>1. CallNow(task[t]) /\ lastId \in Nat /\ task[t].pc \in {"d_delete", "s_delete"}
  BY TaskNow DEF DeleteStored, ShareDelete, At
<1>2. task[t].doc \in Docs
  BY <1>1 DEF CallNow, CallOK, HasDoc, Pcs
<1>3. /\ DeleteDocument(task[t].doc) /\ Destroyed({task[t].doc})
      /\ UNCHANGED <<docs, heap>>
  BY DEF DeleteStored, ShareDelete
<1>4. StorageOK' /\ HistoryOK' /\ lastId' = lastId
  BY <1>2, <1>3, DeletedOK, DestroyedOK DEF StoreBase
<1>5. MapOK'
  BY <1>1, <1>3, <1>4, MapStays DEF StoreBase, MapOK
<1>6. CASE DeleteStored(t)
  <2>1. CallNow(IdleTask) /\ GoOn(t, IdleTask)
    BY <1>1, <1>6, IdleNow DEF DeleteStored
  <2>2. CallsOK'
    BY <1>1, <1>4, <2>1, TaskGoesOn DEF StoreBase, CallNow
  <2> QED
    BY <1>4, <1>5, <2>2 DEF StoreBase
<1>7. CASE ShareDelete(t)
  <2> DEFINE r == [task[t] EXCEPT !.pc = "s_remove", !.ref = 0]
  <2>1. CallNow(r) /\ GoOn(t, r)
    BY Zenon, <1>7, GotoNow DEF ShareDelete, Goto, At
  <2> HIDE DEF r
  <2>2. CallsOK'
    BY <1>1, <1>4, <2>1, TaskGoesOn DEF StoreBase, CallNow
  <2> QED
    BY <1>4, <1>5, <2>2 DEF StoreBase
<1> QED
  BY <1>6, <1>7

LEMMA ShareRemoveBase ==
  ASSUME StoreBase, NEW t \in Tasks, ShareRemove(t)
  PROVE  StoreBase'
<1> DEFINE r == [task[t] EXCEPT !.pc = "s_append", !.ref = 0]
<1>1. CallNow(r) /\ GoOn(t, r) /\ lastId \in Nat
  BY Zenon, GotoNow, TaskNow DEF ShareRemove, Goto, At
<1> HIDE DEF r
<1>2. UNCHANGED <<storageVars, heap, historyVars>> /\ lastId' = lastId
  BY DEF ShareRemove, storageVars
<1>3. docs' \in [Docs -> Gens \cup {0}]
  BY Zenon DEF ShareRemove, StoreBase, MapOK
<1>4. MapOK'
  BY <1>1, <1>2, <1>3, MapStays DEF StoreBase
<1>5. CallsOK'
  BY <1>1, <1>2, TaskGoesOn DEF StoreBase, CallNow
<1> QED
  BY <1>2, <1>4, <1>5, StorageStays, HistoryStays DEF StoreBase

\* The loops of the background task and of evict_idle.
LEMMA LoopBase ==
  ASSUME StoreBase, NEW t \in Tasks, TickCompact(t) \/ EvictCompact(t)
  PROVE  StoreBase'
<1>1. CallNow(task[t]) /\ lastId \in Nat /\ task[t].pc \in {"b_next", "e_next"}
  BY Zenon, TaskNow DEF TickCompact, EvictCompact, At
<1>2. PICK ret \in {"b_next", "e_next"}, d \in task[t].queue :
        GoOn(t, [task[t] EXCEPT !.pc = "c_get", !.ret = ret, !.doc = d, !.queue = @ \ {d}])
  BY Zenon DEF TickCompact, EvictCompact
<1> DEFINE q == task[t].queue \ {d}
           r == [task[t] EXCEPT !.pc = "c_get", !.ret = ret, !.doc = d, !.queue = q]
<1>3. /\ d \in Docs /\ q \in SUBSET Docs /\ "c_get" \in Pcs /\ ret \in Pcs
  BY <1>1 DEF CallNow, TaskState, Pcs
<1> HIDE DEF q
<1>4. r \in TaskState
  BY Zenon, <1>1, <1>3 DEF CallNow, TaskState
<1>5. /\ r.pc = "c_get" /\ r.doc = d /\ r.ret = ret
      /\ r.id = task[t].id /\ r.seq = task[t].seq
      /\ r.done = task[t].done /\ r.fail = task[t].fail
  BY <1>1 DEF CallNow, TaskState
<1>6. GoOn(t, r)
  BY <1>2 DEF q
<1> HIDE DEF r
<1>7. CallNow(r)
  BY <1>1, <1>3, <1>4, <1>5 DEF CallNow, CallOK, HasRef, HasUpd
<1>8. UNCHANGED <<storageVars, docs, heap, historyVars>>
  BY Zenon DEF TickCompact, EvictCompact
<1> QED
  BY <1>6, <1>7, <1>8, CallStep

\* A loop of evict_idle over a set of documents.
LEMMA QueueNow ==
  ASSUME NEW pc \in {"b_next", "e_next", "e_delete", "x_next"}, NEW queue \in SUBSET Docs,
         NEW cand \in SUBSET Docs, lastId \in Nat
  PROVE  /\ CallNow([IdleTask EXCEPT !.pc = pc, !.queue = queue, !.cand = cand])
         /\ CallNow([IdleTask EXCEPT !.pc = pc, !.queue = queue])
<1> DEFINE v == [IdleTask EXCEPT !.pc = pc, !.queue = queue]
           r == [IdleTask EXCEPT !.pc = pc, !.queue = queue, !.cand = cand]
<1>1. pc \in Pcs
  BY DEF Pcs
<1>2. r \in TaskState /\ v \in TaskState
  BY Zenon, <1>1, IdleFields DEF TaskState
<1>3. /\ r.pc = pc /\ r.id = 0 /\ r.seq = 0 /\ r.done = "idle" /\ r.fail = "idle"
      /\ v.pc = pc /\ v.id = 0 /\ v.seq = 0 /\ v.done = "idle" /\ v.fail = "idle"
  BY IdleFields DEF TaskState
<1> HIDE DEF r, v
<1>4. CallNow(r) /\ CallNow(v)
  BY <1>2, <1>3 DEF CallNow, CallOK, HasDoc, HasRef, HasUpd
<1> QED
  BY <1>4 DEF r, v

LEMMA EvictScanBase ==
  ASSUME StoreBase, NEW t \in Tasks, TickEvict(t)
  PROVE  StoreBase'
<1>1. lastId \in Nat /\ CallNow(IdleTask) /\ Unused \in SUBSET Docs
  BY TaskNow, IdleNow DEF Unused, Loaded
<1>2. CallNow([IdleTask EXCEPT !.pc = "e_next", !.queue = Unused, !.cand = Unused])
  BY Zenon, <1>1, QueueNow
<1>3. UNCHANGED <<storageVars, docs, heap, historyVars>>
  BY DEF TickEvict, EvictScan
<1>4. \/ GoOn(t, IdleTask)
      \/ GoOn(t, [IdleTask EXCEPT !.pc = "e_next", !.queue = Unused, !.cand = Unused])
  BY DEF TickEvict, EvictScan
<1> QED
  BY <1>1, <1>2, <1>3, <1>4, CallStep

LEMMA EvictRemoveBase ==
  ASSUME StoreBase, NEW t \in Tasks, EvictRemove(t)
  PROVE  StoreBase'
<1> DEFINE gone == task[t].cand \cap Unused
           r == [IdleTask EXCEPT !.pc = "e_delete", !.queue = gone \ Durable]
<1>1. lastId \in Nat /\ CallNow(IdleTask) /\ gone \in SUBSET Docs
  BY TaskNow, IdleNow DEF Unused, Loaded
<1>2. CallNow(r)
  <2>1. gone \ Durable \in SUBSET Docs
    BY <1>1
  <2> HIDE DEF gone
  <2> QED
    BY Zenon, <1>1, <2>1, QueueNow
<1>3. /\ UNCHANGED <<storageVars, heap>> /\ lastId' = lastId
      /\ docs' = [d \in Docs |-> IF d \in gone THEN 0 ELSE docs[d]]
      /\ Destroyed(gone \ Durable)
      /\ GoOn(t, IdleTask) \/ GoOn(t, r)
  BY DEF EvictRemove, storageVars
<1>4. StorageOK' /\ HistoryOK'
  BY <1>3, StorageStays, DestroyedOK DEF StoreBase
<1>5. docs' \in [Docs -> Gens \cup {0}]
  BY <1>3 DEF StoreBase, MapOK
<1>6. MapOK'
  BY <1>1, <1>3, <1>5, MapStays DEF StoreBase
<1> HIDE DEF r
<1>7. CallsOK'
  BY <1>1, <1>2, <1>3, TaskGoesOn DEF StoreBase, CallNow
<1> QED
  BY <1>4, <1>6, <1>7 DEF StoreBase

LEMMA VisitedNow ==
  ASSUME StoreBase, NEW t \in Tasks, task[t].pc = "e_delete", NEW d
  PROVE  CallNow(Visited(t, d))
<1> DEFINE q == task[t].queue \ {d}
           r == [task[t] EXCEPT !.queue = q]
<1>1. CallNow(task[t]) /\ lastId \in Nat
  BY TaskNow
<1>2. q \in SUBSET Docs
  BY <1>1 DEF CallNow, TaskState
<1> HIDE DEF q
<1>3. r \in TaskState
  BY <1>1, <1>2 DEF CallNow, TaskState
<1>4. /\ r.pc = task[t].pc /\ r.doc = task[t].doc /\ r.upd = task[t].upd
      /\ r.ret = task[t].ret /\ r.ref = task[t].ref
      /\ r.id = task[t].id /\ r.seq = task[t].seq
      /\ r.done = task[t].done /\ r.fail = task[t].fail
  BY <1>1 DEF CallNow, TaskState
<1>5. Visited(t, d) = IdleTask \/ Visited(t, d) = r
  BY DEF Visited, q
<1> HIDE DEF r
<1>6. CallNow(r)
  BY <1>1, <1>3, <1>4 DEF CallNow, CallOK
<1> QED
  BY <1>1, <1>5, <1>6, IdleNow

LEMMA EvictDeleteBase ==
  ASSUME StoreBase, NEW t \in Tasks, EvictDelete(t)
  PROVE  StoreBase'
<1>1. CallNow(task[t]) /\ lastId \in Nat /\ task[t].pc = "e_delete"
  BY TaskNow DEF EvictDelete, At
<1>2. PICK d \in task[t].queue : DeleteDocument(d) /\ GoOn(t, Visited(t, d))
  BY DEF EvictDelete
<1>3. d \in Docs
  BY <1>1 DEF CallNow, TaskState
<1>4. UNCHANGED <<docs, heap, historyVars>>
  BY DEF EvictDelete
<1>5. StorageOK' /\ lastId' = lastId
  BY <1>2, <1>3, DeletedOK DEF StoreBase
<1>6. HistoryOK' /\ MapOK'
  BY <1>1, <1>4, <1>5, HistoryStays, MapStays, Zenon DEF StoreBase, MapOK
<1>7. CallsOK'
  BY <1>1, <1>2, <1>5, VisitedNow, TaskGoesOn DEF StoreBase, CallNow
<1> QED
  BY <1>5, <1>6, <1>7 DEF StoreBase

(***************************************************************************)
(* One step of a call, one failed storage call.                            *)
(***************************************************************************)
LEMMA StoreStepBase ==
  ASSUME StoreBase, NEW t \in Tasks, StoreStep(t)
  PROVE  StoreBase'
<1>0. CallNow(task[t])
  BY TaskNow
<1>1. CASE ConnectGet(t)
  BY <1>1, GetOrCreateBase DEF ConnectGet, At, Gets, HasRef, HasUpd
<1>2. CASE DisconnectGet(t)
  BY <1>2, GetOrCreateBase DEF DisconnectGet, At, Gets, HasRef, HasUpd
<1>3. CASE ReadGet(t)
  BY <1>3, GetOrCreateBase DEF ReadGet, At, Gets, HasRef, HasUpd
<1>4. CASE UpdateGet(t)
  <2>1. task[t].pc = "u_get" /\ task[t].upd \in Updates
    BY <1>0, <1>4, Zenon DEF UpdateGet, At, CallNow, CallOK, HasUpd
  <2> QED
    BY <1>4, <2>1, GetOrCreateBase, Zenon DEF UpdateGet, Gets, HasRef
<1>5. CASE ShareGet(t)
  <2>1. task[t].pc = "s_get" /\ task[t].upd \in Updates
    BY <1>0, <1>5 DEF ShareGet, At, CallNow, CallOK, HasUpd
  <2> QED
    BY <1>5, <2>1, GetOrCreateBase DEF ShareGet, Gets, HasRef
<1>6. CASE CompactGet(t)
  BY <1>6, GetOrCreateBase DEF CompactGet, At, Gets, HasRef, HasUpd
<1>7. CASE UpdateAppend(t) \/ ShareAppend(t)
  BY <1>7, AppendBase DEF UpdateAppend, ShareAppend, At
<1>8. CASE ConnectIncrement(t) \/ DisconnectDecrement(t) \/ ReadEntry(t)
  BY <1>8, ConnectBase, DisconnectBase, ReadBase
<1>9. CASE UpdateApply(t) \/ ShareApply(t) \/ UpdateAck(t)
  BY <1>9, ApplyBase, AckBase
<1>10. CASE CompactCapture(t) \/ CompactWrite(t)
  BY <1>10, CaptureBase, WriteBase
<1>11. CASE DeleteStored(t) \/ ShareDelete(t) \/ ShareRemove(t)
  BY <1>11, DeleteBase, ShareRemoveBase
<1>12. CASE TickCompact(t) \/ TickEvict(t) \/ EvictCompact(t)
  BY <1>12, LoopBase, EvictScanBase, Zenon
<1>13. CASE EvictRemove(t) \/ EvictDelete(t)
  BY <1>13, EvictRemoveBase, EvictDeleteBase
<1> QED
  BY <1>1, <1>2, <1>3, <1>4, <1>5, <1>6, <1>7, <1>8, <1>9, <1>10, <1>11, <1>12, <1>13
     DEF StoreStep

LEMMA StorageErrorBase ==
  ASSUME StoreBase, NEW t \in Tasks, StorageError(t)
  PROVE  StoreBase'
<1>1. CallNow(task[t]) /\ UNCHANGED <<storageVars, docs, heap, historyVars>>
  BY TaskNow, Zenon DEF StorageError
<1>2. task[t].fail \in {"idle", "h_next", "l_one"}
  BY <1>1, Zenon DEF CallNow, CallOK
<1>3. CASE /\ task[t].pc \in {"u_append", "s_append", "d_delete"}
           /\ GoOn(t, Return(t, task[t].fail))
  <2>1. task[t].doc \in Docs
    BY <1>1, <1>3 DEF CallNow, CallOK, HasDoc, Pcs
  <2>2. CallNow(Return(t, task[t].fail))
    BY <1>2, <2>1, ReturnNow DEF Pcs, HasDoc, HasRef, HasUpd
  <2> QED
    BY <1>1, <1>3, <2>2, CallStep, Zenon
<1>4. CASE At(t, "s_delete") /\ Goto(t, "s_remove")
  BY Zenon, <1>1, <1>4, GotoNow, CallStep DEF At, Goto
<1>5. CASE /\ At(t, "c_write")
           /\ GoOn(t, Return(t, IF task[t].ret = "u_ack" THEN task[t].fail ELSE task[t].ret))
  <2> DEFINE pc == IF task[t].ret = "u_ack" THEN task[t].fail ELSE task[t].ret
  <2>1. pc \in {"idle", "h_next", "l_one", "b_next", "e_next"} /\ task[t].doc \in Docs
    BY <1>1, <1>2, <1>5 DEF CallNow, CallOK, HasDoc, Pcs, At
  <2> HIDE DEF pc
  <2>2. CallNow(Return(t, pc))
    BY <2>1, ReturnNow DEF Pcs, HasDoc, HasRef, HasUpd
  <2> QED
    BY <1>1, <1>5, <2>2, CallStep, Zenon DEF pc
<1>6. CASE At(t, "e_delete") /\ \E d \in task[t].queue : GoOn(t, Visited(t, d))
  BY <1>1, <1>6, VisitedNow, CallStep DEF At
<1> QED
  BY <1>3, <1>4, <1>5, <1>6, Zenon DEF StorageError

LEMMA DeleteErrorBase ==
  ASSUME StoreBase, NEW t \in Tasks, DeleteError(t)
  PROVE  StoreBase'
<1>1. CallNow(task[t]) /\ lastId \in Nat /\ UNCHANGED <<docs, heap>>
  BY TaskNow, Zenon DEF DeleteError
<1>2. ASSUME NEW d \in Docs, DeleteInterrupted(d), NEW r, CallNow(r), GoOn(t, r),
             Destroyed({d}) \/ UNCHANGED historyVars
      PROVE  StoreBase'
  <2>1. StorageOK' /\ HistoryOK' /\ lastId' = lastId
    BY <1>2, DeletedOK, DestroyedOK, HistoryStays DEF StoreBase
  <2>2. MapOK'
    BY <1>1, <2>1, MapStays DEF StoreBase, MapOK
  <2>3. CallsOK'
    BY <1>1, <1>2, <2>1, TaskGoesOn DEF StoreBase, CallNow
  <2> QED
    BY <2>1, <2>2, <2>3 DEF StoreBase
<1>3. CASE At(t, "d_delete")
  <2>1. task[t].doc \in Docs /\ task[t].fail \in {"idle", "h_next", "l_one"}
    BY <1>1, <1>3, Zenon DEF CallNow, CallOK, HasDoc, Pcs, At
  <2>2. CallNow(Return(t, task[t].fail))
    BY <2>1, ReturnNow DEF Pcs, HasDoc, HasRef, HasUpd
  <2>3. /\ DeleteInterrupted(task[t].doc) /\ Destroyed({task[t].doc})
        /\ GoOn(t, Return(t, task[t].fail))
    BY <1>3, Zenon DEF DeleteError, At
  <2> QED
    BY <1>2, <2>1, <2>2, <2>3, Zenon
<1>4. CASE At(t, "s_delete")
  <2>1. task[t].doc \in Docs
    BY <1>1, <1>4, Zenon DEF CallNow, CallOK, HasDoc, Pcs, At
  <2>2. CallNow([task[t] EXCEPT !.pc = "s_remove", !.ref = 0])
    BY <1>4, GotoNow, Zenon DEF At
  <2>3. /\ DeleteInterrupted(task[t].doc) /\ Destroyed({task[t].doc})
        /\ GoOn(t, [task[t] EXCEPT !.pc = "s_remove", !.ref = 0])
    BY <1>4, Zenon DEF DeleteError, At, Goto
  <2> QED
    BY <1>2, <2>1, <2>2, <2>3, Zenon
<1>5. CASE At(t, "e_delete")
  <2>1. PICK d \in task[t].queue : DeleteInterrupted(d) /\ GoOn(t, Visited(t, d))
    BY <1>5, Zenon DEF DeleteError, At
  <2>2. d \in Docs /\ CallNow(Visited(t, d)) /\ UNCHANGED historyVars
    BY <1>1, <1>5, VisitedNow, Zenon DEF DeleteError, At, CallNow, TaskState
  <2> QED
    BY <1>2, <2>1, <2>2, Zenon
<1> QED
  BY <1>3, <1>4, <1>5, Zenon DEF DeleteError

LEMMA LoadErrorBase ==
  ASSUME StoreBase, NEW t \in Tasks, LoadError(t)
  PROVE  StoreBase'
<1>1. task[t].pc \in Gets /\ lastId \in Nat /\ lastId' = lastId
  BY TaskNow DEF LoadError, Gets, storageVars
<1>2. CallsOK'
  BY <1>1, LookupFailedOK, TaskGoesOn DEF StoreBase, LoadError
<1>3. MapOK'
  BY <1>1, MakeRoomShrinks, MapStays DEF StoreBase, LoadError
<1> QED
  BY <1>2, <1>3, StorageStays, HistoryStays DEF StoreBase, LoadError

--------------------------------------------------------------------------------
(***************************************************************************)
(* The handlers.                                                           *)
(***************************************************************************)

\* The calls a request can start with.
LEMMA CallNowOK ==
  ASSUME lastId \in Nat, NEW d \in Docs, NEW u \in Updates \cup {None},
         NEW pc \in {"u_append", "s_delete", "r_get", "d_delete"},
         pc \in {"u_append", "s_delete"} => u \in Updates
  PROVE  CallNow([IdleTask EXCEPT !.pc = pc, !.doc = d, !.upd = u])
<1> DEFINE r == [IdleTask EXCEPT !.pc = pc, !.doc = d, !.upd = u]
<1>1. r \in TaskState
  <2>1. pc \in Pcs
    BY DEF Pcs
  <2> QED
    BY Zenon, <2>1, IdleFields DEF TaskState
<1>2. /\ r.pc = pc /\ r.doc = d /\ r.upd = u /\ r.id = 0 /\ r.seq = 0
      /\ r.done = "idle" /\ r.fail = "idle"
  BY IdleFields DEF TaskState
<1> HIDE DEF r
<1>3. CallNow(r)
  BY <1>1, <1>2 DEF CallNow, CallOK, HasRef, HasUpd
<1> QED
  BY <1>3 DEF r

LEMMA TrackedCallNow ==
  ASSUME lastId \in Nat, NEW d \in Docs, NEW u \in Updates \cup {None},
         NEW ret \in {"u_append", "s_delete", "r_get", "idle"}, NEW pc \in {"k_get", ret},
         ret \in {"u_append", "s_delete"} => u \in Updates
  PROVE  CallNow([IdleTask EXCEPT !.pc = pc, !.ret = ret, !.doc = d, !.upd = u])
<1> DEFINE r == [IdleTask EXCEPT !.pc = pc, !.ret = ret, !.doc = d, !.upd = u]
<1>1. r \in TaskState
  <2>1. pc \in Pcs /\ ret \in Pcs
    BY DEF Pcs
  <2> QED
    BY Zenon, <2>1, IdleFields DEF TaskState
<1>2. /\ r.pc = pc /\ r.ret = ret /\ r.doc = d /\ r.upd = u /\ r.id = 0 /\ r.seq = 0
      /\ r.done = "idle" /\ r.fail = "idle"
  BY IdleFields DEF TaskState
<1> HIDE DEF r
<1>3. CallNow(r)
  BY <1>1, <1>2 DEF CallNow, CallOK, HasRef, HasUpd
<1> QED
  BY <1>3 DEF r

LEMMA KbShareNow ==
  ASSUME lastId \in Nat, NEW d \in Docs, NEW u \in Updates, NEW q \in SUBSET Docs
  PROVE  CallNow([IdleTask EXCEPT !.pc = "h_has", !.doc = d, !.upd = u, !.done = "h_touch",
                                   !.queue = q, !.cand = {d}])
<1> DEFINE r == [IdleTask EXCEPT !.pc = "h_has", !.doc = d, !.upd = u, !.done = "h_touch",
                                   !.queue = q, !.cand = {d}]
<1>1. r \in TaskState
  <2>1. "h_has" \in Pcs /\ "h_touch" \in Pcs
    BY DEF Pcs
  <2> QED
    BY Zenon, <2>1, IdleFields DEF TaskState
<1>2. /\ r.pc = "h_has" /\ r.doc = d /\ r.upd = u /\ r.id = 0 /\ r.seq = 0
      /\ r.done = "h_touch" /\ r.fail = "idle"
  BY IdleFields DEF TaskState
<1> HIDE DEF r
<1>3. CallNow(r)
  BY <1>1, <1>2 DEF CallNow, CallOK, HasRef, HasUpd
<1> QED
  BY <1>3 DEF r

LEMMA KbJoinNow ==
  ASSUME lastId \in Nat, NEW d \in Docs, NEW q \in SUBSET Docs
  PROVE  CallNow([IdleTask EXCEPT !.pc = "r_get", !.doc = d, !.done = "h_touch", !.queue = q])
<1> DEFINE r == [IdleTask EXCEPT !.pc = "r_get", !.doc = d, !.done = "h_touch", !.queue = q]
<1>1. r \in TaskState
  <2>1. "r_get" \in Pcs /\ "h_touch" \in Pcs
    BY DEF Pcs
  <2> QED
    BY Zenon, <2>1, IdleFields DEF TaskState
<1>2. /\ r.pc = "r_get" /\ r.doc = d /\ r.id = 0 /\ r.seq = 0
      /\ r.done = "h_touch" /\ r.fail = "idle"
  BY IdleFields DEF TaskState
<1> HIDE DEF r
<1>3. CallNow(r)
  BY <1>1, <1>2 DEF CallNow, CallOK, HasRef, HasUpd
<1> QED
  BY <1>3 DEF r

LEMMA KbLeaveNow ==
  ASSUME lastId \in Nat, NEW d \in Docs, NEW q \in SUBSET Docs
  PROVE  CallNow([IdleTask EXCEPT !.pc = "r_get", !.doc = d, !.done = "l_all",
                                   !.fail = "l_one", !.queue = q])
<1> DEFINE r == [IdleTask EXCEPT !.pc = "r_get", !.doc = d, !.done = "l_all",
                                   !.fail = "l_one", !.queue = q]
<1>1. r \in TaskState
  <2>1. "r_get" \in Pcs /\ "l_all" \in Pcs /\ "l_one" \in Pcs
    BY DEF Pcs
  <2> QED
    BY Zenon, <2>1, IdleFields DEF TaskState
<1>2. /\ r.pc = "r_get" /\ r.doc = d /\ r.id = 0 /\ r.seq = 0
      /\ r.done = "l_all" /\ r.fail = "l_one"
  BY IdleFields DEF TaskState
<1> HIDE DEF r
<1>3. CallNow(r)
  BY <1>1, <1>2 DEF CallNow, CallOK, HasRef, HasUpd
<1> QED
  BY <1>3 DEF r

LEMMA FetchNow ==
  ASSUME lastId \in Nat, NEW d \in Docs
  PROVE  CallNow([IdleTask EXCEPT !.pc = "r_make", !.doc = d, !.done = "f_touch"])
<1> DEFINE r == [IdleTask EXCEPT !.pc = "r_make", !.doc = d, !.done = "f_touch"]
<1>1. r \in TaskState
  <2>1. "r_make" \in Pcs /\ "f_touch" \in Pcs
    BY DEF Pcs
  <2> QED
    BY Zenon, <2>1, IdleFields DEF TaskState
<1>2. /\ r.pc = "r_make" /\ r.doc = d /\ r.id = 0 /\ r.seq = 0
      /\ r.done = "f_touch" /\ r.fail = "idle"
  BY IdleFields DEF TaskState
<1> HIDE DEF r
<1>3. CallNow(r)
  BY <1>1, <1>2 DEF CallNow, CallOK, HasRef, HasUpd
<1> QED
  BY <1>3 DEF r

\* session_docs stays a set of documents when one is added or some are removed.
LEMMA TouchOK ==
  ASSUME SessionsOK, NEW s \in Sessions, NEW D \in SUBSET Docs,
         \/ sessDocs' = [sessDocs EXCEPT ![s] = D]
         \/ sessDocs' = sessDocs,
         sent' \in Nat, crashes' \in Nat
  PROVE  SessionsOK'
BY DEF SessionsOK

LEMMA RequestBase ==
  ASSUME Base, NEW s \in Sessions, Request(s)
  PROVE  Base'
<1>1. s \in Tasks /\ lastId \in Nat /\ CallNow(task[s]) /\ StoreBase /\ SessionsOK
  BY DaemonAssumption, TaskNow DEF Base
<1>2. sessDocs \in [Sessions -> SUBSET Docs] /\ sent \in Nat /\ crashes \in Nat
  BY <1>1 DEF SessionsOK
<1>3. ASSUME NEW d \in Docs, NEW u \in Updates, NEW ret \in {"u_append", "s_delete"},
             TrackedCall(s, d, u, ret), Touch(s, d), Sending,
             UNCHANGED <<storageVars, docs, heap, historyVars, crashes>>
      PROVE  Base'
  <2> DEFINE pc == IF d \in sessDocs[s] THEN ret ELSE "k_get"
             r == [IdleTask EXCEPT !.pc = pc, !.ret = ret, !.doc = d, !.upd = u]
  <2>1. CallNow(r)
    <3>1. pc \in {"k_get", ret}
      OBVIOUS
    <3> HIDE DEF pc
    <3> QED
      BY Zenon, <1>1, <3>1, TrackedCallNow
  <2>2. GoOn(s, r) /\ UNCHANGED <<storageVars, docs, heap, historyVars, crashes>>
        /\ sent' = sent + 1
        /\ sessDocs' = [sessDocs EXCEPT ![s] = sessDocs[s] \cup {d}]
    BY <1>3 DEF TrackedCall, Touch, Sending
  <2> HIDE DEF r
  <2>3. StoreBase'
    BY <1>1, <2>1, <2>2, CallStep
  <2>4. SessionsOK'
    <3>1. sessDocs[s] \cup {d} \in SUBSET Docs
      BY <1>2
    <3>2. sent' \in Nat /\ crashes' \in Nat
      BY <1>2, <2>2
    <3> QED
      BY Zenon, <1>1, <2>2, <3>1, <3>2, TouchOK
  <2> QED
    BY <2>3, <2>4 DEF Base
<1>4. ASSUME NEW d \in Docs, NEW u \in Updates, RequestRelay(s, d, u) \/ RequestShare(s, d, u)
      PROVE  Base'
  <2>1. PICK pc \in {"u_append", "s_delete"} :
          GoOn(s, [IdleTask EXCEPT !.pc = pc, !.doc = d, !.upd = u])
    BY <1>4 DEF RequestRelay, RequestShare, Call
  <2>2. CallNow([IdleTask EXCEPT !.pc = pc, !.doc = d, !.upd = u])
    BY Zenon, <1>1, CallNowOK
  <2>3. /\ UNCHANGED <<storageVars, docs, heap, historyVars, crashes>> /\ sent' = sent + 1
        /\ \/ sessDocs' = [sessDocs EXCEPT ![s] = sessDocs[s] \cup {d}]
           \/ sessDocs' = sessDocs
    BY <1>4 DEF RequestRelay, RequestShare, Touch, Sending
  <2>4. StoreBase'
    BY <1>1, <2>1, <2>2, <2>3, CallStep
  <2>5. SessionsOK'
    <3>1. sessDocs[s] \cup {d} \in SUBSET Docs
      BY <1>2
    <3>2. sent' \in Nat /\ crashes' \in Nat
      BY <1>2, <2>3
    <3> QED
      BY <1>1, <2>3, <3>1, <3>2, TouchOK
  <2> QED
    BY <2>4, <2>5 DEF Base
<1>5. ASSUME NEW d \in Docs, RequestState(s, d) \/ RequestRefused(s, d)
      PROVE  Base'
  <2>1. PICK ret \in {"r_get", "idle"} : TrackedCall(s, d, None, ret)
    BY <1>5, Zenon DEF RequestState, RequestRefused
  <2> DEFINE pc == IF d \in sessDocs[s] THEN ret ELSE "k_get"
             r == [IdleTask EXCEPT !.pc = pc, !.ret = ret, !.doc = d, !.upd = None]
  <2>2. CallNow(r)
    <3>1. pc \in {"k_get", ret}
      OBVIOUS
    <3> HIDE DEF pc
    <3> QED
      BY Zenon, <1>1, <3>1, TrackedCallNow
  <2>3. GoOn(s, r) /\ UNCHANGED <<storageVars, docs, heap, historyVars, crashes>>
        /\ sent' = sent + 1
        /\ sessDocs' = [sessDocs EXCEPT ![s] = sessDocs[s] \cup {d}]
    BY <1>5, <2>1 DEF RequestState, RequestRefused, TrackedCall, Touch, Sending
  <2> HIDE DEF r
  <2>4. StoreBase'
    BY <1>1, <2>2, <2>3, CallStep
  <2>5. SessionsOK'
    <3>1. sessDocs[s] \cup {d} \in SUBSET Docs
      BY <1>2
    <3>2. sent' \in Nat /\ crashes' \in Nat
      BY <1>2, <2>3
    <3> QED
      BY Zenon, <1>1, <2>3, <3>1, <3>2, TouchOK
  <2> QED
    BY <2>4, <2>5 DEF Base
<1>6. ASSUME NEW d \in Docs, RequestRead(s, d)
      PROVE  Base'
  <2>1. CallNow([IdleTask EXCEPT !.pc = "r_get", !.doc = d, !.upd = None])
    BY Zenon, <1>1, CallNowOK
  <2>2. /\ GoOn(s, [IdleTask EXCEPT !.pc = "r_get", !.doc = d, !.upd = None])
        /\ UNCHANGED <<storageVars, docs, heap, historyVars, sessDocs, sent, crashes>>
    BY <1>6 DEF RequestRead, Call
  <2>3. StoreBase'
    BY <1>1, <2>1, <2>2, CallStep
  <2> QED
    BY <1>1, <2>2, <2>3 DEF Base, SessionsOK
<1>7. ASSUME NEW d \in Docs, RequestDelete(s, d)
      PROVE  Base'
  <2> DEFINE r == [IdleTask EXCEPT !.pc = "d_delete", !.doc = d, !.upd = None]
  <2>1. CallNow(r)
    BY Zenon, <1>1, CallNowOK
  <2>2. /\ GoOn(s, r) /\ lastId' = lastId
        /\ docs' = [docs EXCEPT ![d] = 0]
        /\ sent' = sent + 1
        /\ UNCHANGED <<storageVars, heap, historyVars, sessDocs, crashes>>
    BY <1>7, Zenon DEF RequestDelete, Call, Sending, storageVars
  <2> HIDE DEF r
  <2>3. CallsOK'
    BY <1>1, <2>1, <2>2, TaskGoesOn DEF StoreBase, CallNow
  <2>4. docs' \in [Docs -> Gens \cup {0}]
    BY <1>1, <2>2 DEF StoreBase, MapOK
  <2>5. MapOK'
    BY <1>1, <2>2, <2>4, MapStays DEF StoreBase
  <2>6. StoreBase'
    BY <1>1, <2>2, <2>3, <2>5, StorageStays, HistoryStays DEF StoreBase
  <2> QED
    BY <1>1, <2>2, <2>6 DEF Base, SessionsOK
<1>8. ASSUME NEW D \in SUBSET Docs, sessDocs' = [sessDocs EXCEPT ![s] = D],
             sent' \in Nat, UNCHANGED <<storageVars, storeVars, crashes>>
      PROVE  Base'
  <2>1. SessionsOK'
    BY Zenon, <1>1, <1>2, <1>8, TouchOK
  <2>2. UNCHANGED <<snap, wal, lastId, docs, heap, task, log, acked, wrote>>
    BY <1>8, Zenon DEF storageVars, storeVars
  <2>3. StoreBase'
    BY <1>1, <2>2 DEF StoreBase, StorageOK, StorageTypeOK, MapOK, CallsOK, HistoryOK
  <2> QED
    BY <2>1, <2>3 DEF Base
<1>9. CASE \E d \in Docs : RequestAwareness(s, d)
  <2>1. PICK d \in Docs : RequestAwareness(s, d)
    BY <1>9
  <2>2. sessDocs[s] \cup {d} \in SUBSET Docs /\ sent' \in Nat
    BY <1>2, <2>1 DEF RequestAwareness, Sending
  <2> QED
    BY Zenon, <1>8, <2>1, <2>2 DEF RequestAwareness, Touch
<1>10. CASE \E c \in Collections : RequestUnregister(s, c)
  <2>1. PICK c \in Collections : RequestUnregister(s, c)
    BY <1>10
  <2>2. sessDocs[s] \ {c} \in SUBSET Docs /\ sent' \in Nat
    BY <1>2, <2>1 DEF RequestUnregister
  <2> QED
    BY Zenon, <1>8, <2>1, <2>2 DEF RequestUnregister
<1>11. ASSUME NEW r, CallNow(r), GoOn(s, r), sent' \in {sent, sent + 1},
              UNCHANGED <<storageVars, docs, heap, historyVars, sessDocs, crashes>>
       PROVE  Base'
  <2>1. StoreBase'
    BY <1>1, <1>11, CallStep
  <2> QED
    BY <1>1, <1>2, <1>11, <2>1 DEF Base, SessionsOK
<1>12. ASSUME NEW c \in Collections, NEW nodes \in SUBSET (Durable \ Collections),
              NEW u \in Updates, RequestKbShare(s, c, nodes, u)
       PROVE  Base'
  <2>1. c \in Docs /\ nodes \in SUBSET Docs
    BY DaemonAssumption, DocStoreAssumption
  <2>2. CallNow([IdleTask EXCEPT !.pc = "h_has", !.doc = c, !.upd = u, !.done = "h_touch",
                                 !.queue = nodes, !.cand = {c}])
    BY Zenon, <1>1, <2>1, KbShareNow
  <2> QED
    BY <1>11, <1>12, <2>2 DEF RequestKbShare, Sending
<1>13. ASSUME NEW c \in Collections, NEW nodes \in SUBSET (Durable \ Collections),
              RequestKbJoin(s, c, nodes) \/ RequestKbLeave(s, c, nodes)
       PROVE  Base'
  <2>1. c \in Docs /\ nodes \in SUBSET Docs
    BY DaemonAssumption, DocStoreAssumption
  <2>2. CallNow([IdleTask EXCEPT !.pc = "r_get", !.doc = c, !.done = "h_touch",
                                 !.queue = nodes])
    BY Zenon, <1>1, <2>1, KbJoinNow
  <2>3. CallNow([IdleTask EXCEPT !.pc = "r_get", !.doc = c, !.done = "l_all",
                                 !.fail = "l_one", !.queue = nodes])
    BY Zenon, <1>1, <2>1, KbLeaveNow
  <2> QED
    BY <1>11, <1>13, <2>2, <2>3 DEF RequestKbJoin, RequestKbLeave, Sending
<1>14. ASSUME NEW d \in Durable \ Collections, RequestFetch(s, d)
       PROVE  Base'
  <2>1. d \in Docs
    BY DocStoreAssumption
  <2>2. CallNow([IdleTask EXCEPT !.pc = "r_make", !.doc = d, !.done = "f_touch"])
    BY Zenon, <1>1, <2>1, FetchNow
  <2> QED
    BY <1>11, <1>14, <2>2 DEF RequestFetch, Sending
<1>15. CASE Leave(s)
  <2>1. sessDocs[s] \in SUBSET Docs
    BY <1>2
  <2>2. CallNow([IdleTask EXCEPT !.pc = "x_next", !.queue = sessDocs[s]])
    BY Zenon, <1>1, <2>1, QueueNow
  <2> QED
    BY <1>11, <1>15, <2>2 DEF Leave
<1>16. ASSUME NEW d \in Docs, NEW u \in Updates, RequestUpdate(s, d, u)
       PROVE  Base'
  BY <1>3, <1>16 DEF RequestUpdate
<1>17. ASSUME NEW d \in Durable \ Collections, NEW u \in Updates, RequestNodeUpdate(s, d, u)
       PROVE  Base'
  <2>1. d \in Docs
    BY DocStoreAssumption
  <2> QED
    BY <1>3, <1>17, <2>1 DEF RequestNodeUpdate
<1> QED
  BY <1>4, <1>5, <1>6, <1>7, <1>9, <1>10, <1>12, <1>13, <1>14, <1>15, <1>16, <1>17 DEF Request

\* The steps a handler takes outside the store.
LEMMA SessionStepBase ==
  ASSUME Base, NEW s \in Sessions, SessionStep(s)
  PROVE  Base'
<1>1. s \in Tasks /\ lastId \in Nat /\ CallNow(task[s]) /\ StoreBase /\ SessionsOK
  BY DaemonAssumption, TaskNow DEF Base
<1>2. sessDocs \in [Sessions -> SUBSET Docs] /\ sent \in Nat /\ crashes \in Nat
  BY <1>1 DEF SessionsOK
<1>3. CallNow(IdleTask) /\ task[s] \in TaskState
  BY <1>1, IdleNow DEF CallNow
<1>4. ASSUME NEW r, CallNow(r), GoOn(s, r), NEW D \in SUBSET Docs,
             sessDocs' = [sessDocs EXCEPT ![s] = D] \/ sessDocs' = sessDocs,
             UNCHANGED <<storageVars, docs, heap, historyVars, sent, crashes>>
      PROVE  Base'
  <2>1. StoreBase'
    BY <1>1, <1>4, CallStep
  <2>2. SessionsOK'
    BY <1>1, <1>2, <1>4, TouchOK
  <2> QED
    BY <2>1, <2>2 DEF Base
<1>5. CASE LeaveNext(s)
  <2>1. PICK d \in task[s].queue :
          GoOn(s, [task[s] EXCEPT !.pc = "x_get", !.doc = d, !.queue = @ \ {d}])
    BY Zenon, <1>5 DEF LeaveNext
  <2> DEFINE q == task[s].queue \ {d}
             r == [task[s] EXCEPT !.pc = "x_get", !.doc = d, !.queue = q]
  <2>2. d \in Docs /\ q \in SUBSET Docs /\ "x_get" \in Pcs
    BY <1>3 DEF TaskState, Pcs
  <2> HIDE DEF q
  <2>3. r \in TaskState
    BY Zenon, <1>3, <2>2 DEF TaskState
  <2>4. /\ r.pc = "x_get" /\ r.doc = d /\ r.id = task[s].id /\ r.seq = task[s].seq
        /\ r.done = task[s].done /\ r.fail = task[s].fail
    BY <1>3 DEF TaskState
  <2>5. GoOn(s, r)
    BY <2>1, Zenon DEF q
  <2> HIDE DEF r
  <2>6. CallNow(r)
    BY <1>1, <2>2, <2>3, <2>4 DEF CallNow, CallOK, HasRef, HasUpd
  <2> QED
    BY <1>4, <1>5, <2>5, <2>6 DEF LeaveNext
<1>6. CASE Left(s)
  BY Zenon, <1>3, <1>4, <1>6 DEF Left
<1>7. CASE KbShareHas(s) \/ KbShareOwned(s)
  <2>1. task[s].doc \in Docs /\ (At(s, "h_has") => task[s].upd \in Updates)
    BY <1>1, <1>7 DEF KbShareHas, KbShareOwned, At, CallNow, CallOK, HasDoc, HasUpd, Pcs
  <2>2. ASSUME NEW pc \in {"s_delete", "h_touch", "u_append", "r_get"},
               NEW done \in {task[s].done, "h_own"},
               pc \in HasUpd => At(s, "h_has")
        PROVE  CallNow([task[s] EXCEPT !.pc = pc, !.done = done])
    <3> DEFINE r == [task[s] EXCEPT !.pc = pc, !.done = done]
    <3>1. pc \in Pcs /\ done \in Pcs
      BY <1>3 DEF TaskState, Pcs
    <3>2. r \in TaskState
      BY <1>3, <3>1, Zenon DEF TaskState
    <3>3. /\ r.pc = pc /\ r.doc = task[s].doc /\ r.upd = task[s].upd
          /\ r.id = task[s].id /\ r.seq = task[s].seq
          /\ r.done = done /\ r.fail = task[s].fail
      BY <1>3, Zenon DEF TaskState
    <3> HIDE DEF r
    <3>4. CallNow(r)
      BY <1>1, <2>1, <2>2, <3>2, <3>3 DEF CallNow, CallOK, HasRef
    <3> QED
      BY <3>4 DEF r
  <2>3. ASSUME NEW pc PROVE [task[s] EXCEPT !.pc = pc]
                              = [task[s] EXCEPT !.pc = pc, !.done = task[s].done]
    BY <1>3 DEF TaskState
  <2>4. CASE KbShareOwned(s)
    <3>1. CallNow([task[s] EXCEPT !.pc = "h_touch"])
      BY <2>2, <2>3 DEF HasUpd
    <3> QED
      BY <1>3, <1>4, <2>4, <3>1, Zenon DEF KbShareOwned
  <2>5. CASE KbShareHas(s)
    <3>1. At(s, "h_has")
      BY <2>5 DEF KbShareHas
    <3>2. /\ CallNow([task[s] EXCEPT !.pc = "s_delete"])
          /\ CallNow([task[s] EXCEPT !.pc = "u_append"])
          /\ CallNow([task[s] EXCEPT !.pc = "h_touch"])
      BY <2>2, <2>3, <3>1
    <3>3. CallNow([task[s] EXCEPT !.pc = "r_get", !.done = "h_own"])
      BY <2>2, <3>1
    <3> QED
      BY <1>4, <2>5, <3>2, <3>3, Zenon DEF KbShareHas
  <2> QED
    BY <1>7, <2>4, <2>5
<1>8. ASSUME NEW ret \in {"h_policy", "h_next", "idle"}, task[s].doc \in Docs
      PROVE  CallNow([task[s] EXCEPT !.pc = "k_get", !.ret = ret])
  <2> DEFINE r == [task[s] EXCEPT !.pc = "k_get", !.ret = ret]
  <2>1. "k_get" \in Pcs /\ ret \in Pcs
    BY DEF Pcs
  <2>2. r \in TaskState
    BY Zenon, <1>3, <2>1 DEF TaskState
  <2>3. /\ r.pc = "k_get" /\ r.ret = ret /\ r.doc = task[s].doc
        /\ r.id = task[s].id /\ r.seq = task[s].seq
        /\ r.done = task[s].done /\ r.fail = task[s].fail
    BY <1>3, Zenon DEF TaskState
  <2> HIDE DEF r
  <2>4. CallNow(r)
    BY <1>1, <1>8, <2>2, <2>3 DEF CallNow, CallOK, HasRef, HasUpd
  <2> QED
    BY <2>4 DEF r
<1>9. CASE KbTouch(s) \/ FetchTouch(s)
  <2>1. task[s].doc \in Docs
    BY <1>1, <1>9 DEF KbTouch, FetchTouch, At, CallNow, CallOK, HasDoc, Pcs
  <2>2. sessDocs[s] \cup {task[s].doc} \in SUBSET Docs
    BY <1>2, <2>1, Zenon
  <2> DEFINE ret == IF task[s].doc \in task[s].cand THEN "h_policy" ELSE "h_next"
  <2>6. ret \in {"h_policy", "h_next", "idle"}
    OBVIOUS
  <2> HIDE DEF ret
  <2>3. CallNow([task[s] EXCEPT !.pc = "k_get", !.ret = ret])
    BY Zenon, <1>8, <2>1, <2>6
  <2>4. CallNow([task[s] EXCEPT !.pc = "k_get", !.ret = "idle"])
    BY <1>8, <2>1
  <2>5. /\ UNCHANGED <<storageVars, docs, heap, historyVars, sent, crashes>>
        /\ sessDocs' = [sessDocs EXCEPT ![s] = sessDocs[s] \cup {task[s].doc}]
        /\ \/ GoOn(s, IdleTask)
           \/ GoOn(s, [task[s] EXCEPT !.pc = "k_get", !.ret = ret])
           \/ GoOn(s, [task[s] EXCEPT !.pc = "k_get", !.ret = "idle"])
    BY <1>9 DEF KbTouch, FetchTouch, Touch, ret
  <2> QED
    BY Zenon, <1>3, <1>4, <2>2, <2>3, <2>4, <2>5
<1>10. CASE KbNext(s)
  <2>1. CASE GoOn(s, IdleTask)
    BY Zenon, <1>3, <1>4, <1>10, <2>1 DEF KbNext
  <2>2. ASSUME NEW d \in task[s].queue,
               GoOn(s, [task[s] EXCEPT
                          !.pc = IF task[s].upd = None THEN "r_get" ELSE "h_has",
                          !.doc = d, !.done = "h_touch", !.fail = "h_next",
                          !.queue = @ \ {d}])
        PROVE  Base'
    <3> DEFINE q == task[s].queue \ {d}
               pc == IF task[s].upd = None THEN "r_get" ELSE "h_has"
               r == [task[s] EXCEPT !.pc = pc, !.doc = d, !.done = "h_touch",
                                    !.fail = "h_next", !.queue = q]
    <3>1. /\ d \in Docs /\ q \in SUBSET Docs
          /\ pc \in Pcs /\ "h_next" \in Pcs /\ "h_touch" \in Pcs
      BY <1>3, Zenon DEF TaskState, Pcs
    <3>2. pc = "r_get" \/ (pc = "h_has" /\ task[s].upd \in Updates)
      BY <1>3 DEF TaskState
    <3>3. GoOn(s, r)
      BY <2>2
    <3> HIDE DEF q, pc
    <3>4. r \in TaskState
      BY Zenon, <1>3, <3>1 DEF TaskState
    <3>5. /\ r.pc = pc /\ r.doc = d /\ r.upd = task[s].upd
          /\ r.id = task[s].id /\ r.seq = task[s].seq
          /\ r.done = "h_touch" /\ r.fail = "h_next"
      BY <1>3, Zenon DEF TaskState
    <3> HIDE DEF r
    <3>6. CallNow(r)
      BY <1>1, <3>1, <3>2, <3>4, <3>5 DEF CallNow, CallOK, HasRef, HasUpd
    <3> QED
      BY Zenon, <1>4, <1>10, <3>3, <3>6 DEF KbNext
  <2>3. ASSUME NEW c \in task[s].cand, Call(s, c, None, "r_get")
        PROVE  Base'
    <3>1. c \in Docs
      BY <1>3 DEF TaskState
    <3>2. CallNow([IdleTask EXCEPT !.pc = "r_get", !.doc = c, !.upd = None])
      BY Zenon, <1>1, <3>1, CallNowOK
    <3> QED
      BY Zenon, <1>4, <1>10, <2>3, <3>2 DEF KbNext, Call
  <2> QED
    BY Zenon, <1>10, <2>1, <2>2, <2>3 DEF KbNext
<1>11. CASE KbLeft(s)
  <2> DEFINE D == sessDocs[s] \ ({task[s].doc} \cup IF At(s, "l_all") THEN task[s].queue ELSE {})
  <2>1. D \in SUBSET Docs
    BY <1>2, Zenon
  <2>2. GoOn(s, IdleTask) /\ sessDocs' = [sessDocs EXCEPT ![s] = D]
        /\ UNCHANGED <<storageVars, docs, heap, historyVars, sent, crashes>>
    BY <1>11 DEF KbLeft
  <2> HIDE DEF D
  <2> QED
    BY Zenon, <1>3, <1>4, <2>1, <2>2
<1>12. CASE KbPolicy(s)
  <2>1. task[s].doc \in Docs
    BY Zenon, <1>1, <1>12 DEF KbPolicy, At, CallNow, CallOK, HasDoc, Pcs
  <2>2. ASSUME NEW u \in Updates \cup {None}, NEW pc \in {"r_get", "u_append", "h_next"},
               NEW done \in {"h_widen", "h_next"},
               NEW fail \in {"h_next", task[s].fail},
               pc = "u_append" => u \in Updates,
               GoOn(s, [task[s] EXCEPT !.pc = pc, !.upd = u, !.done = done, !.fail = fail])
        PROVE  Base'
    <3> DEFINE r == [task[s] EXCEPT !.pc = pc, !.upd = u, !.done = done, !.fail = fail]
    <3>1. pc \in Pcs /\ done \in Pcs /\ fail \in Pcs
      BY <1>3 DEF Pcs, TaskState
    <3>2. r \in TaskState
      BY Zenon, <1>3, <3>1 DEF TaskState
    <3>3. /\ r.pc = pc /\ r.doc = task[s].doc /\ r.upd = u
          /\ r.id = task[s].id /\ r.seq = task[s].seq
          /\ r.done = done /\ r.fail = fail
      BY <1>3 DEF TaskState
    <3>4. GoOn(s, r)
      BY <2>2
    <3> HIDE DEF r
    <3>5. CallNow(r)
      BY <1>1, <2>1, <2>2, <3>2, <3>3, Zenon DEF CallNow, CallOK, HasRef, HasUpd
    <3> QED
      BY Zenon, <1>4, <1>12, <3>4, <3>5 DEF KbPolicy
  <2>3. task[s].upd \in Updates \cup {None}
    BY <1>3 DEF TaskState
  <2>4. CASE GoOn(s, [task[s] EXCEPT !.pc = "h_next"])
    <3> DEFINE r == [task[s] EXCEPT !.pc = "h_next"]
    <3>1. "h_next" \in Pcs
      BY DEF Pcs
    <3>2. r \in TaskState
      BY <1>3, <3>1 DEF TaskState
    <3>3. /\ r.pc = "h_next" /\ r.id = task[s].id /\ r.seq = task[s].seq
          /\ r.done = task[s].done /\ r.fail = task[s].fail
      BY <1>3, Zenon DEF TaskState
    <3> HIDE DEF r
    <3>4. CallNow(r)
      BY <1>1, <3>2, <3>3 DEF CallNow, CallOK, HasDoc, HasRef, HasUpd
    <3> QED
      BY Zenon, <1>4, <1>12, <2>4, <3>4 DEF KbPolicy, r
  <2>5. CASE GoOn(s, [task[s] EXCEPT !.pc = "r_get", !.done = "h_widen", !.fail = "h_next"])
    <3>1. GoOn(s, [task[s] EXCEPT !.pc = "r_get", !.upd = task[s].upd,
                                  !.done = "h_widen", !.fail = "h_next"])
      BY Zenon, <1>3, <2>5 DEF GoOn, TaskState
    <3> QED
      BY Zenon, <2>2, <2>3, <3>1
  <2>6. ASSUME NEW u \in Updates,
               GoOn(s, [task[s] EXCEPT !.pc = "u_append", !.upd = u,
                                       !.done = "h_next", !.fail = "h_next"])
        PROVE  Base'
    BY Zenon, <2>2, <2>6
  <2> QED
    BY Zenon, <1>12, <2>4, <2>5, <2>6 DEF KbPolicy
<1> QED
  BY <1>5, <1>6, <1>7, <1>9, <1>10, <1>11, <1>12, Zenon DEF SessionStep

LEMMA TickBase == Base /\ Tick => Base'
<1> SUFFICES ASSUME Base, Tick
             PROVE  Base'
  BY Zenon
<1>1. Background \in Tasks /\ StoreBase /\ lastId \in Nat /\ Loaded \in SUBSET Docs
  BY DaemonAssumption, TaskNow DEF Base, Loaded
<1>2. CallNow([IdleTask EXCEPT !.pc = "b_next", !.queue = Loaded])
  BY Zenon, <1>1, QueueNow
<1>3. StoreBase'
  BY <1>1, <1>2, CallStep, Zenon DEF Tick
<1> QED
  BY <1>3 DEF Base, SessionsOK, Tick

LEMMA GoIdleBase ==
  ASSUME Base, NEW d \in Docs, GoIdle(d)
  PROVE  Base'
<1> DEFINE e == [heap[d][docs[d]] EXCEPT !.idle = TRUE]
<1>1. docs[d] \in Gens /\ MapOK /\ heap[d][docs[d]] \in Entry
  BY DEF GoIdle, Loaded, Base, StoreBase, MapOK
<1>2. e \in Entry
  BY Zenon, <1>1, EntryFields
<1>3. e.walSeq = heap[d][docs[d]].walSeq
  BY <1>1 DEF Entry
<1>4. heap' = [heap EXCEPT ![d] = [heap[d] EXCEPT ![docs[d]] = e]]
  BY DEF GoIdle
<1> HIDE DEF e
<1>5. heap' \in [Docs -> [Gens -> Entry]]
  BY <1>1, <1>2, <1>4 DEF MapOK
<1>6. \A x \in Docs, g \in Gens :
        heap'[x][g] = heap[x][g] \/ heap'[x][g].walSeq = heap[x][g].walSeq
  BY <1>1, <1>3, <1>4 DEF MapOK
<1>7. UNCHANGED <<snap, wal, lastId, docs, task, log, acked, wrote, sessDocs, sent, crashes>>
  BY DEF GoIdle, storageVars, historyVars
<1>8. MapOK'
  BY <1>1, <1>5, <1>6, <1>7 DEF MapOK
<1> QED
  BY <1>7, <1>8 DEF Base, StoreBase, StorageOK, StorageTypeOK, CallsOK, HistoryOK, SessionsOK

--------------------------------------------------------------------------------
(***************************************************************************)
(* Restart after a crash.                                                  *)
(***************************************************************************)
LEMMA LoadedEntries ==
  StorageOK => \A d \in Docs : /\ NewEntry(LoadState(d), LastReplayed(d)) \in Entry
                               /\ NewEntry(LoadState(d), LastReplayed(d)).walSeq <= lastId
BY LoadedEntry

LEMMA RecoverBase ==
  ASSUME Recover, StorageOK', HistoryOK', sent' \in Nat, crashes' \in Nat
  PROVE  Base'
<1>1. lastId' \in Nat
  BY DEF StorageOK, StorageTypeOK
<1>2. \A d \in Docs : /\ NewEntry(LoadState(d)', LastReplayed(d)') \in Entry
                      /\ NewEntry(LoadState(d)', LastReplayed(d)').walSeq <= lastId'
  <2>1. (StorageOK => \A d \in Docs :
           /\ NewEntry(LoadState(d), LastReplayed(d)) \in Entry
           /\ NewEntry(LoadState(d), LastReplayed(d)).walSeq <= lastId)'
    BY LoadedEntries, PTL
  <2> QED
    BY <2>1
<1>3. NewEntry({}, 0) \in Entry /\ NewEntry({}, 0).walSeq <= lastId'
  BY <1>1 DEF NewEntry, Entry
<1>4. PICK l \in SUBSET Docs :
        /\ docs' = [d \in Docs |-> IF d \in l THEN 1 ELSE 0]
        /\ heap' = [d \in Docs |-> [g \in Gens |->
                      IF d \in l /\ g = 1
                      THEN NewEntry(LoadState(d)', LastReplayed(d)')
                      ELSE NewEntry({}, 0)]]
  BY Zenon DEF Recover
<1>5. \A d \in Docs, g \in Gens : heap'[d][g] \in Entry /\ heap'[d][g].walSeq <= lastId'
  BY <1>2, <1>3, <1>4, Zenon
<1>6. heap' \in [Docs -> [Gens -> Entry]]
  BY <1>2, <1>3, <1>4, Zenon
<1>7. MapOK'
  BY <1>4, <1>5, <1>6, DocStoreAssumption DEF MapOK
<1>8. CallsOK'
  <2>1. IdleTask \in TaskState /\ CallOK(IdleTask) /\ IdleTask.id = 0 /\ IdleTask.seq = 0
    BY IdleFields DEF CallOK, HasDoc, HasRef, HasUpd
  <2>2. task' = [t \in Tasks |-> IdleTask]
    BY DEF Recover
  <2> QED
    BY <1>1, <2>1, <2>2 DEF CallsOK
<1>9. SessionsOK'
  BY DEF Recover, SessionsOK
<1> QED
  BY <1>7, <1>8, <1>9 DEF Base, StoreBase

LEMMA CrashBase == Base /\ Crash => Base'
<1> SUFFICES ASSUME Base, Crash
             PROVE  Base'
  OBVIOUS
<1>1. StorageOK' /\ HistoryOK'
  BY StorageStays, HistoryStays DEF Crash, Base, StoreBase
<1>2. sent' \in Nat /\ crashes' \in Nat /\ Recover
  BY DEF Crash, Base, SessionsOK
<1> QED
  BY <1>1, <1>2, RecoverBase

LEMMA CrashInDeleteBase ==
  ASSUME Base, NEW t \in Tasks, CrashInDelete(t)
  PROVE  Base'
<1>1. CallNow(task[t])
  BY TaskNow, Zenon DEF Base
<1>2. StorageOK' /\ HistoryOK'
  <2>1. CASE /\ At(t, "d_delete") \/ At(t, "s_delete")
             /\ DeleteInterrupted(task[t].doc) /\ Destroyed({task[t].doc})
    <3>1. task[t].doc \in Docs
      BY <1>1, <2>1, Zenon DEF At, CallNow, CallOK, HasDoc, Pcs
    <3> QED
      BY <2>1, <3>1, DeletedOK, DestroyedOK, Zenon DEF Base, StoreBase
  <2>2. CASE (\E d \in task[t].queue : DeleteInterrupted(d)) /\ UNCHANGED historyVars
    <3>1. task[t].queue \subseteq Docs
      BY <1>1, Zenon DEF CallNow, TaskState
    <3> QED
      BY <2>2, <3>1, DeletedOK, HistoryStays, Zenon DEF Base, StoreBase
  <2> QED
    BY <2>1, <2>2 DEF CrashInDelete
<1>3. sent' \in Nat /\ crashes' \in Nat /\ Recover
  BY DEF CrashInDelete, Base, SessionsOK
<1> QED
  BY <1>2, <1>3, RecoverBase

--------------------------------------------------------------------------------
(***************************************************************************)
(* The base invariant and what follows from it.                            *)
(***************************************************************************)
LEMMA InitBase == Init => Base
<1> SUFFICES ASSUME Init
             PROVE  Base
  OBVIOUS
<1>1. StorageOK
  <2>1. NoSnapshot \in Snapshot /\ NoSnapshot.walId = 0
    BY DEF NoSnapshot, Snapshot
  <2> QED
    BY <2>1 DEF Init, StorageInit, StorageOK, StorageTypeOK, HasLatest
<1>2. MapOK
  <2>1. NewEntry({}, 0) \in Entry /\ NewEntry({}, 0).walSeq = 0
    BY DEF NewEntry, Entry
  <2> QED
    BY <2>1 DEF Init, DocStoreInit, StorageInit, MapOK
<1>3. CallsOK
  <2>1. IdleTask \in TaskState /\ CallOK(IdleTask) /\ IdleTask.id = 0 /\ IdleTask.seq = 0
    BY IdleFields DEF CallOK, HasDoc, HasRef, HasUpd
  <2> QED
    BY <2>1 DEF Init, DocStoreInit, StorageInit, CallsOK
<1>4. HistoryOK /\ SessionsOK
  BY DEF Init, DocStoreInit, HistoryOK, SessionsOK
<1> QED
  BY <1>1, <1>2, <1>3, <1>4 DEF Base, StoreBase

LEMMA NextBase == Base /\ [Next]_vars => Base'
<1> SUFFICES ASSUME Base, [Next]_vars
             PROVE  Base'
  OBVIOUS
<1>1. CASE \E s \in Sessions : Request(s) \/ SessionStep(s)
  BY <1>1, RequestBase, SessionStepBase
<1>2. CASE Tick \/ Crash
  BY <1>2, TickBase, CrashBase
<1>3. ASSUME NEW t \in Tasks, TaskStep(t) \/ StorageFailure(t)
      PROVE  Base'
  <2>1. StoreBase'
    BY <1>3, StoreStepBase, StorageErrorBase, DeleteErrorBase, LoadErrorBase
       DEF TaskStep, StorageFailure, Base
  <2>2. UNCHANGED <<sessDocs, sent, crashes>>
    BY <1>3 DEF TaskStep, StorageFailure
  <2> QED
    BY <2>1, <2>2 DEF Base, SessionsOK
<1>4. CASE \E t \in Tasks : CrashInDelete(t)
  BY <1>4, CrashInDeleteBase
<1>5. CASE \E d \in Docs : GoIdle(d)
  BY <1>5, GoIdleBase, Zenon
<1>6. CASE UNCHANGED vars
  BY <1>6 DEF vars, storageVars, storeVars, Base, StoreBase, StorageOK, StorageTypeOK,
              MapOK, CallsOK, HistoryOK, SessionsOK
<1> QED
  BY <1>1, <1>2, <1>3, <1>4, <1>5, <1>6 DEF Next

\* The base invariant holds in every behaviour of the daemon.
THEOREM BaseInvariant == Spec => []Base
BY InitBase, NextBase, PTL DEF Spec

\* Type correctness: every table, entry, call and count keeps its type.
THEOREM TypeCorrect == Spec => []TypeOK
<1>1. Base => TypeOK
  BY Zenon DEF Base, StoreBase, StorageOK, MapOK, CallsOK, HistoryOK, SessionsOK, TypeOK,
         DocStoreTypeOK
<1> QED
  BY <1>1, BaseInvariant, PTL

\* Whichever of several racing compactions of a document wrote its snapshot, and
\* wherever a deletion was cut short, load_document skips no entry the WAL holds.
THEOREM NothingSkipped == Spec => []CutoffSkipsNothing
<1>1. Base => CutoffSkipsNothing
  <2> SUFFICES ASSUME Base, NEW d \in Docs
               PROVE  WalTail(d) = wal[d]
    BY DEF CutoffSkipsNothing
  <2>1. \A w \in wal[d] : snap[d].walId < w.id /\ w.id \in Nat /\ snap[d].walId \in Nat
    BY DEF Base, StoreBase, StorageOK, StorageTypeOK, WalEntry, Snapshot
  <2> QED
    BY <2>1 DEF WalTail
<1> QED
  BY <1>1, BaseInvariant, PTL
================================================================================
