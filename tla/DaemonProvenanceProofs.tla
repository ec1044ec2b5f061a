------------------------- MODULE DaemonProvenanceProofs -------------------------
(***************************************************************************)
(* Where what the daemon holds comes from, proved of CollabDaemon for any  *)
(* documents, updates, sessions and bounds: every update in a snapshot, in *)
(* the WAL, in an entry -- in the map or not -- or in a captured state was *)
(* appended to the WAL of its document, and a durable document is on disk, *)
(* in the map or in a task's hands only if something was. The last part    *)
(* says who may delete a durable document: a call that a request started,  *)
(* never the disconnect of the last client or the eviction loop.           *)
(***************************************************************************)
EXTENDS CollabDaemonProofs

\* The calls between an append and its in-memory apply.
Pending == {"u_get", "u_apply", "s_get", "s_apply"}

\* Some update of d was appended -- unless d is not durable, or may be created by
\* an authorised read.
Vouched(d, w) == d \in Durable /\ "fetch" \notin Requests => w[d] # {}

\* What a call carries, given the updates w ever appended.
Traced(r, w) ==
    /\ r.pc \in Pending => r.upd \in w[r.doc]
    /\ r.pc = "c_write" => r.cap \subseteq w[r.doc]
    /\ r.pc # "c_write" => r.cap = {}
    /\ r.pc \in HasRef \cup {"c_write"} => Vouched(r.doc, w)
    /\ r.pc = "r_make" => "fetch" \in Requests

DiskTraced ==
    \A d \in Docs :
      /\ snap[d].state \subseteq wrote[d]
      /\ \A e \in wal[d] : e.upd \in wrote[d]
      /\ snap[d].present => Vouched(d, wrote)

MapTraced ==
    \A d \in Docs :
      /\ \A g \in Gens : heap[d][g].content \subseteq wrote[d]
      /\ docs[d] # 0 => Vouched(d, wrote)

CallsTraced == \A t \in Tasks : Traced(task[t], wrote)

Provenance == DiskTraced /\ MapTraced /\ CallsTraced

--------------------------------------------------------------------------------
(***************************************************************************)
(* Frames.                                                                 *)
(***************************************************************************)
LEMMA DiskStays == DiskTraced /\ UNCHANGED <<storageVars, wrote>> => DiskTraced'
BY DEF DiskTraced, storageVars, Vouched

\* The map only loses documents.
LEMMA MapTracedStays ==
  ASSUME MapTraced, UNCHANGED <<heap, wrote>>,
         \A d \in Docs : docs'[d] # 0 => docs[d] # 0
  PROVE  MapTraced'
BY DEF MapTraced, Vouched

LEMMA CallTraced ==
  ASSUME Base, CallsTraced, NEW t \in Tasks, NEW r, GoOn(t, r), wrote' = wrote,
         Traced(r, wrote)
  PROVE  CallsTraced'
<1>1. \A s \in Tasks : task'[s] = IF s = t THEN r ELSE task[s]
  BY DEF GoOn, Base, StoreBase, CallsOK
<1> QED
  BY <1>1 DEF CallsTraced, Traced, Vouched

\* A call that carries nothing.
Quiet(r) ==
    /\ r.pc \notin Pending \cup HasRef \cup {"c_write"}
    /\ r.cap = {}
    /\ r.pc = "r_make" => "fetch" \in Requests

LEMMA QuietTraced == ASSUME NEW r, NEW w, Quiet(r) PROVE Traced(r, w)
BY DEF Quiet, Traced

LEMMA IdleQuiet == Quiet(IdleTask)
BY DEF Quiet, IdleTask, Pending, HasRef

LEMMA ReturnQuiet ==
  ASSUME NEW t \in Tasks, task[t] \in TaskState,
         NEW pc \in Pcs, pc \notin Pending \cup HasRef \cup {"c_write", "r_make"}
  PROVE  Quiet(Return(t, pc))
BY IdleQuiet DEF Return, Quiet, TaskState

\* A step of one task that leaves the entries alone, and the disk right.
LEMMA QuietStep ==
  ASSUME Base, Provenance, NEW t \in Tasks, NEW r, Quiet(r), GoOn(t, r),
         DiskTraced' \/ UNCHANGED storageVars, UNCHANGED <<heap, wrote>>,
         \A d \in Docs : docs'[d] # 0 => docs[d] # 0
  PROVE  Provenance'
<1>1. CallsTraced'
  BY QuietTraced, CallTraced DEF Provenance
<1>2. DiskTraced'
  BY DiskStays DEF Provenance
<1> QED
  BY <1>1, <1>2, MapTracedStays DEF Provenance

\* A step of one task that locks and changes an entry.
LEMMA EntryTraced ==
  ASSUME Base, Provenance, NEW t \in Tasks, NEW r, NEW e, Traced(r, wrote), GoOn(t, r),
         LockEntry(t, e), task[t].doc \in Docs, task[t].ref \in Gens,
         e.content \subseteq wrote[task[t].doc],
         UNCHANGED <<storageVars, docs, historyVars>>
  PROVE  Provenance'
<1>1. CallsTraced'
  BY CallTraced DEF Provenance, historyVars
<1>2. MapTraced'
  <2>1. PICK d0 \in Docs, g0 \in Gens : d0 = task[t].doc /\ g0 = task[t].ref
    OBVIOUS
  <2>2. heap' = [heap EXCEPT ![d0][g0] = e] /\ heap \in [Docs -> [Gens -> Entry]]
    BY <2>1 DEF LockEntry, Base, StoreBase, MapOK
  <2>3. \A d \in Docs, g \in Gens :
          heap'[d][g] = IF d = d0 /\ g = g0 THEN e ELSE heap[d][g]
    BY <2>2
  <2>4. docs' = docs /\ wrote' = wrote
    BY DEF historyVars
  <2>5. e.content \subseteq wrote[d0]
    BY <2>1
  <2> QED
    BY <2>3, <2>4, <2>5 DEF MapTraced, Provenance, Vouched
<1> QED
  BY <1>1, <1>2, DiskStays DEF Provenance, historyVars

\* What load_document returns was appended, and what it finds was vouched for.
LEMMA LoadTraced ==
  ASSUME DiskTraced, NEW d \in Docs
  PROVE  /\ LoadState(d) \subseteq wrote[d]
         /\ Exists(d) => Vouched(d, wrote)
<1>1. \A e \in WalTail(d) : e.upd \in wrote[d]
  BY DEF DiskTraced, WalTail
<1>2. LoadState(d) \subseteq wrote[d]
  BY <1>1 DEF LoadState, DiskTraced
<1>3. WalTail(d) # {} => wrote[d] # {}
  BY <1>1
<1> QED
  BY <1>2, <1>3 DEF Exists, DiskTraced, Vouched

--------------------------------------------------------------------------------
(***************************************************************************)
(* The operations of the store.                                            *)
(***************************************************************************)
\* A failed lookup leaves the task with nothing.
LEMMA LookupFailedQuiet ==
  ASSUME Base, NEW t \in Tasks, task[t].pc \in Gets
  PROVE  Quiet(LookupFailed(t))
<1>1. task[t] \in TaskState /\ CallOK(task[t])
  BY DEF Base, StoreBase, CallsOK
<1>2. PICK pc \in {"u_append", "s_delete", "r_get", "h_policy", "h_next", "idle", "x_next",
                   "b_next", "e_next", "l_one"} : LookupFailed(t) = Return(t, pc)
  <2>1. CASE At(t, "k_get")
    BY <1>1, <2>1 DEF LookupFailed, At, CallOK
  <2>2. CASE At(t, "x_get")
    BY <2>2 DEF LookupFailed, At
  <2>3. CASE At(t, "c_get") /\ task[t].ret # "u_ack"
    BY <1>1, <2>3 DEF LookupFailed, At, CallOK
  <2>4. CASE ~ At(t, "k_get") /\ ~ At(t, "x_get")
             /\ ~ (At(t, "c_get") /\ task[t].ret # "u_ack")
    BY <1>1, <2>4 DEF LookupFailed, CallOK
  <2> QED
    BY <2>1, <2>2, <2>3, <2>4
<1>3. pc \in Pcs /\ pc \notin Pending \cup HasRef \cup {"c_write", "r_make"}
  BY DEF Pcs, Pending, HasRef
<1> QED
  BY <1>1, <1>2, <1>3, ReturnQuiet

LEMMA GetOrCreateTraced ==
  ASSUME Base, Provenance, NEW t \in Tasks, task[t].pc \in Gets, NEW found \in HasRef,
         found \in Pending => task[t].pc \in Pending,
         NEW creation, creation = "allowed" => task[t].pc \in {"u_get", "s_get", "r_make"},
         GetOrCreate(t, creation, found)
  PROVE  Provenance'
<1> DEFINE Found(g) == [task[t] EXCEPT !.pc = found, !.ref = g]
<1>1. /\ task[t] \in TaskState /\ task[t].doc \in Docs /\ Traced(task[t], wrote)
      /\ docs \in [Docs -> Gens \cup {0}] /\ heap \in [Docs -> [Gens -> Entry]]
  BY DEF Base, StoreBase, CallsOK, CallOK, MapOK, Gets, HasDoc, Pcs, Provenance, CallsTraced
<1>2. PICK d \in Docs : d = task[t].doc
  BY <1>1
<1>3. UNCHANGED <<storageVars, historyVars>> /\ wrote' = wrote /\ DiskTraced'
  BY Zenon, DiskStays DEF GetOrCreate, historyVars, Provenance
<1>4. ASSUME NEW g \in Gens, Vouched(d, wrote)
      PROVE  Traced(Found(g), wrote)
  <2>1. /\ Found(g).pc = found /\ Found(g).doc = d /\ Found(g).upd = task[t].upd
        /\ Found(g).cap = task[t].cap
    BY <1>1, <1>2 DEF TaskState
  <2>2. task[t].pc # "c_write" /\ found # "c_write" /\ found # "r_make"
    BY DEF Gets, HasRef
  <2> HIDE DEF Found
  <2> QED
    BY <1>1, <1>2, <1>4, <2>1, <2>2 DEF Traced
<1>5. CASE docs[d] # 0 /\ GoOn(t, Found(docs[d])) /\ UNCHANGED <<docs, heap>>
  <2>1. docs[d] \in Gens /\ Vouched(d, wrote)
    BY <1>1, <1>5 DEF Provenance, MapTraced
  <2>2. PICK g \in Gens : g = docs[d]
    BY <2>1
  <2>3. Traced(Found(g), wrote) /\ GoOn(t, Found(g))
    BY Zenon, <1>4, <1>5, <2>1, <2>2
  <2> HIDE DEF Found
  <2>4. CallsTraced'
    BY <1>3, <2>3, CallTraced DEF Provenance
  <2>5. MapTraced'
    BY <1>3, <1>5, MapTracedStays DEF Provenance
  <2> QED
    BY <1>3, <2>4, <2>5 DEF Provenance
<1>6. ASSUME NEW room \in MakeRoom, NEW g \in Gens,
             docs' = [room EXCEPT ![d] = g],
             heap' = [heap EXCEPT ![d][g] = NewEntry(LoadState(d), LastReplayed(d))],
             GoOn(t, Found(g)),
             Exists(d) \/ creation = "allowed" \/ d \notin Durable
      PROVE  Provenance'
  <2>1. Vouched(d, wrote) /\ LoadState(d) \subseteq wrote[d]
    <3>1. LoadState(d) \subseteq wrote[d] /\ (Exists(d) => Vouched(d, wrote))
      BY LoadTraced DEF Provenance
    <3>2. creation = "allowed" => Vouched(d, wrote)
      BY <1>1, <1>2 DEF Traced, Pending, Vouched
    <3> QED
      BY <1>6, <3>1, <3>2 DEF Vouched
  <2>2. CallsTraced'
    <3>1. Traced(Found(g), wrote)
      BY Zenon, <1>4, <2>1
    <3> HIDE DEF Found
    <3> QED
      BY <1>3, <1>6, <3>1, CallTraced DEF Provenance
  <2>3. \A x \in Docs : docs'[x] # 0 => x = d \/ docs[x] # 0
    BY <1>6, MakeRoomShrinks DEF Base, StoreBase
  <2> DEFINE e == NewEntry(LoadState(d), LastReplayed(d))
  <2>4. e.content = LoadState(d)
    BY DEF NewEntry
  <2>5. heap' = [heap EXCEPT ![d][g] = e]
    BY <1>6
  <2> HIDE DEF e
  <2>6. \A x \in Docs, h \in Gens :
          heap'[x][h] = IF x = d /\ h = g THEN e ELSE heap[x][h]
    BY <1>1, <2>5
  <2>7. MapTraced'
    BY <1>3, <2>1, <2>3, <2>4, <2>6 DEF MapTraced, Provenance, Vouched
  <2> QED
    BY <1>3, <2>2, <2>7 DEF Provenance
<1>7. CASE docs' \in MakeRoom /\ GoOn(t, LookupFailed(t)) /\ UNCHANGED heap
  <2>1. Quiet(LookupFailed(t))
    BY LookupFailedQuiet
  <2>2. \A x \in Docs : docs'[x] # 0 => docs[x] # 0
    BY <1>7, MakeRoomShrinks DEF Base, StoreBase
  <2> QED
    BY <1>3, <1>7, <2>1, <2>2, QuietStep
<1> QED
  BY Zenon, <1>2, <1>5, <1>6, <1>7 DEF GetOrCreate

\* wal_append: the one step at which an update comes in.
LEMMA AppendTraced ==
  ASSUME Base, Provenance, NEW t \in Tasks, NEW next \in {"u_get", "s_get"},
         task[t].pc \in {"u_append", "s_append"}, Append(t, next)
  PROVE  Provenance'
<1>1. /\ task[t] \in TaskState /\ Traced(task[t], wrote)
      /\ task \in [Tasks -> TaskState] /\ wrote \in [Docs -> SUBSET Updates]
      /\ wal \in [Docs -> SUBSET WalEntry]
  BY DEF Base, StoreBase, CallsOK, HistoryOK, StorageOK, StorageTypeOK, Provenance, CallsTraced
<1>2. PICK d \in Docs, u \in Updates : d = task[t].doc /\ u = task[t].upd
  BY DEF Base, StoreBase, CallsOK, CallOK, HasDoc, HasUpd, Pcs
<1> DEFINE r == [task[t] EXCEPT !.pc = next, !.id = lastId + 1]
<1>3. /\ wrote' = [wrote EXCEPT ![d] = wrote[d] \cup {u}]
      /\ wal' = [wal EXCEPT ![d] = wal[d] \cup {[id |-> lastId + 1, upd |-> u]}]
      /\ snap' = snap /\ docs' = docs /\ heap' = heap
      /\ task' = [task EXCEPT ![t] = r]
  BY <1>1, <1>2 DEF Append, WalAppend, GoOn
<1>4. \A x \in Docs : wrote[x] \subseteq wrote'[x] /\ (Vouched(x, wrote) => Vouched(x, wrote'))
  BY <1>1, <1>3 DEF Vouched
<1>5. u \in wrote'[d]
  BY <1>1, <1>3
<1>6. DiskTraced'
  <2>1. \A x \in Docs : \A e \in wal'[x] : e \in wal[x] \/ (x = d /\ e.upd = u)
    BY <1>1, <1>3
  <2> QED
    BY Zenon, <1>3, <1>4, <1>5, <2>1 DEF DiskTraced, Provenance
<1>7. MapTraced'
  BY Zenon, <1>3, <1>4 DEF MapTraced, Provenance
<1>8. CallsTraced'
  <2>1. r.pc = next /\ r.doc = d /\ r.upd = u /\ r.cap = task[t].cap
    BY <1>1, <1>2 DEF TaskState
  <2>2. task'[t] = r /\ \A s \in Tasks : s # t => task'[s] = task[s]
    BY <1>1, <1>3
  <2> HIDE DEF r
  <2>3. Traced(r, wrote')
    BY <1>1, <1>5, <2>1 DEF Traced, HasRef
  <2>4. ASSUME NEW s \in Tasks, s # t
        PROVE  Traced(task[s], wrote')
    <3>1. Traced(task[s], wrote) /\ CallOK(task[s])
      BY DEF Provenance, CallsTraced, Base, StoreBase, CallsOK
    <3>2. task[s].pc \in Pending \cup HasRef \cup {"c_write"} => task[s].doc \in Docs
      BY <3>1, Zenon DEF CallOK, Pending, HasRef, HasDoc, Pcs
    <3> QED
      BY <1>4, <3>1, <3>2 DEF Traced
  <2> QED
    BY <2>2, <2>3, <2>4 DEF CallsTraced
<1> QED
  BY <1>6, <1>7, <1>8 DEF Provenance

\* What is known of a task and of the entry it has locked.
LEMMA HolderTraced ==
  ASSUME Base, Provenance, NEW t \in Tasks, task[t].pc \in HasRef
  PROVE  /\ task[t] \in TaskState /\ task[t].doc \in Docs /\ task[t].ref \in Gens
         /\ Locked(t) \in Entry /\ Locked(t).content \subseteq wrote[task[t].doc]
         /\ Vouched(task[t].doc, wrote) /\ Traced(task[t], wrote)
<1>1. /\ task[t] \in TaskState /\ task[t].doc \in Docs /\ task[t].ref \in Gens
      /\ Locked(t) \in Entry
  BY LockedNow DEF Base, StoreBase, CallsOK
<1>2. Traced(task[t], wrote)
  BY DEF Provenance, CallsTraced
<1> QED
  BY <1>1, <1>2 DEF Provenance, MapTraced, Locked, Traced

\* Counting a client in or out.
LEMMA CountTraced ==
  ASSUME Base, Provenance, NEW t \in Tasks, ConnectIncrement(t) \/ DisconnectDecrement(t)
  PROVE  Provenance'
<1>1. task[t].pc \in HasRef /\ task[t].pc # "c_write"
  BY DEF ConnectIncrement, DisconnectDecrement, At, HasRef
<1>2. /\ task[t] \in TaskState /\ task[t].doc \in Docs /\ task[t].ref \in Gens
      /\ Locked(t) \in Entry /\ Locked(t).content \subseteq wrote[task[t].doc]
      /\ Traced(task[t], wrote)
  BY <1>1, HolderTraced
<1>3. CASE ConnectIncrement(t)
  <2> DEFINE e == [Locked(t) EXCEPT !.connected = @ + 1, !.idle = FALSE]
             r == Return(t, task[t].ret)
  <2>1. task[t].ret \in {"u_append", "s_delete", "r_get", "h_policy", "h_next", "idle"}
    BY <1>3 DEF ConnectIncrement, At, Base, StoreBase, CallsOK, CallOK
  <2>2. Quiet(r)
    BY <1>2, <2>1, ReturnQuiet DEF Pcs, Pending, HasRef
  <2>3. e.content = Locked(t).content
    BY <1>2 DEF Entry
  <2>4. GoOn(t, r) /\ LockEntry(t, e) /\ UNCHANGED <<storageVars, docs, historyVars>>
    BY <1>3 DEF ConnectIncrement
  <2> HIDE DEF e, r
  <2> QED
    BY <1>2, <2>2, <2>3, <2>4, QuietTraced, EntryTraced
<1>4. CASE DisconnectDecrement(t)
  <2> DEFINE n == IF Locked(t).connected = 0 THEN 0 ELSE Locked(t).connected - 1
             e == [Locked(t) EXCEPT !.connected = n]
             r == [task[t] EXCEPT !.pc = "x_next", !.ref = 0]
  <2>1. r.pc = "x_next" /\ r.cap = task[t].cap
    BY <1>2 DEF TaskState
  <2>2. e.content = Locked(t).content
    BY <1>2 DEF Entry
  <2>3. GoOn(t, r) /\ LockEntry(t, e) /\ UNCHANGED <<storageVars, docs, historyVars>>
    BY <1>4 DEF DisconnectDecrement, Goto
  <2> HIDE DEF e, r
  <2>4. Quiet(r)
    BY <1>1, <1>2, <2>1 DEF Quiet, Traced, Pending, HasRef
  <2> QED
    BY <1>2, <2>2, <2>3, <2>4, QuietTraced, EntryTraced
<1> QED
  BY <1>3, <1>4

\* The in-memory apply of an update that was appended.
LEMMA ApplyTraced ==
  ASSUME Base, Provenance, NEW t \in Tasks, UpdateApply(t) \/ ShareApply(t)
  PROVE  Provenance'
<1> DEFINE c == Locked(t).content \cup {task[t].upd}
<1>1. task[t].pc \in HasRef /\ task[t].pc \in Pending /\ task[t].pc # "c_write"
  BY DEF UpdateApply, ShareApply, At, HasRef, Pending
<1>2. /\ task[t] \in TaskState /\ task[t].doc \in Docs /\ task[t].ref \in Gens
      /\ Locked(t) \in Entry /\ Locked(t).content \subseteq wrote[task[t].doc]
      /\ Traced(task[t], wrote)
  BY <1>1, HolderTraced
<1>3. c \subseteq wrote[task[t].doc] /\ task[t].cap = {}
  BY <1>1, <1>2 DEF Traced
<1>4. CASE UpdateApply(t)
  <2> DEFINE next == IF CompactionDue(Locked(t).count + 1) THEN "c_get" ELSE "u_ack"
             e == [Locked(t) EXCEPT !.content = c, !.walSeq = task[t].id,
                                    !.count = Locked(t).count + 1, !.idle = FALSE]
             r == [task[t] EXCEPT !.pc = next, !.ret = "u_ack", !.ref = 0]
  <2>1. GoOn(t, r) /\ LockEntry(t, e) /\ UNCHANGED <<storageVars, docs, historyVars>>
    BY <1>4 DEF UpdateApply
  <2>2. next \in {"c_get", "u_ack"}
    OBVIOUS
  <2> HIDE DEF next, c
  <2>3. e.content = c
    BY <1>2 DEF Entry
  <2>4. r.pc = next /\ r.cap = task[t].cap
    BY <1>2 DEF TaskState
  <2> HIDE DEF e, r
  <2>5. Quiet(r)
    BY <1>3, <2>2, <2>4 DEF Quiet, Pending, HasRef
  <2> QED
    BY <1>2, <1>3, <2>1, <2>3, <2>5, QuietTraced, EntryTraced
<1>5. CASE ShareApply(t)
  <2> DEFINE e == [Locked(t) EXCEPT !.content = c, !.walSeq = task[t].id,
                                    !.count = 1, !.idle = FALSE, !.connected = 1]
             r == [task[t] EXCEPT !.pc = "u_ack", !.ref = 0]
  <2>1. GoOn(t, r) /\ LockEntry(t, e) /\ UNCHANGED <<storageVars, docs, historyVars>>
    BY <1>5 DEF ShareApply, Goto
  <2> HIDE DEF c
  <2>2. e.content = c
    BY <1>2 DEF Entry
  <2>3. r.pc = "u_ack" /\ r.cap = task[t].cap
    BY <1>2 DEF TaskState
  <2> HIDE DEF e, r
  <2>4. Quiet(r)
    BY <1>3, <2>3 DEF Quiet, Pending, HasRef
  <2> QED
    BY <1>2, <1>3, <2>1, <2>2, <2>4, QuietTraced, EntryTraced
<1> QED
  BY <1>4, <1>5

\* compact_doc: what is captured was appended, and so is what is written.
LEMMA CaptureTraced ==
  ASSUME Base, Provenance, NEW t \in Tasks, CompactCapture(t)
  PROVE  Provenance'
<1> DEFINE l == Locked(t)
           e == [l EXCEPT !.count = 0]
           r == [task[t] EXCEPT !.pc = "c_write", !.cap = l.content,
                                !.seq = l.walSeq, !.ref = 0]
<1>1. task[t].pc \in HasRef
  BY DEF CompactCapture, At, HasRef
<1>2. /\ task[t] \in TaskState /\ task[t].doc \in Docs /\ task[t].ref \in Gens
      /\ l \in Entry /\ l.content \subseteq wrote[task[t].doc]
      /\ Vouched(task[t].doc, wrote)
  BY <1>1, HolderTraced
<1>3. GoOn(t, r) /\ LockEntry(t, e) /\ UNCHANGED <<storageVars, docs, historyVars>>
  BY DEF CompactCapture
<1> HIDE DEF l
<1>4. e.content = l.content
  BY <1>2 DEF Entry
<1>5. r.pc = "c_write" /\ r.cap = l.content /\ r.doc = task[t].doc
  BY <1>2 DEF TaskState
<1> HIDE DEF e, r
<1>6. Traced(r, wrote)
  BY <1>2, <1>5 DEF Traced, Pending
<1> QED
  BY <1>2, <1>3, <1>4, <1>6, EntryTraced

LEMMA WriteTraced ==
  ASSUME Base, Provenance, NEW t \in Tasks, CompactWrite(t)
  PROVE  Provenance'
<1> DEFINE r == [task[t] EXCEPT !.pc = task[t].ret, !.cap = {}, !.seq = 0]
<1>1. /\ task[t] \in TaskState /\ task[t].pc = "c_write" /\ Traced(task[t], wrote)
      /\ task[t].doc \in Docs /\ task[t].ret \in {"u_ack", "b_next", "e_next"}
      /\ snap \in [Docs -> Snapshot] /\ wal \in [Docs -> SUBSET WalEntry]
  BY DEF CompactWrite, At, Base, StoreBase, CallsOK, CallOK, HasDoc, Pcs, StorageOK,
         StorageTypeOK, Provenance, CallsTraced
<1>0. PICK d \in Docs : d = task[t].doc
  BY <1>1
<1>2. PICK c \in SUBSET wrote[d] : c = task[t].cap
  BY <1>0, <1>1 DEF Traced
<1>3. /\ snap' = [snap EXCEPT ![d] = [present |-> TRUE, state |-> c, walId |-> task[t].seq]]
      /\ wal' = [wal EXCEPT ![d] = {w \in wal[d] : w.id > task[t].seq}]
      /\ GoOn(t, r) /\ UNCHANGED <<docs, heap, historyVars>> /\ wrote' = wrote
  BY <1>0, <1>1, <1>2 DEF CompactWrite, Compact, historyVars
<1>4. Vouched(d, wrote)
  BY <1>0, <1>1 DEF Traced
<1>5. DiskTraced'
  <2>1. \A x \in Docs : wal'[x] \subseteq wal[x]
    BY <1>1, <1>3
  <2>2. \A x \in Docs : x # d => snap'[x] = snap[x]
    BY <1>1, <1>3
  <2>3. snap'[d].state = c
    BY <1>1, <1>3
  <2> QED
    BY <1>2, <1>3, <1>4, <2>1, <2>2, <2>3 DEF DiskTraced, Provenance, Vouched
<1>6. CallsTraced'
  <2>1. r.pc = task[t].ret /\ r.cap = {}
    BY <1>1 DEF TaskState
  <2> HIDE DEF r
  <2>2. Quiet(r)
    BY <1>1, <2>1 DEF Quiet, Pending, HasRef
  <2> QED
    BY <1>3, <2>2, QuietTraced, CallTraced DEF Provenance
<1>7. MapTraced'
  BY <1>3, MapTracedStays DEF Provenance
<1> QED
  BY <1>5, <1>6, <1>7 DEF Provenance

\* An answer carries nothing on.
LEMMA AnswerTraced ==
  ASSUME Base, Provenance, NEW t \in Tasks, ReadEntry(t) \/ UpdateAck(t)
  PROVE  Provenance'
<1>1. /\ task[t] \in TaskState
      /\ task[t].done \in {"idle", "h_own", "h_touch", "h_widen", "h_next", "f_touch", "l_all"}
  BY DEF Base, StoreBase, CallsOK, CallOK
<1>2. Quiet(Return(t, task[t].done))
  BY <1>1, ReturnQuiet DEF Pcs, Pending, HasRef
<1>3. GoOn(t, Return(t, task[t].done)) /\ UNCHANGED <<storageVars, docs, heap, wrote>>
  BY DEF ReadEntry, UpdateAck, historyVars
<1> QED
  BY <1>2, <1>3, QuietStep

\* delete_document, whole or interrupted.
LEMMA DeletedTraced ==
  ASSUME StorageTypeOK, DiskTraced, NEW d \in Docs, wrote' = wrote,
         DeleteDocument(d) \/ DeleteInterrupted(d)
  PROVE  DiskTraced'
<1>1. /\ snap' = [snap EXCEPT ![d] = NoSnapshot]
      /\ wal' = [wal EXCEPT ![d] = {}] \/ wal' = wal
  BY DEF DeleteDocument, DeleteInterrupted
<1>2. \A x \in Docs : wal'[x] \subseteq wal[x]
  BY <1>1 DEF StorageTypeOK
<1>3. \A x \in Docs : snap'[x] = NoSnapshot \/ snap'[x] = snap[x]
  BY <1>1 DEF StorageTypeOK
<1>4. NoSnapshot.state = {} /\ NoSnapshot.present = FALSE
  BY DEF NoSnapshot
<1> QED
  BY <1>2, <1>3, <1>4 DEF DiskTraced, Vouched

\* A task that is not in the middle of a compaction and moves on to pc.
LEMMA MoveQuiet ==
  ASSUME Base, Provenance, NEW t \in Tasks, task[t].pc # "c_write",
         NEW r, r.cap = task[t].cap, r.pc \notin Pending \cup HasRef \cup {"c_write", "r_make"}
  PROVE  Quiet(r)
<1>1. Traced(task[t], wrote)
  BY DEF Provenance, CallsTraced
<1> QED
  BY <1>1 DEF Traced, Quiet

LEMMA RemovalTraced ==
  ASSUME Base, Provenance, NEW t \in Tasks, DeleteStored(t) \/ ShareDelete(t) \/ ShareRemove(t)
  PROVE  Provenance'
<1>1. /\ task[t] \in TaskState /\ task[t].doc \in Docs
      /\ task[t].pc \in {"d_delete", "s_delete", "s_remove"}
      /\ StorageTypeOK /\ docs \in [Docs -> Gens \cup {0}]
  BY DEF DeleteStored, ShareDelete, ShareRemove, At, Base, StoreBase, CallsOK, CallOK, HasDoc,
         Pcs, StorageOK, MapOK
<1>2. ASSUME NEW pc \in {"s_remove", "s_append"}
      PROVE  Quiet([task[t] EXCEPT !.pc = pc, !.ref = 0])
  <2> DEFINE r == [task[t] EXCEPT !.pc = pc, !.ref = 0]
  <2>1. r.pc = pc /\ r.cap = task[t].cap
    BY <1>1, Zenon DEF TaskState
  <2> HIDE DEF r
  <2>2. Quiet(r)
    BY <1>1, <2>1, MoveQuiet DEF Pending, HasRef
  <2> QED
    BY <2>2 DEF r
<1>3. CASE DeleteStored(t) \/ ShareDelete(t)
  <2>1. UNCHANGED <<docs, heap, wrote>> /\ DeleteDocument(task[t].doc)
    BY <1>3, Zenon DEF DeleteStored, ShareDelete, Destroyed
  <2>2. DiskTraced'
    BY <1>1, <2>1, DeletedTraced DEF Provenance
  <2>3. GoOn(t, IdleTask) \/ GoOn(t, [task[t] EXCEPT !.pc = "s_remove", !.ref = 0])
    BY <1>3 DEF DeleteStored, ShareDelete, Goto
  <2> QED
    BY <1>2, <2>1, <2>2, <2>3, IdleQuiet, QuietStep, Zenon
<1>4. CASE ShareRemove(t)
  <2>1. /\ UNCHANGED <<storageVars, heap, wrote>>
        /\ GoOn(t, [task[t] EXCEPT !.pc = "s_append", !.ref = 0])
    BY <1>4 DEF ShareRemove, Goto, historyVars
  <2>2. \A d \in Docs : docs'[d] # 0 => docs[d] # 0
    BY <1>1, <1>4 DEF ShareRemove
  <2> QED
    BY <1>2, <2>1, <2>2, QuietStep
<1> QED
  BY <1>3, <1>4, Zenon

\* The background task and evict_idle.
LEMMA QueueQuiet ==
  ASSUME NEW pc \in {"b_next", "e_next", "e_delete", "x_next"}, NEW queue, NEW cand
  PROVE  /\ Quiet([IdleTask EXCEPT !.pc = pc, !.queue = queue, !.cand = cand])
         /\ Quiet([IdleTask EXCEPT !.pc = pc, !.queue = queue])
BY DEF Quiet, IdleTask, Pending, HasRef

LEMMA LoopTraced ==
  ASSUME Base, Provenance, NEW t \in Tasks, TickCompact(t) \/ EvictCompact(t) \/ TickEvict(t)
  PROVE  Provenance'
<1>1. task[t] \in TaskState /\ task[t].pc # "c_write"
  BY Zenon DEF TickCompact, EvictCompact, TickEvict, At, Base, StoreBase, CallsOK
<1>2. UNCHANGED <<storageVars, docs, heap, wrote>>
  BY Zenon DEF TickCompact, EvictCompact, TickEvict, EvictScan, historyVars
<1>3. CASE TickCompact(t) \/ EvictCompact(t)
  <2>1. PICK d, ret, q :
          GoOn(t, [task[t] EXCEPT !.pc = "c_get", !.ret = ret, !.doc = d, !.queue = q])
    BY Zenon, <1>3 DEF TickCompact, EvictCompact
  <2> DEFINE r == [task[t] EXCEPT !.pc = "c_get", !.ret = ret, !.doc = d, !.queue = q]
  <2>2. r.pc = "c_get" /\ r.cap = task[t].cap
    BY <1>1 DEF TaskState
  <2>3. GoOn(t, r)
    BY <2>1
  <2> HIDE DEF r
  <2>4. Quiet(r)
    BY <1>1, <2>2, MoveQuiet DEF Pending, HasRef
  <2> QED
    BY <1>2, <2>3, <2>4, QuietStep
<1>4. CASE TickEvict(t)
  <2>1. \/ GoOn(t, IdleTask)
        \/ GoOn(t, [IdleTask EXCEPT !.pc = "e_next", !.queue = Unused, !.cand = Unused])
    BY <1>4 DEF TickEvict, EvictScan
  <2> QED
    BY Zenon, <1>2, <2>1, IdleQuiet, QueueQuiet, QuietStep
<1> QED
  BY <1>3, <1>4

LEMMA VisitedQuiet ==
  ASSUME Base, Provenance, NEW t \in Tasks, task[t].pc = "e_delete", NEW d
  PROVE  Quiet(Visited(t, d))
<1> DEFINE r == [task[t] EXCEPT !.queue = @ \ {d}]
<1>1. r.pc = "e_delete" /\ r.cap = task[t].cap
  BY DEF Base, StoreBase, CallsOK, TaskState
<1>2. Visited(t, d) = IdleTask \/ Visited(t, d) = r
  BY DEF Visited
<1> HIDE DEF r
<1>3. Quiet(r)
  BY <1>1, MoveQuiet DEF Pending, HasRef
<1> QED
  BY <1>2, <1>3, IdleQuiet

LEMMA EvictTraced ==
  ASSUME Base, Provenance, NEW t \in Tasks, EvictRemove(t) \/ EvictDelete(t)
  PROVE  Provenance'
<1>1. CASE EvictRemove(t)
  <2> DEFINE gone == task[t].cand \cap Unused
  <2>1. /\ UNCHANGED <<storageVars, heap, wrote>>
        /\ docs' = [d \in Docs |-> IF d \in gone THEN 0 ELSE docs[d]]
        /\ \/ GoOn(t, IdleTask)
           \/ GoOn(t, [IdleTask EXCEPT !.pc = "e_delete", !.queue = gone \ Durable])
    BY <1>1 DEF EvictRemove, Destroyed
  <2>2. \A d \in Docs : docs'[d] # 0 => docs[d] # 0
    BY <2>1
  <2> QED
    BY Zenon, <2>1, <2>2, IdleQuiet, QueueQuiet, QuietStep
<1>2. CASE EvictDelete(t)
  <2>1. PICK d \in task[t].queue : DeleteDocument(d) /\ GoOn(t, Visited(t, d))
    BY <1>2, Zenon DEF EvictDelete
  <2>2. d \in Docs /\ task[t].pc = "e_delete" /\ StorageTypeOK
    BY <1>2, Zenon DEF EvictDelete, At, Base, StoreBase, CallsOK, TaskState, StorageOK
  <2>3. UNCHANGED <<docs, heap, wrote>>
    BY <1>2 DEF EvictDelete, historyVars
  <2>4. DiskTraced'
    BY <2>1, <2>2, <2>3, DeletedTraced DEF Provenance
  <2> QED
    BY <2>1, <2>2, <2>3, <2>4, VisitedQuiet, QuietStep, Zenon
<1> QED
  BY <1>1, <1>2

LEMMA StoreStepTraced ==
  ASSUME Base, Provenance, NEW t \in Tasks, StoreStep(t)
  PROVE  Provenance'
<1>1. CASE ConnectGet(t) \/ DisconnectGet(t) \/ CompactGet(t)
  BY <1>1, GetOrCreateTraced, Zenon
     DEF ConnectGet, DisconnectGet, CompactGet, At, Gets, HasRef, Pending
<1>2. CASE ReadGet(t)
  BY <1>2, GetOrCreateTraced DEF ReadGet, At, Gets, HasRef, Pending
<1>3. CASE UpdateGet(t) \/ ShareGet(t)
  BY <1>3, GetOrCreateTraced DEF UpdateGet, ShareGet, At, Gets, HasRef, Pending
<1>4. CASE UpdateAppend(t) \/ ShareAppend(t)
  BY <1>4, AppendTraced, Zenon DEF UpdateAppend, ShareAppend, At
<1> QED
  BY <1>1, <1>2, <1>3, <1>4, CountTraced, AnswerTraced, ApplyTraced, CaptureTraced, Zenon,
     WriteTraced, RemovalTraced, LoopTraced, EvictTraced DEF StoreStep

LEMMA DeleteErrorTraced ==
  ASSUME Base, Provenance, NEW t \in Tasks, DeleteError(t)
  PROVE  Provenance'
<1>1. /\ task[t] \in TaskState /\ CallOK(task[t]) /\ StorageTypeOK
      /\ UNCHANGED <<docs, heap, wrote>>
  BY Zenon DEF Base, StoreBase, CallsOK, DeleteError, Destroyed, historyVars, StorageOK
<1>2. ASSUME NEW d \in Docs, DeleteInterrupted(d), NEW r, Quiet(r), GoOn(t, r)
      PROVE  Provenance'
  <2>1. DiskTraced'
    BY <1>1, <1>2, DeletedTraced DEF Provenance
  <2> QED
    BY <1>1, <1>2, <2>1, QuietStep, Zenon
<1>3. CASE At(t, "d_delete")
  <2>1. task[t].doc \in Docs /\ Quiet(Return(t, task[t].fail))
    BY <1>1, <1>3, ReturnQuiet DEF CallOK, HasDoc, Pcs, Pending, HasRef, At
  <2> QED
    BY <1>2, <1>3, <2>1, Zenon DEF DeleteError, At
<1>4. CASE At(t, "s_delete")
  <2> DEFINE r == [task[t] EXCEPT !.pc = "s_remove", !.ref = 0]
  <2>1. r.pc = "s_remove" /\ r.cap = task[t].cap
    BY <1>1 DEF TaskState
  <2>2. GoOn(t, r) /\ task[t].pc # "c_write" /\ DeleteInterrupted(task[t].doc)
    BY <1>4 DEF DeleteError, Goto, At
  <2>3. task[t].doc \in Docs
    BY <1>1, <1>4, Zenon DEF CallOK, HasDoc, Pcs, At
  <2> HIDE DEF r
  <2>4. Quiet(r)
    BY <2>1, <2>2, MoveQuiet DEF Pending, HasRef
  <2> QED
    BY <1>2, <2>2, <2>3, <2>4
<1>5. CASE At(t, "e_delete")
  <2>1. PICK d \in task[t].queue : DeleteInterrupted(d) /\ GoOn(t, Visited(t, d))
    BY <1>5, Zenon DEF DeleteError, At
  <2>2. d \in Docs
    BY <1>1, Zenon DEF TaskState
  <2> QED
    BY <1>2, <1>5, <2>1, <2>2, VisitedQuiet DEF At
<1> QED
  BY <1>3, <1>4, <1>5, Zenon DEF DeleteError

LEMMA FailureTraced ==
  ASSUME Base, Provenance, NEW t \in Tasks, StorageError(t) \/ LoadError(t)
  PROVE  Provenance'
<1>1. /\ task[t] \in TaskState /\ CallOK(task[t])
      /\ UNCHANGED <<storageVars, heap, wrote>>
  BY DEF Base, StoreBase, CallsOK, StorageError, LoadError, historyVars
<1>2. \A pc \in {"idle", "h_next", "l_one", "b_next", "e_next"} : Quiet(Return(t, pc))
  BY <1>1, ReturnQuiet DEF Pcs, Pending, HasRef
<1>3. CASE StorageError(t)
  <2>1. docs' = docs
    BY <1>3, Zenon DEF StorageError
  <2>2. PICK r : Quiet(r) /\ GoOn(t, r)
    <3>1. CASE /\ task[t].pc \in {"u_append", "s_append", "d_delete"}
               /\ GoOn(t, Return(t, task[t].fail))
      BY <1>1, <1>2, <3>1 DEF CallOK
    <3>2. CASE At(t, "s_delete") /\ Goto(t, "s_remove")
      <4> DEFINE r == [task[t] EXCEPT !.pc = "s_remove", !.ref = 0]
      <4>1. r.pc = "s_remove" /\ r.cap = task[t].cap
        BY <1>1 DEF TaskState
      <4>2. GoOn(t, r) /\ task[t].pc # "c_write"
        BY <3>2 DEF Goto, At
      <4> HIDE DEF r
      <4>3. Quiet(r)
        BY <4>1, <4>2, MoveQuiet DEF Pending, HasRef
      <4> QED
        BY <4>2, <4>3
    <3>3. CASE /\ At(t, "c_write")
               /\ GoOn(t, Return(t, IF task[t].ret = "u_ack" THEN task[t].fail
                                    ELSE task[t].ret))
      <4> DEFINE pc == IF task[t].ret = "u_ack" THEN task[t].fail ELSE task[t].ret
      <4>1. pc \in {"idle", "h_next", "l_one", "b_next", "e_next"} /\ GoOn(t, Return(t, pc))
        BY <1>1, <3>3 DEF CallOK, At
      <4> HIDE DEF pc
      <4> QED
        BY <1>2, <4>1, Zenon
    <3>4. CASE At(t, "e_delete") /\ \E d \in task[t].queue : GoOn(t, Visited(t, d))
      BY <3>4, VisitedQuiet DEF At
    <3> QED
      BY <1>3, <3>1, <3>2, <3>3, <3>4, Zenon DEF StorageError
  <2> QED
    BY <1>1, <2>1, <2>2, QuietStep, Zenon
<1>4. CASE LoadError(t)
  <2>1. Quiet(LookupFailed(t)) /\ GoOn(t, LookupFailed(t))
    BY <1>4, LookupFailedQuiet DEF LoadError, Gets
  <2>2. \A d \in Docs : docs'[d] # 0 => docs[d] # 0
    BY <1>4, MakeRoomShrinks DEF LoadError, Base, StoreBase
  <2> QED
    BY <1>1, <2>1, <2>2, QuietStep
<1> QED
  BY <1>3, <1>4

--------------------------------------------------------------------------------
(***************************************************************************)
(* The handlers and the environment.                                       *)
(***************************************************************************)
LEMMA RequestTraced ==
  ASSUME Base, Provenance, NEW s \in Sessions, Request(s)
  PROVE  Provenance'
<1>1. s \in Tasks /\ docs \in [Docs -> Gens \cup {0}]
  BY DaemonAssumption DEF Base, StoreBase, MapOK
<1>2. UNCHANGED <<storageVars, heap, wrote>>
  BY Zenon DEF Request, RequestUpdate, RequestRelay, RequestShare, RequestNodeUpdate, RequestState,
         RequestRefused, RequestRead, RequestDelete, RequestAwareness, RequestKbShare, RequestKbJoin,
         RequestKbLeave, RequestUnregister, RequestFetch, Leave, storeVars, historyVars
<1>3. \A d \in Docs : docs'[d] # 0 => docs[d] # 0
  BY Zenon, <1>1 DEF Request, RequestUpdate, RequestRelay, RequestShare, RequestNodeUpdate,
              RequestRefused, RequestState, RequestRead, RequestDelete, RequestAwareness, RequestKbShare,
              RequestKbJoin, RequestKbLeave, RequestUnregister, RequestFetch, Leave, storeVars
<1>4. ASSUME NEW pc \in {"u_append", "s_delete", "r_get", "d_delete", "k_get"}, NEW d, NEW u
      PROVE  Quiet([IdleTask EXCEPT !.pc = pc, !.doc = d, !.upd = u])
  BY DEF Quiet, IdleTask, Pending, HasRef
<1>5. ASSUME NEW ret \in {"idle", "u_append", "s_delete", "r_get"}, NEW d, NEW u,
             TrackedCall(s, d, u, ret)
      PROVE  \E r : Quiet(r) /\ GoOn(s, r)
  <2> DEFINE pc == IF d \in sessDocs[s] THEN ret ELSE "k_get"
             r == [IdleTask EXCEPT !.pc = pc, !.ret = ret, !.doc = d, !.upd = u]
  <2>1. GoOn(s, r) /\ pc \in {"idle", "u_append", "s_delete", "r_get", "k_get"}
    BY <1>5 DEF TrackedCall
  <2> HIDE DEF pc
  <2>2. Quiet(r)
    BY <2>1 DEF Quiet, IdleTask, Pending, HasRef
  <2> QED
    BY <2>1, <2>2
<1>6. CASE \E d \in Docs, u \in Updates :
             RequestUpdate(s, d, u) \/ RequestRelay(s, d, u) \/ RequestShare(s, d, u)
  <2>1. \E r : Quiet(r) /\ GoOn(s, r)
    BY Zenon, <1>4, <1>5, <1>6 DEF RequestUpdate, RequestRelay, RequestShare, Call
  <2> QED
    BY <1>1, <1>2, <1>3, <2>1, QuietStep
<1>7. CASE \E d \in Durable \ Collections, u \in Updates : RequestNodeUpdate(s, d, u)
  <2>1. \E r : Quiet(r) /\ GoOn(s, r)
    BY <1>5, <1>7 DEF RequestNodeUpdate
  <2> QED
    BY <1>1, <1>2, <1>3, <2>1, QuietStep
<1>8. CASE \E d \in Docs : \/ RequestRefused(s, d) \/ RequestState(s, d)
                           \/ RequestRead(s, d) \/ RequestDelete(s, d)
  <2>1. \E r : Quiet(r) /\ GoOn(s, r)
    BY Zenon, <1>4, <1>5, <1>8 DEF RequestRefused, RequestState, RequestRead, RequestDelete, Call
  <2> QED
    BY <1>1, <1>2, <1>3, <2>1, QuietStep
<1>9. CASE \/ \E d \in Docs : RequestAwareness(s, d)
           \/ \E c \in Collections : RequestUnregister(s, c)
  <2>1. UNCHANGED <<storageVars, docs, heap, task, wrote>>
    BY <1>9 DEF RequestAwareness, RequestUnregister, storeVars
  <2> QED
    BY <1>3, <2>1, DiskStays, MapTracedStays DEF Provenance, CallsTraced
<1>10. CASE \/ \E c \in Collections, nodes \in SUBSET (Durable \ Collections) :
                 \/ \E u \in Updates : RequestKbShare(s, c, nodes, u)
                 \/ RequestKbJoin(s, c, nodes) \/ RequestKbLeave(s, c, nodes)
            \/ \E d \in Durable \ Collections : RequestFetch(s, d)
  <2>1. \E r : Quiet(r) /\ GoOn(s, r)
    <3>1. \A c, u, q : Quiet([IdleTask EXCEPT !.pc = "h_has", !.doc = c, !.upd = u,
                               !.done = "h_touch", !.queue = q, !.cand = {c}])
      BY DEF Quiet, IdleTask, Pending, HasRef
    <3>2. \A c, q : Quiet([IdleTask EXCEPT !.pc = "r_get", !.doc = c, !.done = "h_touch",
                                           !.queue = q])
      BY DEF Quiet, IdleTask, Pending, HasRef
    <3>3. \A c, q : Quiet([IdleTask EXCEPT !.pc = "r_get", !.doc = c, !.done = "l_all",
                                           !.fail = "l_one", !.queue = q])
      BY DEF Quiet, IdleTask, Pending, HasRef
    <3>4. \A d : "fetch" \in Requests =>
            Quiet([IdleTask EXCEPT !.pc = "r_make", !.doc = d, !.done = "f_touch"])
      BY DEF Quiet, IdleTask, Pending, HasRef
    <3> QED
      BY Zenon, <1>10, <3>1, <3>2, <3>3, <3>4
         DEF RequestKbShare, RequestKbJoin, RequestKbLeave, RequestFetch, CanSend
  <2> QED
    BY <1>1, <1>2, <1>3, <2>1, QuietStep
<1>11. CASE Leave(s)
  BY Zenon, <1>1, <1>2, <1>3, <1>11, QueueQuiet, QuietStep DEF Leave
<1> QED
  BY Zenon, <1>6, <1>7, <1>8, <1>9, <1>10, <1>11 DEF Request

LEMMA SessionStepTraced ==
  ASSUME Base, Provenance, NEW s \in Sessions, SessionStep(s)
  PROVE  Provenance'
<1>1. s \in Tasks /\ task[s] \in TaskState
  BY DaemonAssumption DEF Base, StoreBase, CallsOK
<1>2. UNCHANGED <<storageVars, docs, heap, wrote>> /\ task[s].pc # "c_write"
  BY Zenon DEF SessionStep, LeaveNext, Left, KbShareHas, KbShareOwned, KbTouch, KbPolicy, KbNext,
         FetchTouch, KbLeft, At, historyVars
<1>3. ASSUME NEW r, r.cap = task[s].cap, GoOn(s, r),
             r.pc \notin Pending \cup HasRef \cup {"c_write", "r_make"}
      PROVE  Provenance'
  BY <1>1, <1>2, <1>3, MoveQuiet, QuietStep
<1>4. ASSUME GoOn(s, IdleTask)
      PROVE  Provenance'
  BY <1>1, <1>2, <1>4, IdleQuiet, QuietStep
<1>5. CASE LeaveNext(s)
  <2>1. PICK d, q : GoOn(s, [task[s] EXCEPT !.pc = "x_get", !.doc = d, !.queue = q])
    BY Zenon, <1>5 DEF LeaveNext
  <2> DEFINE r == [task[s] EXCEPT !.pc = "x_get", !.doc = d, !.queue = q]
  <2>2. r.pc = "x_get" /\ r.cap = task[s].cap /\ GoOn(s, r)
    BY <1>1, <2>1 DEF TaskState
  <2> HIDE DEF r
  <2> QED
    BY <1>3, <2>2 DEF Pending, HasRef
<1>6. CASE KbShareHas(s) \/ KbShareOwned(s)
  <2>1. ASSUME NEW pc \in {"s_delete", "h_touch", "u_append"},
               GoOn(s, [task[s] EXCEPT !.pc = pc])
        PROVE  Provenance'
    <3> DEFINE r == [task[s] EXCEPT !.pc = pc]
    <3>1. r.pc = pc /\ r.cap = task[s].cap /\ GoOn(s, r)
      BY <1>1, <2>1 DEF TaskState
    <3> HIDE DEF r
    <3> QED
      BY <1>3, <3>1 DEF Pending, HasRef
  <2>2. CASE GoOn(s, [task[s] EXCEPT !.pc = "r_get", !.done = "h_own"])
    <3> DEFINE r == [task[s] EXCEPT !.pc = "r_get", !.done = "h_own"]
    <3>1. r.pc = "r_get" /\ r.cap = task[s].cap /\ GoOn(s, r)
      BY <1>1, <2>2 DEF TaskState
    <3> HIDE DEF r
    <3> QED
      BY <1>3, <3>1 DEF Pending, HasRef
  <2> QED
    BY Zenon, <1>4, <1>6, <2>1, <2>2 DEF KbShareHas, KbShareOwned
<1>7. CASE KbTouch(s) \/ FetchTouch(s)
  <2>1. CASE GoOn(s, IdleTask)
    BY <1>4, <2>1
  <2>2. ASSUME NEW ret, GoOn(s, [task[s] EXCEPT !.pc = "k_get", !.ret = ret])
        PROVE  Provenance'
    <3> DEFINE r == [task[s] EXCEPT !.pc = "k_get", !.ret = ret]
    <3>1. r.pc = "k_get" /\ r.cap = task[s].cap /\ GoOn(s, r)
      BY <1>1, <2>2 DEF TaskState
    <3> HIDE DEF r
    <3> QED
      BY <1>3, <3>1 DEF Pending, HasRef
  <2> QED
    BY Zenon, <1>7, <2>1, <2>2 DEF KbTouch, FetchTouch
<1>8. CASE KbPolicy(s)
  <2>1. CASE GoOn(s, [task[s] EXCEPT !.pc = "h_next"])
    <3> DEFINE r == [task[s] EXCEPT !.pc = "h_next"]
    <3>1. r.pc = "h_next" /\ r.cap = task[s].cap /\ GoOn(s, r)
      BY <1>1, <2>1 DEF TaskState
    <3> HIDE DEF r
    <3> QED
      BY <1>3, <3>1 DEF Pending, HasRef
  <2>2. CASE GoOn(s, [task[s] EXCEPT !.pc = "r_get", !.done = "h_widen", !.fail = "h_next"])
    <3> DEFINE r == [task[s] EXCEPT !.pc = "r_get", !.done = "h_widen", !.fail = "h_next"]
    <3>1. r.pc = "r_get" /\ r.cap = task[s].cap /\ GoOn(s, r)
      BY <1>1, <2>2 DEF TaskState
    <3> HIDE DEF r
    <3> QED
      BY <1>3, <3>1 DEF Pending, HasRef
  <2>3. ASSUME NEW u \in Updates,
               GoOn(s, [task[s] EXCEPT !.pc = "u_append", !.upd = u,
                                       !.done = "h_next", !.fail = "h_next"])
        PROVE  Provenance'
    <3> DEFINE r == [task[s] EXCEPT !.pc = "u_append", !.upd = u,
                                    !.done = "h_next", !.fail = "h_next"]
    <3>1. r.pc = "u_append" /\ r.cap = task[s].cap /\ GoOn(s, r)
      BY <1>1, <2>3 DEF TaskState
    <3> HIDE DEF r
    <3> QED
      BY <1>3, <3>1 DEF Pending, HasRef
  <2> QED
    BY Zenon, <1>8, <2>1, <2>2, <2>3 DEF KbPolicy
<1>9. CASE KbNext(s)
  <2>1. CASE GoOn(s, IdleTask)
    BY <1>4, <2>1
  <2>2. ASSUME NEW pc \in {"r_get", "h_has"}, NEW d, NEW q,
               GoOn(s, [task[s] EXCEPT !.pc = pc, !.doc = d, !.done = "h_touch",
                                       !.fail = "h_next", !.queue = q])
        PROVE  Provenance'
    <3> DEFINE r == [task[s] EXCEPT !.pc = pc, !.doc = d, !.done = "h_touch",
                                    !.fail = "h_next", !.queue = q]
    <3>1. r.pc = pc /\ r.cap = task[s].cap /\ GoOn(s, r)
      BY <1>1, <2>2 DEF TaskState
    <3> HIDE DEF r
    <3> QED
      BY <1>3, <3>1 DEF Pending, HasRef
  <2>3. ASSUME NEW c, GoOn(s, [IdleTask EXCEPT !.pc = "r_get", !.doc = c, !.upd = None])
        PROVE  Provenance'
    <3>1. Quiet([IdleTask EXCEPT !.pc = "r_get", !.doc = c, !.upd = None])
      BY DEF Quiet, IdleTask, Pending, HasRef
    <3> QED
      BY <1>1, <1>2, <2>3, <3>1, QuietStep
  <2> QED
    BY Zenon, <1>9, <2>1, <2>2, <2>3 DEF KbNext, Call
<1>10. CASE Left(s) \/ KbLeft(s)
  BY <1>4, <1>10 DEF Left, KbLeft
<1> QED
  BY <1>5, <1>6, <1>7, <1>8, <1>9, <1>10 DEF SessionStep

LEMMA GoIdleTraced ==
  ASSUME Base, Provenance, NEW d \in Docs, GoIdle(d)
  PROVE  Provenance'
<1>1. docs[d] \in Gens /\ heap \in [Docs -> [Gens -> Entry]]
  BY DEF GoIdle, Loaded, Base, StoreBase, MapOK
<1>2. PICK g \in Gens : g = docs[d]
  BY <1>1
<1> DEFINE e == [heap[d][g] EXCEPT !.idle = TRUE]
<1>3. e.content = heap[d][g].content
  BY <1>1 DEF Entry
<1>4. heap' = [heap EXCEPT ![d][g] = e]
  BY <1>2 DEF GoIdle
<1> HIDE DEF e
<1>5. \A x \in Docs, h \in Gens : heap'[x][h].content = heap[x][h].content
  BY <1>1, <1>3, <1>4
<1>6. UNCHANGED <<storageVars, docs, task, wrote>>
  BY Zenon DEF GoIdle, historyVars
<1>7. MapTraced'
  BY <1>5, <1>6 DEF MapTraced, Provenance, Vouched
<1> QED
  BY <1>6, <1>7, DiskStays DEF Provenance, CallsTraced

\* A restart loads what was traced on disk.
LEMMA LoadsTraced ==
  DiskTraced => \A d \in Docs : /\ LoadState(d) \subseteq wrote[d]
                                /\ Exists(d) => Vouched(d, wrote)
BY LoadTraced

LEMMA RecoverTraced ==
  ASSUME Recover, DiskTraced'
  PROVE  Provenance'
<1>1. \A d \in Docs : /\ LoadState(d)' \subseteq wrote'[d]
                      /\ Exists(d)' => Vouched(d, wrote')
  <2>1. (DiskTraced => \A d \in Docs : /\ LoadState(d) \subseteq wrote[d]
                                       /\ Exists(d) => Vouched(d, wrote))'
    BY LoadsTraced, PTL
  <2> QED
    BY <2>1
<1>2. PICK l \in SUBSET Docs :
        /\ \A d \in l : Exists(d)'
        /\ docs' = [d \in Docs |-> IF d \in l THEN 1 ELSE 0]
        /\ heap' = [d \in Docs |-> [g \in Gens |->
                      IF d \in l /\ g = 1
                      THEN NewEntry(LoadState(d)', LastReplayed(d)')
                      ELSE NewEntry({}, 0)]]
  BY Zenon DEF Recover
<1>3. ASSUME NEW d \in Docs, NEW g \in Gens
      PROVE  heap'[d][g].content \subseteq wrote'[d]
  <2>1. \/ heap'[d][g] = NewEntry(LoadState(d)', LastReplayed(d)')
        \/ heap'[d][g] = NewEntry({}, 0)
    BY <1>2
  <2>2. heap'[d][g].content = LoadState(d)' \/ heap'[d][g].content = {}
    BY <2>1 DEF NewEntry
  <2> QED
    BY <1>1, <2>2
<1>4. MapTraced'
  BY <1>1, <1>2, <1>3 DEF MapTraced
<1>5. CallsTraced'
  <2>1. \A t \in Tasks : task'[t] = IdleTask
    BY DEF Recover
  <2> QED
    BY <2>1, IdleQuiet, QuietTraced DEF CallsTraced
<1> QED
  BY <1>4, <1>5 DEF Provenance

LEMMA CrashTraced ==
  ASSUME Base, Provenance, Crash \/ \E t \in Tasks : CrashInDelete(t)
  PROVE  Provenance'
<1>1. CASE Crash
  <2>1. DiskTraced' /\ Recover
    BY <1>1, DiskStays DEF Crash, Provenance, historyVars
  <2> QED
    BY <2>1, RecoverTraced
<1>2. ASSUME NEW t \in Tasks, CrashInDelete(t)
      PROVE  Provenance'
  <2>1. /\ task[t] \in TaskState /\ StorageTypeOK
        /\ task[t].pc \in {"d_delete", "s_delete"} => task[t].doc \in Docs
    BY Zenon DEF Base, StoreBase, CallsOK, CallOK, HasDoc, Pcs, StorageOK
  <2>2. wrote' = wrote /\ Recover
    BY <1>2, Zenon DEF CrashInDelete, Destroyed, historyVars
  <2>3. \E d \in Docs : DeleteInterrupted(d)
    BY <1>2, <2>1, Zenon DEF CrashInDelete, At, TaskState
  <2>4. DiskTraced'
    BY <2>1, <2>2, <2>3, DeletedTraced DEF Provenance
  <2> QED
    BY <2>2, <2>4, RecoverTraced, Zenon
<1> QED
  BY <1>1, <1>2

LEMMA InitTraced == Init => Provenance
<1> SUFFICES ASSUME Init
             PROVE  Provenance
  OBVIOUS
<1>1. DiskTraced
  BY Zenon DEF Init, StorageInit, DocStoreInit, DiskTraced, NoSnapshot
<1>2. MapTraced
  BY DEF Init, DocStoreInit, MapTraced, NewEntry
<1>3. CallsTraced
  BY IdleQuiet, QuietTraced DEF Init, DocStoreInit, CallsTraced
<1> QED
  BY <1>1, <1>2, <1>3 DEF Provenance

LEMMA NextTraced == Base /\ Provenance /\ [Next]_vars => Provenance'
<1> SUFFICES ASSUME Base, Provenance, [Next]_vars
             PROVE  Provenance'
  OBVIOUS
<1>1. CASE \E s \in Sessions : Request(s) \/ SessionStep(s)
  BY <1>1, RequestTraced, SessionStepTraced
<1>2. CASE Tick
  <2>1. Background \in Tasks /\ UNCHANGED <<storageVars, docs, heap, wrote>>
    BY <1>2, DaemonAssumption DEF Tick, historyVars
  <2> QED
    BY Zenon, <1>2, <2>1, QueueQuiet, QuietStep DEF Tick
<1>3. CASE \E t \in Tasks : TaskStep(t) \/ StorageFailure(t)
  BY <1>3, StoreStepTraced, FailureTraced, DeleteErrorTraced DEF TaskStep, StorageFailure
<1>4. CASE Crash \/ \E t \in Tasks : CrashInDelete(t)
  BY <1>4, CrashTraced
<1>5. CASE \E d \in Docs : GoIdle(d)
  BY <1>5, GoIdleTraced, Zenon
<1>6. CASE UNCHANGED vars
  BY <1>6 DEF vars, storageVars, storeVars, Provenance, DiskTraced, MapTraced, CallsTraced,
              Vouched
<1> QED
  BY <1>1, <1>2, <1>3, <1>4, <1>5, <1>6 DEF Next

--------------------------------------------------------------------------------
\* Everything the daemon holds is traced to the WAL, in every behaviour.
THEOREM ProvenanceInvariant == Spec => []Provenance
BY InitTraced, NextTraced, BaseInvariant, PTL DEF Spec

\* INV-1 for any number of sessions, documents and crashes: apply_update, share_doc,
\* the captures of compact_doc and recovery put nothing in memory or in a snapshot
\* that was not appended to the WAL first.
THEOREM WrittenFirst == Spec => []WalFirst
<1>1. Base /\ Provenance => WalFirst
  <2> SUFFICES ASSUME Base, Provenance, NEW d \in Docs
               PROVE  /\ d \in Loaded => heap[d][docs[d]].content \subseteq wrote[d]
                      /\ snap[d].state \subseteq wrote[d]
                      /\ \A t \in Tasks : Compacting(t, d) => task[t].cap \subseteq wrote[d]
    BY DEF WalFirst
  <2>1. d \in Loaded => docs[d] \in Gens
    BY DEF Loaded, Base, StoreBase, MapOK
  <2>2. d \in Loaded => heap[d][docs[d]].content \subseteq wrote[d]
    BY <2>1, Zenon DEF Provenance, MapTraced
  <2>3. \A t \in Tasks : Compacting(t, d) => task[t].cap \subseteq wrote[d]
    BY DEF Provenance, CallsTraced, Traced, Compacting
  <2> QED
    BY <2>2, <2>3 DEF Provenance, DiskTraced
<1> QED
  BY <1>1, BaseInvariant, ProvenanceInvariant, PTL

\* ADR-105 for any number of sessions, documents and crashes: without an authorised
\* read that creates it, a durable document is in memory or on disk only once some
\* client wrote it.
THEOREM NeverMadeUp == Spec => []DurableNotMadeUp
<1>1. Provenance => DurableNotMadeUp
  <2> SUFFICES ASSUME Provenance, "fetch" \notin Requests, NEW d \in Durable,
                      d \in Loaded \/ Exists(d)
               PROVE  wrote[d] # {}
    BY DEF DurableNotMadeUp
  <2>1. d \in Docs
    BY DocStoreAssumption
  <2>2. Exists(d) => Vouched(d, wrote)
    BY <2>1, LoadTraced DEF Provenance
  <2>3. d \in Loaded => Vouched(d, wrote)
    BY <2>1, Zenon DEF Provenance, MapTraced, Loaded
  <2> QED
    BY <2>2, <2>3 DEF Vouched
<1> QED
  BY <1>1, ProvenanceInvariant, PTL

--------------------------------------------------------------------------------
(***************************************************************************)
(* Who deletes.  A call that is about to delete a stored document was made *)
(* by a session, unless the document is ephemeral; and where no client     *)
(* sends kb/share, no call of a session is that of kb/share.               *)
(***************************************************************************)
Counting == {"k_get", "k_inc"}

Compaction == {"c_get", "c_capture", "c_write"}

BackgroundPcs == Compaction \cup {"idle", "b_next", "e_next", "e_delete"}

\* A call of kb/join, or of no kb request that visits several documents.
NotKbShare(r) ==
    /\ r.pc \notin {"h_has", "h_own", "h_policy", "h_widen"}
    /\ r.done \notin {"h_own", "h_widen", "h_next"}
    /\ r.pc \in Counting => r.ret # "h_policy"
    /\ \/ r.pc \in {"h_next", "h_touch"} \/ r.fail = "h_next"
       \/ r.pc \in Counting /\ r.ret = "h_next"
       => r.done = "h_touch"
    /\ r.done = "h_touch" => r.upd = None /\ r.cand = {}

Rightful(t, r) ==
    /\ r.pc = "d_delete" => r.doc \notin Durable
    /\ r.pc = "e_delete" => r.queue \cap Durable = {}
    /\ t = Background =>
         r.pc \in BackgroundPcs /\ (r.pc \in Compaction => r.ret # "u_ack")
    /\ "kbshare" \notin Requests => NotKbShare(r)

DeletionsRightful == \A t \in Tasks : Rightful(t, task[t])

LEMMA RightfulStep ==
  ASSUME Base, DeletionsRightful, NEW t \in Tasks, NEW r, GoOn(t, r), Rightful(t, r)
  PROVE  DeletionsRightful'
<1>1. \A s \in Tasks : task'[s] = IF s = t THEN r ELSE task[s]
  BY Zenon DEF GoOn, Base, StoreBase, CallsOK
<1> QED
  BY <1>1 DEF DeletionsRightful, Rightful, NotKbShare

LEMMA IdleRightful == \A t : Rightful(t, IdleTask)
BY Zenon DEF Rightful, NotKbShare, IdleTask, BackgroundPcs, Compaction, Counting

\* The call goes on with the same arguments.
SameCall(r, q) ==
    /\ r.ret = q.ret /\ r.done = q.done /\ r.fail = q.fail
    /\ r.doc = q.doc /\ r.upd = q.upd /\ r.queue = q.queue /\ r.cand = q.cand

\* Where a store call goes on that is not at its end.
Inner == {"k_inc", "x_dec", "r_read", "u_append", "u_get", "u_apply", "u_ack", "c_get",
          "c_capture", "c_write", "s_remove", "s_append", "s_get", "s_apply", "x_next"}

LEMMA SameCallRightful ==
  ASSUME Base, DeletionsRightful, NEW t \in Tasks, NEW r, SameCall(r, task[t]),
         \/ r.pc \in Inner \/ r.pc = task[t].done \/ r.pc = task[t].fail
         \/ task[t].pc \in Counting \cup Compaction /\ r.pc = task[t].ret,
         r.pc \in Counting => task[t].pc \in Counting,
         task[t].pc \in BackgroundPcs =>
           \/ task[t].pc \in Compaction
              /\ (r.pc \in {"c_capture", "c_write"} \/ r.pc = task[t].ret)
           \/ task[t].pc \in Compaction /\ task[t].ret = "u_ack"
  PROVE  Rightful(t, r)
<1>1. Rightful(t, task[t]) /\ CallOK(task[t])
  BY Zenon DEF DeletionsRightful, Base, StoreBase, CallsOK
<1>2. r.pc \notin {"d_delete", "e_delete"}
  BY <1>1, Zenon DEF CallOK, Inner, Counting, Compaction
<1>3. t = Background => r.pc \in BackgroundPcs /\ (r.pc \in Compaction => r.ret # "u_ack")
  BY <1>1, Zenon DEF Rightful, CallOK, SameCall, BackgroundPcs, Compaction, Inner
<1>4. ASSUME "kbshare" \notin Requests PROVE NotKbShare(r)
  <2>1. NotKbShare(task[t])
    BY <1>1, <1>4, Zenon DEF Rightful
  <2>2. r.pc \notin {"h_has", "h_own", "h_policy", "h_widen"}
    BY <1>1, <2>1, Zenon DEF NotKbShare, CallOK, Inner, Counting, Compaction
  <2>3. r.pc \in {"h_next", "h_touch"} => r.done = "h_touch"
    BY <1>1, <2>1 DEF NotKbShare, CallOK, Inner, Counting, Compaction, SameCall
  <2> QED
    BY <2>1, <2>2, <2>3, Zenon DEF NotKbShare, SameCall
<1> QED
  BY <1>2, <1>3, <1>4, Zenon DEF Rightful

LEMMA ReturnSame ==
  ASSUME NEW t \in Tasks, task[t] \in TaskState, NEW pc
  PROVE  \/ Return(t, pc) = IdleTask
         \/ SameCall(Return(t, pc), task[t]) /\ Return(t, pc).pc = pc
BY Zenon DEF Return, SameCall, TaskState

\* A call returns, or a lookup fails.
LEMMA ReturnRightful ==
  ASSUME Base, DeletionsRightful, NEW t \in Tasks, NEW pc,
         \/ pc = task[t].done \/ pc = task[t].fail \/ pc = "x_next"
         \/ task[t].pc \in Counting \cup Compaction /\ pc = task[t].ret,
         task[t].pc \in BackgroundPcs =>
           task[t].pc \in Compaction /\ (pc = task[t].ret \/ task[t].ret = "u_ack")
  PROVE  Rightful(t, Return(t, pc))
<1>1. task[t] \in TaskState /\ CallOK(task[t])
  BY Zenon DEF Base, StoreBase, CallsOK
<1>2. pc \notin Counting
  BY <1>1, Zenon DEF CallOK, Counting, Compaction
<1>3. CASE SameCall(Return(t, pc), task[t]) /\ Return(t, pc).pc = pc
  <2> DEFINE r == Return(t, pc)
  <2>1. SameCall(r, task[t]) /\ r.pc = pc
    BY <1>3, Zenon
  <2> HIDE DEF r
  <2>2. Rightful(t, r)
    BY <1>2, <2>1, SameCallRightful, Zenon DEF Inner
  <2> QED
    BY <2>2, Zenon DEF r
<1> QED
  BY <1>1, <1>3, ReturnSame, IdleRightful, Zenon

LEMMA LookupFailedRightful ==
  ASSUME Base, DeletionsRightful, NEW t \in Tasks, task[t].pc \in Gets
  PROVE  Rightful(t, LookupFailed(t))
<1>1. CASE task[t].pc = "k_get"
  BY <1>1, ReturnRightful DEF LookupFailed, At, Counting, BackgroundPcs, Compaction
<1>2. CASE task[t].pc = "x_get"
  BY <1>2, ReturnRightful DEF LookupFailed, At, Counting, BackgroundPcs, Compaction
<1>3. CASE task[t].pc = "c_get" /\ task[t].ret # "u_ack"
  BY <1>3, ReturnRightful, Zenon DEF LookupFailed, At, Counting, BackgroundPcs, Compaction
<1>4. CASE task[t].pc \notin {"k_get", "x_get"} /\ (task[t].pc = "c_get" => task[t].ret = "u_ack")
  <2>1. LookupFailed(t) = Return(t, task[t].fail)
    BY <1>4 DEF LookupFailed, At
  <2> QED
    BY <1>4, <2>1, ReturnRightful DEF Gets, BackgroundPcs, Compaction
<1> QED
  BY <1>1, <1>2, <1>3, <1>4

LEMMA FoundRightful ==
  ASSUME Base, DeletionsRightful, NEW t \in Tasks, task[t].pc \in Gets,
         NEW found \in HasRef, NEW creation, GetOrCreate(t, creation, found),
         found = "k_inc" => task[t].pc = "k_get",
         found = "c_capture" <=> task[t].pc = "c_get"
  PROVE  DeletionsRightful'
<1>1. task[t] \in TaskState
  BY DEF Base, StoreBase, CallsOK
<1>2. PICK r : /\ GoOn(t, r)
               /\ \/ r = LookupFailed(t)
                  \/ \E g : r = [task[t] EXCEPT !.pc = found, !.ref = g]
  BY Zenon DEF GetOrCreate
<1>3. CASE \E g : r = [task[t] EXCEPT !.pc = found, !.ref = g]
  <2>1. SameCall(r, task[t]) /\ r.pc = found
    BY <1>1, <1>3, Zenon DEF SameCall, TaskState
  <2>2. Rightful(t, r)
    BY <2>1, SameCallRightful DEF HasRef, Inner, Counting, BackgroundPcs, Compaction, Gets
  <2> QED
    BY <1>2, <2>2, RightfulStep, Zenon
<1> QED
  BY <1>2, <1>3, LookupFailedRightful, RightfulStep, Zenon

LEMMA AdvanceRightful ==
  ASSUME Base, DeletionsRightful, NEW t \in Tasks,
         \/ ConnectIncrement(t) \/ DisconnectDecrement(t) \/ ReadEntry(t) \/ UpdateAck(t)
         \/ UpdateAppend(t) \/ ShareAppend(t) \/ CompactCapture(t) \/ CompactWrite(t)
         \/ ShareDelete(t) \/ ShareRemove(t) \/ ShareApply(t) \/ UpdateApply(t)
  PROVE  DeletionsRightful'
<1>1. task[t] \in TaskState
  BY DEF Base, StoreBase, CallsOK
<1>2. CASE ConnectIncrement(t)
  BY <1>2, ReturnRightful, RightfulStep
     DEF ConnectIncrement, At, Counting, BackgroundPcs, Compaction
<1>3. CASE ReadEntry(t) \/ UpdateAck(t)
  BY <1>3, ReturnRightful, RightfulStep, Zenon DEF ReadEntry, UpdateAck, At, BackgroundPcs, Compaction
<1>4. ASSUME NEW r, GoOn(t, r), SameCall(r, task[t]),
             \/ r.pc \in Inner \ Counting /\ task[t].pc \notin BackgroundPcs
             \/ task[t].pc = "c_capture" /\ r.pc = "c_write"
             \/ task[t].pc = "c_write" /\ r.pc = task[t].ret
      PROVE  DeletionsRightful'
  <2>1. r.pc \notin Counting
    BY <1>4 DEF Counting, Base, StoreBase, CallsOK, CallOK
  <2>2. Rightful(t, r)
    BY <1>4, <2>1, SameCallRightful, Zenon DEF Inner, Compaction, BackgroundPcs
  <2> QED
    BY <1>4, <2>2, RightfulStep, Zenon
<1>5. CASE DisconnectDecrement(t) \/ ShareDelete(t) \/ ShareRemove(t) \/ ShareApply(t)
  <2>1. PICK pc \in {"x_next", "s_remove", "s_append", "u_ack"} :
               GoOn(t, [task[t] EXCEPT !.pc = pc, !.ref = 0])
    BY Zenon, <1>5 DEF DisconnectDecrement, ShareDelete, ShareRemove, ShareApply, Goto
  <2>2. task[t].pc \notin BackgroundPcs
    BY <1>5 DEF DisconnectDecrement, ShareDelete, ShareRemove, ShareApply, At,
                BackgroundPcs, Compaction
  <2> DEFINE r == [task[t] EXCEPT !.pc = pc, !.ref = 0]
  <2>3. GoOn(t, r) /\ SameCall(r, task[t]) /\ r.pc = pc
    BY <1>1, <2>1 DEF SameCall, TaskState
  <2> HIDE DEF r
  <2> QED
    BY <1>4, <2>2, <2>3, Zenon DEF Inner, Counting
<1>6. CASE UpdateAppend(t) \/ ShareAppend(t)
  <2>0. PICK pc \in {"u_get", "s_get"} : Append(t, pc)
    BY Zenon, <1>6 DEF UpdateAppend, ShareAppend
  <2>1. PICK i : GoOn(t, [task[t] EXCEPT !.pc = pc, !.id = i])
    BY Zenon, <2>0 DEF Append
  <2>2. task[t].pc \notin BackgroundPcs
    BY <1>6, Zenon DEF UpdateAppend, ShareAppend, At, BackgroundPcs, Compaction
  <2> DEFINE r == [task[t] EXCEPT !.pc = pc, !.id = i]
  <2>3. GoOn(t, r) /\ SameCall(r, task[t]) /\ r.pc = pc
    BY <1>1, <2>1 DEF SameCall, TaskState
  <2> HIDE DEF r
  <2> QED
    BY <1>4, <2>1, <2>2, <2>3 DEF Inner, Counting
<1>7. CASE CompactCapture(t) \/ CompactWrite(t)
  <2>1. CASE CompactCapture(t)
    <3> DEFINE r == [task[t] EXCEPT !.pc = "c_write", !.cap = Locked(t).content,
                                    !.seq = Locked(t).walSeq, !.ref = 0]
    <3>1. GoOn(t, r) /\ task[t].pc = "c_capture"
      BY <2>1 DEF CompactCapture, At
    <3>2. SameCall(r, task[t]) /\ r.pc = "c_write"
      BY <1>1 DEF SameCall, TaskState
    <3> HIDE DEF r
    <3> QED
      BY <1>4, <3>1, <3>2, Zenon
  <2>2. CASE CompactWrite(t)
    <3> DEFINE r == [task[t] EXCEPT !.pc = task[t].ret, !.cap = {}, !.seq = 0]
    <3>1. GoOn(t, r) /\ task[t].pc = "c_write"
      BY <2>2 DEF CompactWrite, At
    <3>2. SameCall(r, task[t]) /\ r.pc = task[t].ret
      BY <1>1, Zenon DEF SameCall, TaskState
    <3> HIDE DEF r
    <3> QED
      BY <1>4, <3>1, <3>2, Zenon
  <2> QED
    BY <1>7, <2>1, <2>2, Zenon
<1>8. CASE UpdateApply(t)
  <2>1. PICK pc \in {"c_get", "u_ack"} :
               GoOn(t, [task[t] EXCEPT !.pc = pc, !.ret = "u_ack", !.ref = 0])
    BY <1>8, Zenon DEF UpdateApply
  <2> DEFINE r == [task[t] EXCEPT !.pc = pc, !.ret = "u_ack", !.ref = 0]
  <2>2. /\ r.pc = pc /\ r.done = task[t].done /\ r.fail = task[t].fail
        /\ r.upd = task[t].upd /\ r.cand = task[t].cand
    BY <1>1 DEF TaskState
  <2>3. Rightful(t, task[t]) /\ task[t].pc = "u_apply" /\ GoOn(t, r)
    BY <1>8, <2>1 DEF DeletionsRightful, UpdateApply, At
  <2> HIDE DEF r
  <2>4. Rightful(t, r)
    BY <2>2, <2>3, Zenon DEF Rightful, NotKbShare, BackgroundPcs, Compaction, Counting
  <2> QED
    BY <2>3, <2>4, RightfulStep, Zenon
<1> QED
  BY <1>2, <1>3, <1>5, <1>6, <1>7, <1>8, Zenon

LEMMA QueueRightful ==
  ASSUME NEW t, NEW queue, NEW cand
  PROVE  /\ Rightful(t, [IdleTask EXCEPT !.pc = "e_next", !.queue = queue, !.cand = cand])
         /\ Rightful(t, [IdleTask EXCEPT !.pc = "b_next", !.queue = queue])
         /\ Rightful(t, [IdleTask EXCEPT !.pc = "e_delete", !.queue = queue \ Durable])
         /\ t # Background => Rightful(t, [IdleTask EXCEPT !.pc = "x_next", !.queue = queue])
BY DEF Rightful, NotKbShare, IdleTask, BackgroundPcs, Compaction, Counting

LEMMA VisitedRightful ==
  ASSUME Base, DeletionsRightful, NEW t \in Tasks, task[t].pc = "e_delete", NEW d
  PROVE  Rightful(t, Visited(t, d))
<1>1. task[t] \in TaskState /\ Rightful(t, task[t])
  BY DEF Base, StoreBase, CallsOK, DeletionsRightful
<1> DEFINE r == [task[t] EXCEPT !.queue = @ \ {d}]
<1>2. /\ r.pc = task[t].pc /\ r.ret = task[t].ret /\ r.done = task[t].done
      /\ r.fail = task[t].fail /\ r.upd = task[t].upd /\ r.cand = task[t].cand
      /\ r.queue = task[t].queue \ {d}
  BY <1>1, Zenon DEF TaskState
<1> HIDE DEF r
<1>3. Rightful(t, r)
  BY <1>1, <1>2, Zenon DEF Rightful, NotKbShare
<1> QED
  BY <1>3, IdleRightful, Zenon DEF Visited, r

LEMMA LoopRightful ==
  ASSUME Base, DeletionsRightful, NEW t \in Tasks,
         \/ TickCompact(t) \/ TickEvict(t) \/ EvictCompact(t) \/ EvictRemove(t)
         \/ EvictDelete(t) \/ DeleteStored(t)
  PROVE  DeletionsRightful'
<1>1. task[t] \in TaskState /\ Rightful(t, task[t])
  BY DEF Base, StoreBase, CallsOK, DeletionsRightful
<1>2. CASE TickCompact(t) \/ EvictCompact(t)
  <2>0. PICK ret \in {"b_next", "e_next"} : \E d, q :
            GoOn(t, [task[t] EXCEPT !.pc = "c_get", !.ret = ret, !.doc = d, !.queue = q])
    BY Zenon, <1>2 DEF TickCompact, EvictCompact
  <2>1. PICK d, q :
            GoOn(t, [task[t] EXCEPT !.pc = "c_get", !.ret = ret, !.doc = d, !.queue = q])
    BY Zenon, <2>0
  <2> DEFINE r == [task[t] EXCEPT !.pc = "c_get", !.ret = ret, !.doc = d, !.queue = q]
  <2>2. /\ r.pc = "c_get" /\ r.ret = ret /\ r.done = task[t].done /\ r.fail = task[t].fail
        /\ r.upd = task[t].upd /\ r.cand = task[t].cand
    BY <1>1 DEF TaskState
  <2>3. GoOn(t, r)
    BY <2>1
  <2> HIDE DEF r
  <2>4. Rightful(t, r)
    BY <1>1, <2>1, <2>2 DEF Rightful, NotKbShare, BackgroundPcs, Compaction, Counting
  <2> QED
    BY <2>3, <2>4, RightfulStep
<1>3. CASE TickEvict(t)
  <2>1. \E r : GoOn(t, r) /\ Rightful(t, r)
    BY Zenon, <1>3, QueueRightful, IdleRightful DEF TickEvict, EvictScan
  <2> QED
    BY <2>1, RightfulStep
<1>4. CASE EvictRemove(t)
  <2>1. \E r : GoOn(t, r) /\ Rightful(t, r)
    BY Zenon, <1>4, QueueRightful, IdleRightful DEF EvictRemove
  <2> QED
    BY <2>1, RightfulStep
<1>5. CASE EvictDelete(t)
  BY <1>5, VisitedRightful, RightfulStep, Zenon DEF EvictDelete, At
<1>6. CASE DeleteStored(t)
  BY <1>6, IdleRightful, RightfulStep DEF DeleteStored
<1> QED
  BY <1>2, <1>3, <1>4, <1>5, <1>6, Zenon

LEMMA TaskStepRightful ==
  ASSUME Base, DeletionsRightful, NEW t \in Tasks, StoreStep(t)
  PROVE  DeletionsRightful'
<1>1. CASE ConnectGet(t)
  BY <1>1, FoundRightful, Zenon DEF ConnectGet, At, Gets, HasRef
<1>2. CASE DisconnectGet(t)
  BY <1>2, FoundRightful, Zenon DEF DisconnectGet, At, Gets, HasRef
<1>3. CASE ReadGet(t)
  BY <1>3, FoundRightful, Zenon DEF ReadGet, At, Gets, HasRef
<1>4. CASE UpdateGet(t) \/ ShareGet(t)
  BY <1>4, FoundRightful, Zenon DEF UpdateGet, ShareGet, At, Gets, HasRef
<1>5. CASE CompactGet(t)
  BY <1>5, FoundRightful DEF CompactGet, At, Gets, HasRef
<1> QED
  BY Zenon, <1>1, <1>2, <1>3, <1>4, <1>5, AdvanceRightful, LoopRightful DEF StoreStep

LEMMA FailureRightful ==
  ASSUME Base, DeletionsRightful, NEW t \in Tasks,
         StorageError(t) \/ DeleteError(t) \/ LoadError(t)
  PROVE  DeletionsRightful'
<1>1. task[t] \in TaskState /\ CallOK(task[t])
  BY Zenon DEF Base, StoreBase, CallsOK
<1>2. CASE LoadError(t)
  BY <1>2, LookupFailedRightful, RightfulStep, Zenon DEF LoadError, Gets
<1>3. CASE /\ task[t].pc \in {"u_append", "s_append", "d_delete"}
           /\ GoOn(t, Return(t, task[t].fail))
  BY <1>3, ReturnRightful, RightfulStep, Zenon DEF BackgroundPcs, Compaction
<1>4. CASE At(t, "s_delete") /\ Goto(t, "s_remove")
  <2> DEFINE r == [task[t] EXCEPT !.pc = "s_remove", !.ref = 0]
  <2>1. GoOn(t, r) /\ task[t].pc = "s_delete"
    BY <1>4 DEF Goto, At
  <2>2. SameCall(r, task[t]) /\ r.pc = "s_remove"
    BY <1>1, Zenon DEF SameCall, TaskState
  <2> HIDE DEF r
  <2>3. Rightful(t, r)
    BY <2>1, <2>2, SameCallRightful, Zenon DEF Inner, Counting, BackgroundPcs, Compaction
  <2> QED
    BY <2>1, <2>3, RightfulStep
<1>5. CASE /\ At(t, "c_write")
           /\ GoOn(t, Return(t, IF task[t].ret = "u_ack" THEN task[t].fail ELSE task[t].ret))
  <2>1. PICK pc : /\ GoOn(t, Return(t, pc)) /\ pc \in {task[t].fail, task[t].ret}
                  /\ pc = task[t].ret \/ task[t].ret = "u_ack"
    BY <1>5, Zenon
  <2>2. Rightful(t, Return(t, pc))
    BY <1>5, <2>1, ReturnRightful, Zenon DEF At, BackgroundPcs, Compaction
  <2> QED
    BY <2>1, <2>2, RightfulStep, Zenon
<1>6. CASE At(t, "e_delete") /\ \E d \in task[t].queue : GoOn(t, Visited(t, d))
  BY <1>6, VisitedRightful, RightfulStep DEF At
<1> QED
  BY <1>2, <1>3, <1>4, <1>5, <1>6, Zenon DEF StorageError, DeleteError, At

LEMMA RequestRightful ==
  ASSUME Base, DeletionsRightful, NEW s \in Sessions, Request(s)
  PROVE  DeletionsRightful'
<1>1. s \in Tasks /\ s # Background
  BY DaemonAssumption
<1>2. ASSUME NEW r, GoOn(s, r), Rightful(s, r) PROVE DeletionsRightful'
  BY <1>1, <1>2, RightfulStep
<1>3. ASSUME NEW pc \in {"u_append", "s_delete", "r_get"}, NEW d, NEW u
      PROVE  Rightful(s, [IdleTask EXCEPT !.pc = pc, !.doc = d, !.upd = u])
  BY <1>1 DEF Rightful, NotKbShare, IdleTask, Counting
<1>4. ASSUME NEW ret \in {"idle", "u_append", "s_delete", "r_get"}, NEW d, NEW u,
             TrackedCall(s, d, u, ret)
      PROVE  DeletionsRightful'
  <2> DEFINE pc == IF d \in sessDocs[s] THEN ret ELSE "k_get"
             r == [IdleTask EXCEPT !.pc = pc, !.ret = ret, !.doc = d, !.upd = u]
  <2>1. GoOn(s, r) /\ pc \in {"idle", "u_append", "s_delete", "r_get", "k_get"}
    BY <1>4 DEF TrackedCall
  <2> HIDE DEF pc
  <2>2. Rightful(s, r)
    BY <1>1, <2>1 DEF Rightful, NotKbShare, IdleTask, Counting
  <2> QED
    BY <1>2, <2>1, <2>2
<1>5. CASE \E d \in Docs, u \in Updates :
             RequestUpdate(s, d, u) \/ RequestRelay(s, d, u) \/ RequestShare(s, d, u)
  BY Zenon, <1>2, <1>3, <1>4, <1>5 DEF RequestUpdate, RequestRelay, RequestShare, Call
<1>6. CASE \E d \in Durable \ Collections, u \in Updates : RequestNodeUpdate(s, d, u)
  BY Zenon, <1>4, <1>6 DEF RequestNodeUpdate
<1>7. CASE \E d \in Docs : RequestRefused(s, d) \/ RequestState(s, d) \/ RequestRead(s, d)
  BY Zenon, <1>2, <1>3, <1>4, <1>7 DEF RequestRefused, RequestState, RequestRead, Call
<1>8. CASE \E d \in Docs : RequestDelete(s, d)
  <2>1. PICK d : d \notin Durable /\ GoOn(s, [IdleTask EXCEPT !.pc = "d_delete", !.doc = d,
                                                              !.upd = None])
    BY Zenon, <1>8 DEF RequestDelete, Call
  <2>2. Rightful(s, [IdleTask EXCEPT !.pc = "d_delete", !.doc = d, !.upd = None])
    BY <1>1, <2>1, Zenon DEF Rightful, NotKbShare, IdleTask, Counting
  <2> QED
    BY <1>2, <2>1, <2>2
<1>9. CASE \/ \E d \in Docs : RequestAwareness(s, d)
           \/ \E c \in Collections : RequestUnregister(s, c)
  <2>1. task' = task
    BY <1>9 DEF RequestAwareness, RequestUnregister, storeVars
  <2> QED
    BY <2>1 DEF DeletionsRightful, Rightful, NotKbShare
<1>10. CASE \E c \in Collections, nodes \in SUBSET (Durable \ Collections), u \in Updates :
              RequestKbShare(s, c, nodes, u)
  <2>1. PICK c, q, u : GoOn(s, [IdleTask EXCEPT !.pc = "h_has", !.doc = c, !.upd = u,
                                  !.done = "h_touch", !.queue = q, !.cand = {c}])
    BY Zenon, <1>10 DEF RequestKbShare
  <2>2. Rightful(s, [IdleTask EXCEPT !.pc = "h_has", !.doc = c, !.upd = u,
                                  !.done = "h_touch", !.queue = q, !.cand = {c}])
    BY <1>1, <1>10 DEF Rightful, IdleTask, RequestKbShare, CanSend
  <2> QED
    BY <1>2, <2>1, <2>2
<1>11. CASE \/ \E c \in Collections, nodes \in SUBSET (Durable \ Collections) :
                 RequestKbJoin(s, c, nodes) \/ RequestKbLeave(s, c, nodes)
            \/ \E d \in Durable \ Collections : RequestFetch(s, d)
  <2>1. \A c, q : Rightful(s, [IdleTask EXCEPT !.pc = "r_get", !.doc = c, !.done = "h_touch",
                                               !.queue = q])
    BY <1>1 DEF Rightful, NotKbShare, IdleTask, Counting
  <2>2. \A c, q : Rightful(s, [IdleTask EXCEPT !.pc = "r_get", !.doc = c, !.done = "l_all",
                                               !.fail = "l_one", !.queue = q])
    BY <1>1 DEF Rightful, NotKbShare, IdleTask, Counting
  <2>3. \A d : Rightful(s, [IdleTask EXCEPT !.pc = "r_make", !.doc = d, !.done = "f_touch"])
    BY <1>1 DEF Rightful, NotKbShare, IdleTask, Counting
  <2> QED
    BY Zenon, <1>2, <1>11, <2>1, <2>2, <2>3 DEF RequestKbJoin, RequestKbLeave, RequestFetch
<1>12. CASE Leave(s)
  BY Zenon, <1>1, <1>2, <1>12, QueueRightful DEF Leave
<1> QED
  BY Zenon, <1>5, <1>6, <1>7, <1>8, <1>9, <1>10, <1>11, <1>12 DEF Request

LEMMA SessionStepRightful ==
  ASSUME Base, DeletionsRightful, NEW s \in Sessions, SessionStep(s)
  PROVE  DeletionsRightful'
<1>1. /\ s \in Tasks /\ s # Background
      /\ task[s] \in TaskState /\ CallOK(task[s]) /\ Rightful(s, task[s])
  BY DaemonAssumption, Zenon DEF Base, StoreBase, CallsOK, DeletionsRightful
<1>2. ASSUME NEW r, GoOn(s, r), r.pc \notin {"d_delete", "e_delete"},
             "kbshare" \notin Requests /\ NotKbShare(task[s]) => NotKbShare(r)
      PROVE  DeletionsRightful'
  <2>1. Rightful(s, r)
    BY <1>1, <1>2 DEF Rightful
  <2> QED
    BY <1>1, <1>2, <2>1, RightfulStep, Zenon
<1>3. ASSUME GoOn(s, IdleTask) PROVE DeletionsRightful'
  BY <1>1, <1>3, IdleRightful, RightfulStep, Zenon
<1>4. CASE LeaveNext(s)
  <2>1. PICK d, q : GoOn(s, [task[s] EXCEPT !.pc = "x_get", !.doc = d, !.queue = q])
    BY Zenon, <1>4 DEF LeaveNext
  <2> DEFINE r == [task[s] EXCEPT !.pc = "x_get", !.doc = d, !.queue = q]
  <2>2. /\ GoOn(s, r) /\ r.pc = "x_get" /\ r.done = task[s].done /\ r.fail = task[s].fail
        /\ r.upd = task[s].upd /\ r.cand = task[s].cand
    BY <1>1, <2>1 DEF TaskState
  <2> HIDE DEF r
  <2> QED
    BY <1>2, <2>2 DEF NotKbShare, Counting
<1>5. CASE KbShareHas(s) \/ KbShareOwned(s) \/ KbPolicy(s)
  <2>1. ~ NotKbShare(task[s])
    BY <1>5, Zenon DEF KbShareHas, KbShareOwned, KbPolicy, At, NotKbShare
  <2>2. PICK r : GoOn(s, r) /\ r.pc \notin {"d_delete", "e_delete"}
    <3>1. ASSUME NEW pc \in {"s_delete", "h_touch", "u_append"},
                 GoOn(s, [task[s] EXCEPT !.pc = pc])
          PROVE  \E r : GoOn(s, r) /\ r.pc \notin {"d_delete", "e_delete"}
      <4>1. [task[s] EXCEPT !.pc = pc].pc = pc
        BY <1>1 DEF TaskState
      <4> QED
        BY <3>1, <4>1, Zenon
    <3>2. CASE GoOn(s, [task[s] EXCEPT !.pc = "h_next"])
      <4>1. [task[s] EXCEPT !.pc = "h_next"].pc = "h_next"
        BY <1>1 DEF TaskState
      <4> QED
        BY <3>2, <4>1, Zenon
    <3>3. CASE GoOn(s, [task[s] EXCEPT !.pc = "r_get", !.done = "h_widen", !.fail = "h_next"])
      <4>1. [task[s] EXCEPT !.pc = "r_get", !.done = "h_widen", !.fail = "h_next"].pc = "r_get"
        BY <1>1 DEF TaskState
      <4> QED
        BY <3>3, <4>1, Zenon
    <3>4. ASSUME NEW u, GoOn(s, [task[s] EXCEPT !.pc = "u_append", !.upd = u,
                                                !.done = "h_next", !.fail = "h_next"])
          PROVE  \E r : GoOn(s, r) /\ r.pc \notin {"d_delete", "e_delete"}
      <4>1. [task[s] EXCEPT !.pc = "u_append", !.upd = u,
                            !.done = "h_next", !.fail = "h_next"].pc = "u_append"
        BY <1>1, Zenon DEF TaskState
      <4> QED
        BY <3>4, <4>1, Zenon
    <3>5. CASE GoOn(s, [task[s] EXCEPT !.pc = "r_get", !.done = "h_own"])
      <4>1. [task[s] EXCEPT !.pc = "r_get", !.done = "h_own"].pc = "r_get"
        BY <1>1 DEF TaskState
      <4> QED
        BY <3>5, <4>1, Zenon
    <3>6. CASE GoOn(s, IdleTask)
      <4>1. IdleTask.pc = "idle"
        BY DEF IdleTask
      <4> QED
        BY <3>6, <4>1
    <3> QED
      BY Zenon, <1>5, <3>1, <3>2, <3>3, <3>4, <3>5, <3>6 DEF KbShareHas, KbShareOwned, KbPolicy
  <2> QED
    BY <1>2, <2>1, <2>2
<1>6. CASE KbTouch(s)
  <2> DEFINE ret == IF task[s].doc \in task[s].cand THEN "h_policy" ELSE "h_next"
             r == [task[s] EXCEPT !.pc = "k_get", !.ret = ret]
  <2>1. GoOn(s, r) /\ task[s].pc = "h_touch"
    BY <1>6 DEF KbTouch, At
  <2>2. /\ r.pc = "k_get" /\ r.ret = ret /\ r.done = task[s].done /\ r.fail = task[s].fail
        /\ r.upd = task[s].upd /\ r.cand = task[s].cand
    BY <1>1 DEF TaskState
  <2>3. task[s].cand = {} => ret = "h_next"
    OBVIOUS
  <2> HIDE DEF r, ret
  <2> QED
    BY <1>2, <2>1, <2>2, <2>3 DEF NotKbShare, Counting
<1>7. CASE FetchTouch(s)
  <2> DEFINE r == [task[s] EXCEPT !.pc = "k_get", !.ret = "idle"]
  <2>1. GoOn(s, IdleTask) \/ GoOn(s, r)
    BY Zenon, <1>7 DEF FetchTouch
  <2>2. /\ r.pc = "k_get" /\ r.ret = "idle" /\ r.done = task[s].done /\ r.fail = task[s].fail
        /\ r.upd = task[s].upd /\ r.cand = task[s].cand
    BY <1>1, Zenon DEF TaskState
  <2> HIDE DEF r
  <2>3. CASE GoOn(s, r)
    BY <1>2, <2>2, <2>3 DEF NotKbShare, Counting
  <2> QED
    BY <1>3, <2>1, <2>3
<1>8. CASE KbNext(s)
  <2>1. ASSUME NEW d, NEW q,
               GoOn(s, [task[s] EXCEPT !.pc = IF task[s].upd = None THEN "r_get" ELSE "h_has",
                                       !.doc = d, !.done = "h_touch", !.fail = "h_next",
                                       !.queue = q])
        PROVE  DeletionsRightful'
    <3> DEFINE pc == IF task[s].upd = None THEN "r_get" ELSE "h_has"
               r == [task[s] EXCEPT !.pc = pc, !.doc = d, !.done = "h_touch",
                                    !.fail = "h_next", !.queue = q]
    <3>1. GoOn(s, r) /\ pc \in {"r_get", "h_has"} /\ (task[s].upd = None => pc = "r_get")
      BY <2>1
    <3>2. /\ r.pc = pc /\ r.done = "h_touch" /\ r.fail = "h_next"
          /\ r.upd = task[s].upd /\ r.cand = task[s].cand
      BY <1>1 DEF TaskState
    <3>3. task[s].pc = "h_next"
      BY <1>8, Zenon DEF KbNext, At
    <3> HIDE DEF r, pc
    <3> QED
      BY <1>2, <3>1, <3>2, <3>3 DEF NotKbShare, Counting
  <2>2. ASSUME NEW c, GoOn(s, [IdleTask EXCEPT !.pc = "r_get", !.doc = c, !.upd = None])
        PROVE  DeletionsRightful'
    <3> DEFINE r == [IdleTask EXCEPT !.pc = "r_get", !.doc = c, !.upd = None]
    <3>1. Rightful(s, r)
      BY <1>1 DEF Rightful, NotKbShare, IdleTask, Counting
    <3> QED
      BY <1>1, <2>2, <3>1, RightfulStep
  <2> QED
    BY Zenon, <1>3, <1>8, <2>1, <2>2 DEF KbNext, Call
<1>9. CASE Left(s) \/ KbLeft(s)
  BY <1>3, <1>9 DEF Left, KbLeft
<1> QED
  BY Zenon, <1>4, <1>5, <1>6, <1>7, <1>8, <1>9 DEF SessionStep

LEMMA NextRightful == Base /\ DeletionsRightful /\ [Next]_vars => DeletionsRightful'
<1> SUFFICES ASSUME Base, DeletionsRightful, [Next]_vars
             PROVE  DeletionsRightful'
  OBVIOUS
<1>1. CASE \E s \in Sessions : Request(s) \/ SessionStep(s)
  BY <1>1, RequestRightful, SessionStepRightful
<1>2. CASE Tick
  <2>1. Background \in Tasks
    BY DaemonAssumption
  <2> QED
    BY Zenon, <1>2, <2>1, QueueRightful, RightfulStep DEF Tick
<1>3. CASE \E t \in Tasks : TaskStep(t) \/ StorageFailure(t)
  BY <1>3, TaskStepRightful, FailureRightful DEF TaskStep, StorageFailure
<1>4. CASE Crash \/ \E t \in Tasks : CrashInDelete(t)
  <2>1. task' = [t \in Tasks |-> IdleTask]
    BY Zenon, <1>4 DEF Crash, CrashInDelete, Recover
  <2> QED
    BY <2>1, IdleRightful DEF DeletionsRightful
<1>5. CASE UNCHANGED vars \/ \E d \in Docs : GoIdle(d)
  <2>1. task' = task
    BY <1>5, Zenon DEF vars, storeVars, GoIdle
  <2> QED
    BY <2>1 DEF DeletionsRightful, Rightful, NotKbShare
<1> QED
  BY <1>1, <1>2, <1>3, <1>4, <1>5 DEF Next

LEMMA InitRightful == Init => DeletionsRightful
BY IdleRightful DEF Init, DocStoreInit, DeletionsRightful

--------------------------------------------------------------------------------
\* The steps that write to storage.
Writes(t) ==
    \/ UpdateAppend(t) \/ ShareAppend(t) \/ CompactWrite(t)
    \/ DeleteStored(t) \/ ShareDelete(t) \/ EvictDelete(t) \/ DeleteError(t)

LEMMA StorageKept ==
  ASSUME [Next]_vars, \A t \in Tasks : ~ Writes(t) /\ ~ CrashInDelete(t)
  PROVE  UNCHANGED storageVars
<1>1. ASSUME NEW s \in Sessions, Request(s) PROVE UNCHANGED storageVars
  BY Zenon, <1>1 DEF Request, RequestUpdate, RequestRelay, RequestShare, RequestNodeUpdate,
         RequestRefused, RequestState, RequestRead, RequestDelete, RequestAwareness,
         RequestKbShare, RequestKbJoin, RequestKbLeave, RequestUnregister, RequestFetch, Leave
<1>2. ASSUME NEW s \in Sessions, SessionStep(s) PROVE UNCHANGED storageVars
  BY Zenon, <1>2 DEF SessionStep, LeaveNext, Left, KbShareHas, KbShareOwned, KbTouch, KbPolicy,
         KbNext, FetchTouch, KbLeft
<1>3. ASSUME NEW t \in Tasks, StoreStep(t), ~ Writes(t) PROVE UNCHANGED storageVars
  BY Zenon, <1>3 DEF StoreStep, Writes, ConnectGet, ConnectIncrement, DisconnectGet,
         DisconnectDecrement, ReadGet, ReadEntry, UpdateGet, UpdateApply, UpdateAck, CompactGet,
         CompactCapture, ShareRemove, ShareGet, ShareApply, TickCompact, TickEvict, EvictScan,
         EvictCompact, EvictRemove, GetOrCreate
<1>4. ASSUME NEW t \in Tasks, StorageFailure(t), ~ Writes(t) PROVE UNCHANGED storageVars
  BY Zenon, <1>4 DEF StorageFailure, StorageError, LoadError, Writes
<1>5. CASE Tick \/ Crash \/ (\E d \in Docs : GoIdle(d)) \/ UNCHANGED vars
  BY Zenon, <1>5 DEF Tick, Crash, GoIdle, vars
<1> QED
  BY Zenon, <1>1, <1>2, <1>3, <1>4, <1>5 DEF Next, TaskStep

\* Session s is about to replace document d in share_doc; if no client sends
\* kb/share, not for that request.
Replaces(s, d) ==
    /\ task[s].doc = d /\ At(s, "s_delete")
    /\ "kbshare" \notin Requests => task[s].done # "h_touch"

\* What a step can do to the rows of a durable document.
LEMMA DurableRows ==
  ASSUME Base, DeletionsRightful, [Next]_vars, NEW d \in Durable
  PROVE  \/ snap'[d] = snap[d] /\ wal[d] \subseteq wal'[d]
         \/ \E t \in Tasks : /\ task[t].doc = d /\ At(t, "c_write")
                             /\ Compact(d, task[t].cap, task[t].seq)
         \/ \E s \in Sessions : Replaces(s, d)
<1>1. d \in Docs /\ snap \in [Docs -> Snapshot] /\ wal \in [Docs -> SUBSET WalEntry]
  BY DocStoreAssumption DEF Base, StoreBase, StorageOK, StorageTypeOK
<1>2. CASE UNCHANGED storageVars
  BY <1>2, Zenon DEF storageVars
<1>3. ASSUME NEW e, e # d, DeleteDocument(e) \/ DeleteInterrupted(e)
      PROVE  snap'[d] = snap[d] /\ wal[d] \subseteq wal'[d]
  BY <1>1, <1>3, Zenon DEF DeleteDocument, DeleteInterrupted
<1>4. ASSUME NEW t \in Tasks, Writes(t) \/ CrashInDelete(t)
      PROVE  \/ snap'[d] = snap[d] /\ wal[d] \subseteq wal'[d]
             \/ /\ task[t].doc = d /\ At(t, "c_write")
                /\ Compact(d, task[t].cap, task[t].seq)
             \/ t \in Sessions /\ Replaces(t, d)
  <2>1. task[t] \in TaskState /\ CallOK(task[t]) /\ Rightful(t, task[t])
    BY Zenon DEF Base, StoreBase, CallsOK, DeletionsRightful
  <2>2. CASE UpdateAppend(t) \/ ShareAppend(t)
    <3>1. snap' = snap /\ \E x : wal' = [wal EXCEPT ![task[t].doc] = @ \cup x]
      BY Zenon, <2>2 DEF UpdateAppend, ShareAppend, Append, WalAppend
    <3>2. wal[d] \subseteq wal'[d]
      BY <1>1, <3>1, Zenon
    <3> QED
      BY <3>1, <3>2, Zenon
  <2>3. CASE CompactWrite(t)
    <3>1. Compact(task[t].doc, task[t].cap, task[t].seq) /\ At(t, "c_write")
      BY Zenon, <2>3 DEF CompactWrite
    <3>2. CASE task[t].doc # d
      BY <1>1, <3>1, <3>2, Zenon DEF Compact
    <3> QED
      BY <3>1, <3>2, Zenon
  <2>4. CASE DeleteStored(t) \/ EvictDelete(t)
    <3>1. PICK e : e \notin Durable /\ DeleteDocument(e)
      BY <2>1, <2>4, Zenon DEF DeleteStored, EvictDelete, At, Rightful
    <3> QED
      BY <1>3, <3>1, Zenon
  <2>5. CASE (CrashInDelete(t) \/ DeleteError(t)) /\ ~ At(t, "s_delete")
    <3>1. PICK e : e \notin Durable /\ DeleteInterrupted(e)
      BY <2>1, <2>5, Zenon DEF CrashInDelete, DeleteError, At, Rightful
    <3> QED
      BY <1>3, <3>1, Zenon
  <2>6. CASE At(t, "s_delete") /\ (DeleteDocument(task[t].doc) \/ DeleteInterrupted(task[t].doc))
    <3>1. t \in Sessions
      BY <2>1, <2>6, DaemonAssumption, Zenon DEF At, Rightful, BackgroundPcs, Compaction
    <3>2. "kbshare" \notin Requests => task[t].done # "h_touch"
      BY <2>1, <2>6, DocStoreAssumption, Zenon DEF At, Rightful, NotKbShare, CallOK, HasUpd
    <3> QED
      BY <1>3, <2>6, <3>1, <3>2, Zenon DEF Replaces
  <2> QED
    BY <1>4, <2>2, <2>3, <2>4, <2>5, <2>6, Zenon
       DEF Writes, ShareDelete, CrashInDelete, DeleteError, At
<1> QED
  BY <1>2, <1>4, StorageKept, Zenon

LEMMA LeavesByRequest ==
  ASSUME Base, DeletionsRightful, [Next]_vars, NEW d \in Durable, Exists(d), ~ Exists(d)'
  PROVE  \E s \in Sessions : Replaces(s, d)
<1>1. d \in Docs /\ snap \in [Docs -> Snapshot]
  BY DocStoreAssumption DEF Base, StoreBase, StorageOK, StorageTypeOK
<1>2. ~ (snap'[d] = snap[d] /\ wal[d] \subseteq wal'[d])
  BY DEF Exists, WalTail
<1>3. ASSUME NEW x, NEW y, Compact(d, x, y) PROVE FALSE
  <2>1. snap'[d].present = TRUE
    BY <1>1, <1>3, Zenon DEF Compact
  <2> QED
    BY <2>1, Zenon DEF Exists
<1> QED
  BY <1>2, <1>3, DurableRows, Zenon

\* Whichever requests the clients send, a durable document leaves the disk only in
\* share_doc of a session's call.
DurableLeavesInShare ==
    [][\A d \in Durable :
         Exists(d) /\ ~ Exists(d)' =>
           \E s \in Sessions : task[s].doc = d /\ At(s, "s_delete")]_vars

\* ADR-032 for every instance: neither eviction, nor compaction, nor docs/delete,
\* nor a crash or an error in any of them takes a durable document off the disk.
THEOREM EvictionKeepsDurable == Spec => DurableLeavesInShare
<1>1. Base /\ DeletionsRightful /\ [Next]_vars =>
        [\A d \in Durable :
           Exists(d) /\ ~ Exists(d)' =>
             \E s \in Sessions : task[s].doc = d /\ At(s, "s_delete")]_vars
  BY LeavesByRequest DEF Replaces
<1> QED
  BY <1>1, InitRightful, NextRightful, BaseInvariant, PTL DEF Spec, DurableLeavesInShare

\* Where no client sends kb/share (which looks for the document in memory only), a
\* durable document leaves the disk only when a client replaces it by sync/share or
\* by a reseal or rebirth of kb/node_update.
THEOREM DurableLeavesOnlyOnRequest ==
    ASSUME "kbshare" \notin Requests PROVE Spec => DurableLeavesOnRequest
<1>1. Base /\ DeletionsRightful /\ [Next]_vars =>
        [\A d \in Durable :
           Exists(d) /\ ~ Exists(d)' =>
             \E s \in Sessions :
               /\ task[s].doc = d /\ At(s, "s_delete")
               /\ task[s].done # "h_touch"]_vars
  BY LeavesByRequest DEF Replaces
<1> QED
  BY <1>1, InitRightful, NextRightful, BaseInvariant, PTL DEF Spec, DurableLeavesOnRequest

LEMMA LostByRequest ==
  ASSUME Base, DeletionsRightful, [Next]_vars, NEW d \in Durable,
         NEW u \in LoadState(d) \ LoadState(d)'
  PROVE  \/ \E s \in Sessions : task[s].doc = d /\ At(s, "s_delete")
         \/ \E t \in Tasks :
              /\ task[t].doc = d /\ At(t, "c_write")
              /\ u \notin task[t].cap
              /\ \A w \in wal[d] : w.upd = u => w.id <= task[t].seq
<1>1. /\ d \in Docs /\ snap \in [Docs -> Snapshot] /\ wal \in [Docs -> SUBSET WalEntry]
      /\ \A w \in wal[d] : w.id \in Nat
  BY DocStoreAssumption DEF Base, StoreBase, StorageOK, StorageTypeOK, WalEntry
<1>2. CASE snap'[d] = snap[d] /\ wal[d] \subseteq wal'[d]
  BY <1>2 DEF LoadState, WalTail
<1>3. ASSUME NEW t \in Tasks, task[t].doc = d, At(t, "c_write"),
             Compact(d, task[t].cap, task[t].seq)
      PROVE  u \notin task[t].cap /\ \A w \in wal[d] : w.upd = u => w.id <= task[t].seq
  <2>1. task[t].seq \in Nat
    BY Zenon DEF Base, StoreBase, CallsOK, TaskState
  <2>2. /\ snap'[d].state = task[t].cap /\ snap'[d].walId = task[t].seq
        /\ wal'[d] = {w \in wal[d] : w.id > task[t].seq}
    BY <1>1, <1>3 DEF Compact
  <2>3. u \notin task[t].cap
    BY <2>2, Zenon DEF LoadState
  <2>4. ASSUME NEW w \in wal[d], w.upd = u PROVE w.id <= task[t].seq
    <3>1. ASSUME w.id > task[t].seq PROVE FALSE
      <4>1. w \in WalTail(d)'
        BY <2>2, <3>1 DEF WalTail
      <4> QED
        BY <2>4, <4>1, Zenon DEF LoadState
    <3> QED
      BY <1>1, <2>1, <3>1
  <2> QED
    BY <2>3, <2>4
<1> QED
  BY <1>2, <1>3, DurableRows, Zenon DEF Replaces

\* ADR-032 for every instance: what a restart loads of a durable document shrinks only
\* where a session replaces the document, or where compact_doc writes a state it
\* captured without the update and trims its entry.
THEOREM LossesKnown == Spec => LostByReplaceOrCompaction
<1>1. Base /\ DeletionsRightful /\ [Next]_vars =>
        [\A d \in Durable : \A u \in LoadState(d) \ LoadState(d)' :
           \/ \E s \in Sessions : task[s].doc = d /\ At(s, "s_delete")
           \/ \E t \in Tasks :
                /\ task[t].doc = d /\ At(t, "c_write")
                /\ u \notin task[t].cap
                /\ \A w \in wal[d] : w.upd = u => w.id <= task[t].seq]_vars
  BY LostByRequest
<1> QED
  BY <1>1, InitRightful, NextRightful, BaseInvariant, PTL DEF Spec, LostByReplaceOrCompaction
================================================================================
