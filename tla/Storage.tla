-------------------------------- MODULE Storage --------------------------------
(***************************************************************************)
(* The SQLite backend of the collab daemon (daemon/src/storage.rs): one    *)
(* table of WAL entries and one of compaction snapshots.                   *)
(*                                                                         *)
(* Every call takes the mutex of the document's shard and runs to the end  *)
(* without awaiting, so one call is one step.  A CRDT update is an opaque  *)
(* member of Updates and a document state the set of updates merged into   *)
(* it: applying an update again, or in another order, changes nothing,     *)
(* which is what yrs guarantees and the daemon relies on.                  *)
(***************************************************************************)
EXTENDS Integers, FiniteSets

CONSTANTS
    Docs,       \* document names
    Updates     \* CRDT updates the clients send

VARIABLES
    snap,       \* snapshots: one row per document
    wal,        \* wal: the entries of each document
    lastId      \* the AUTOINCREMENT counter, shared by all documents

storageVars == <<snap, wal, lastId>>

Snapshot == [present : BOOLEAN, state : SUBSET Updates, walId : Nat]

WalEntry == [id : Nat, upd : Updates]

\* No row: an empty state and a cutoff of 0, as load_document takes them.
NoSnapshot == [present |-> FALSE, state |-> {}, walId |-> 0]

StorageTypeOK ==
    /\ snap \in [Docs -> Snapshot]
    /\ wal \in [Docs -> SUBSET WalEntry]
    /\ lastId \in Nat

StorageInit ==
    /\ snap = [d \in Docs |-> NoSnapshot]
    /\ wal = [d \in Docs |-> {}]
    /\ lastId = 0

(***************************************************************************)
(* load_document: the snapshot and the WAL entries after its cutoff.       *)
(***************************************************************************)
WalTail(d) == {w \in wal[d] : w.id > snap[d].walId}

LoadState(d) == snap[d].state \cup {w.upd : w \in WalTail(d)}

\* The id of the last entry replayed; 0 when the tail is empty.
LastReplayed(d) ==
    IF WalTail(d) = {} THEN 0
    ELSE CHOOSE i \in {w.id : w \in WalTail(d)} :
            \A w \in WalTail(d) : w.id <= i

Exists(d) == snap[d].present \/ WalTail(d) # {}

(***************************************************************************)
(* wal_append: the id is above every id given out before.                  *)
(***************************************************************************)
\* Mutant: ids without AUTOINCREMENT, above the ids still in the table only.
WalAppendReusingIds(d, u) ==
    LET used == {0} \cup UNION {{w.id : w \in wal[x]} : x \in Docs}
        top == CHOOSE i \in used : \A j \in used : j <= i
    IN /\ lastId' = lastId + 1
       /\ wal' = [wal EXCEPT ![d] = @ \cup {[id |-> top + 1, upd |-> u]}]
       /\ UNCHANGED snap

WalAppend(d, u) ==
    /\ lastId' = lastId + 1
    /\ wal' = [wal EXCEPT ![d] = @ \cup {[id |-> lastId + 1, upd |-> u]}]
    /\ UNCHANGED snap

(***************************************************************************)
(* compact: replace the snapshot and trim the WAL in one transaction.      *)
(***************************************************************************)
\* Mutant: the DELETE without its bound on the id.
CompactTrimmingAll(d, state, upTo) ==
    /\ snap' = [snap EXCEPT ![d] =
                  [present |-> TRUE, state |-> state, walId |-> upTo]]
    /\ wal' = [wal EXCEPT ![d] = {}]
    /\ UNCHANGED lastId

Compact(d, state, upTo) ==
    /\ snap' = [snap EXCEPT ![d] =
                  [present |-> TRUE, state |-> state, walId |-> upTo]]
    /\ wal' = [wal EXCEPT ![d] = {w \in @ : w.id > upTo}]
    /\ UNCHANGED lastId

(***************************************************************************)
(* delete_document: two DELETE statements with no transaction around them. *)
(* No other call can come between them; a crash can, and the second can    *)
(* fail.                                                                   *)
(***************************************************************************)
DeleteDocument(d) ==
    /\ snap' = [snap EXCEPT ![d] = NoSnapshot]
    /\ wal' = [wal EXCEPT ![d] = {}]
    /\ UNCHANGED lastId

DeleteInterrupted(d) ==
    /\ snap' = [snap EXCEPT ![d] = NoSnapshot]
    /\ UNCHANGED <<wal, lastId>>

================================================================================
