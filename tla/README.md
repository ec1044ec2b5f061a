# A TLA+ model of mae's collaboration

mae is a collaborative editor. Its daemon holds the documents that several
editors work on: text buffers that people share for a while, and knowledge bases
(KBs) that outlive every session. This directory models how such a document gets
from one editor to the others and to disk without being lost: the daemon's
document store over SQLite, its handlers, background task and start-up; the way
of an edit from an editor's main thread through its bridge task and a connection
that breaks to the daemon and back; and who is a member of a KB, which every
peer derives for itself from a signed log. Paths below are relative to `src/`.

## The system

| Part | Source | State | What happens to it |
|---|---|---|---|
| SQLite backend | `daemon/src/storage.rs` | a WAL table with one AUTOINCREMENT counter, a snapshot table | append, load, compact (one transaction), delete (two statements) |
| Document store | `daemon/src/doc_store.rs` | a map of documents behind an `RwLock`, each entry behind a `Mutex` | load, apply, compact, share, delete, count clients, evict |
| Handlers | `daemon/src/collab_handler/` | per session: `session_docs` | `sync/*`, `docs/*`, `kb/*` requests |
| Background task | `daemon/src/main.rs` | none | compacts every loaded document, then evicts idle ones |
| Start-up | `main.rs`, `kb_doc_migration.rs` | a plan of documents to migrate | copies legacy node documents to per-KB addresses and removes them, then loads every stored document |
| Broadcaster | `shared/mcp/src/broadcast.rs` | a bounded queue per session | an edit is queued for every other session |
| Client bridge | `crates/mae/src/collab_bridge/`, `sync_broadcast.rs` | command and event channels, marks of rows under way, the connection, `seq_tracker` | sends, receives, reconnects, resyncs |
| Pending queue | `shared/kb/src/cozo_store/kb_store_impl.rs` | rows of KB edits in the editor's store | push, drain, ack |
| Membership log | `shared/sync/src/membership.rs`, `kb/collection_oplog.rs`, handlers of `kb/add_member`, `kb/remove_member`, `kb/revoke`, `kb/set_governance` | a grow-only set of signed, hash-linked operations per KB | append at the head, merge; members and governance are derived |

The daemon runs on a multi-threaded tokio runtime. Each connection is a task that
handles one request at a time; the background task runs beside them. Nothing
serialises two calls on the same document above the two locks of the store, and
no call holds either lock from beginning to end (only a load keeps the map's
lock over its storage call). That is what makes the store hard: a call is a chain
of short critical sections, and any other call can run between two of them. A
document that leaves the map while a task still holds its `Arc` lives on as an
entry nobody else sees. KB documents ("durable") are evicted from memory only;
other documents ("ephemeral") are deleted from disk as well.

An editor has a main thread and a bridge task with a bounded channel each way.
Neither ever waits for room: what finds a channel full is dropped, or left for
the next tick. KB edits and text edits are treated differently: a KB edit is a row in the
editor's store until the daemon has answered it (ADR-020); a text edit is sent
once, and a lost one is repaired by replacing the buffer by the daemon's state.

## Modules

- `Storage`: `wal`, `snap` and `lastId`. A CRDT update is an opaque value and a
  document state the set of updates merged into it, because applying a yrs update
  twice or in another order changes nothing. `DeleteInterrupted` is the state that a
  crash between the two statements of `delete_document` leaves, or an error in the
  second.
- `DocStore` (extends `Storage`): the map `docs` gives each document the address
  of its entry, `heap` holds the entries by document and address, and `task` the
  program counter and locals of the call each task is in. One action is one
  section between two awaits. `log`, `acked` and `wrote` are history: what was
  appended since the document was last destroyed, what was answered, and
  everything ever appended.
- `CollabDaemon` (extends `DocStore`): the requests of the sessions, the
  background task, time passing (`GoIdle`), failing storage calls, and crashes
  followed by recovery.
- `MCCollabDaemon`: symmetry, a view and a constraint for TLC. The view forgets what
  an entry nobody refers to any more held last; it is used where no liveness is
  checked. The constraint keeps to behaviours that use one of the documents.
- `CollabDaemonProofs`, and on top of it `DaemonProvenanceProofs`: theorems about
  `CollabDaemon`.
- `LegacyMigration`: the starts of the daemon on a store from before per-KB
  addresses. `disk` is the snapshot and WAL of each document; `pc`, `plan`,
  `node`, `copy` and `seen` are the locals of `migrate_legacy_node_docs`. Each
  storage call of a document's migration is an action with the ways it can fail.
  `Edit`, `EditManifest` and `EvictIdle` are what the daemon does to these documents
  and manifests between two starts. `MCLegacyMigration` adds the symmetry, `LegacyMigrationProofs` the
  theorems.
- `Outbox`: what ADR-020 promises of the pending queue, in five actions.
- `KbOutbox`: what provides it. The editor's actions are `Enqueue`, the loop of
  `drain_kb_node_updates` row by row, and one action per event it handles; the
  bridge's are the commands with and without a connection, the answers, noticing
  a dead connection, reconnecting and giving up; then the daemon, the network, the
  arrival of a KB's key and a killed editor. `KbOutboxProofs` has the theorems.
- `TextSync`: a text document between editors. `ed`, `br` and `link` are the
  editor, its bridge and its connection; `queue`, `delivered` and `serving` the
  session in the daemon. It composes bridge, connection, session tasks,
  broadcaster and document for any set of editors. `TextSyncProofs` has the
  theorems.
- `Membership`: the derivation of a KB's members as operators without state:
  replay order, what makes a removal effective under a quorum, seats and
  rotations, the capability of an author in an operation's past, and the passes
  of the validity fixpoint with their cut-off.
- `MembershipLog` (extends `Membership`): replicas that sign as someone, append
  at the head of their copy and merge. `Unsigned` and `AppendSigned` are the two
  halves of writing an operation; each request handler is an action.
- `MCMembershipLog`, `MCTwoAdmins`: who signs where, with the owner's replicas and
  without. `MembershipProofs` has the theorems about `MembershipLog`.

### What is abstracted

In all modules: payload encoding and logging are left out, and a crash is the
death of the process, not a power loss (`docs/DAEMON_ADMIN.md` describes what
`synchronous=NORMAL` gives up then).

*Daemon.* Authorisation gates are passed by the caller that is modelled (in
`auth.mode = none` they read nothing). The branch of `load_document` that drops a
snapshot with a wrong hash models disk corruption and is left out. `GoIdle` needs
that no session is in a request on the document: a request takes less than
`idle_eviction_secs`. The scan and the removal of `evict_idle` each hold the map's
lock and are one step. `max_documents = 0` (no limit) is an instance with
`MaxDocuments` above the number of documents. A gate's own read of the collection
is the `read` request.

*Migration.* Compaction of the documents while the daemon serves is left out: it
leaves the union of snapshot and WAL, which the properties are about, alone. The LRU
eviction keeps the disk. A node may be edited whether or not a manifest lists it:
the write path makes no such check (ADR-105 D6).

*KB edits.* A row is its id. `hasKey` stands for an encrypted KB whose key has not
arrived: a daemon-readable KB is the value `TRUE` from the start. An edit whose row
could not be written takes a number and is queued nowhere (`stored` has the rows that
were written); `Outbox` skips such a number. The queue in
memory of an editor without a store is left out.

*Text.* An edit is its author and a number. The buffer is shared in `Init`, where the
answer to the share has set `seq_tracker`; a second editor joins. `Reconnect` is an
attempt of the bridge or a connect command of the user while the connection is down;
the user's other connect and disconnect commands are in `KbOutbox` only. One fact
about time is assumed: the daemon has finished the requests of a dead session when
the next connection is opened. Nothing is assumed of the debounce of forced syncs:
`last_force_sync` outlives a connection, the options allow a reconnect interval
shorter than the debounce and a user need not wait at all, so the sync after a
reconnect may be dropped. The re-queue of local changes that a join finds ahead of
the daemon is left out.

*Membership.* An operation carries the set of hashes on its `prev_hash` chain (what
`ancestors` returns), and a hash is any unused number when the operation is
signed: nobody chooses it, and ties between concurrent operations are broken by
it. Recovery keys, encryption and rebirth operations are left out, and so is the
unsigned roster that the owning daemon consults for its own KBs. `set_role` and
expiry are part of the derivation, but no handler writes them, so the runs do not
reach them. A rotation goes to a key nobody has used before.

## Runs

All bounds are constants of the cfg. `MaxSent` bounds the requests that write,
`MaxCrashes` the crashes; `Gens` the addresses of entries alive at once.

| Run | Instance | Checks |
|---|---|---|
| `daemon_races` | one KB node, two sessions, two updates, every order of updating, resealing, awareness and leaving; failing storage calls, eviction, a crash; or an ephemeral document and one session that updates, deletes and leaves it | `DurableNotMadeUp`, `CutoffSkipsNothing`, `WalFirst`, `DurableLeavesOnRequest`, `LostByReplaceOrCompaction` |
| `daemon_kb` | a collection and a node, one session that shares, joins, fetches, leaves, relays and reads, room for one document in the map, idle eviction | `LostByReplaceOrCompaction` |
| `daemon_reclaim` | one ephemeral document, two sessions that update, share, delete and leave it, a crash, fairness | `TypeOK`, `Reclaimed` |
| `lost_update` | one document, two sessions, an update each, no eviction and no crash | finds `AckedKept` violated |
| `share_clobbers` | a collection, one session that shares it, a restart, idle eviction | finds `DurableLeavesOnRequest` violated |
| `migration` | every store of two legacy nodes and two KBs, two kills, an edit or a changed manifest | `MigrationTypeOK`, `ContentSurvives`, `AmbiguousTouchesNothing`, `GoesToItsKb` |
| `kb_outbox` | two edits, channels of one and two slots, a lost connection, two user commands, a kill, fairness | `OutboxTypeOK`, `NeverLost`, `MarkedIsUnderway`, `Delivered`, and the refinement `IsAnOutbox` |
| `text_sync` | two editors, two edits, a lost connection, an event about something else or a `collab-sync` or `collab-join`, fairness | `TextTypeOK`, `ShownIsShared`, `RemoteArrives`, `ReconnectCatchesUp`, `Settles` |
| `offline_edits` | one editor, one edit typed while its buffer is offline, a lost connection, fairness | finds `DeferredIsSent` violated |
| `membership` | an owner with two replicas, an admin with one, three further operations | `LogTypeOK`, `OwnerStays`, `QuorumProtects`, `RetiredStaysOut`, `MergeKeepsRemovals` |
| `removed_twice` | an owner who admits and removes | finds `RemovedIsOut` violated |
| `passes_cycle` | two admins who rotate and revoke each other, four further operations | finds `PassesSettle` violated |

Why the bounds are enough:

- *Daemon.* Two writers, one compactor and one reload give every race between an
  append, an apply, a compaction and a load: each has two or three participants
  and ends in one load. With room for one document, a session that goes from the
  collection to its node makes room by LRU eviction, also of a document the
  background task is about to compact. Two documents meet only in a full map, which
  is why `daemon_races` may keep to behaviours that use one (`OneDocument`).
- *Migration.* A second node shows that a refusal precedes every write; two kills
  give a start over what an interrupted start left, and one over what that start
  and an edit made of it.
- *KB edits.* A command channel of one slot is full in the middle of a drain of two
  rows, and an event channel of two overflows. One connection that breaks, is
  opened again, and two commands of the user leave a row sent twice; a kill falls
  between any two steps of a row.
- *Text.* One editor types while the other joins or resyncs; a queue of one event
  overflows; the one event about something else makes the gap that asks for a
  resync while a notification is under way.
- *Membership.* `MaxOps` bounds the operations. Three after the founding ones give
  a removal, what its subject does beside it and a third party's view of both; the
  owner's second replica goes on signing with a key the first has rotated away. The
  properties of one copy look at one replica (`Watched`): a copy holds all that its
  writers held when they wrote, so the watched replica can merge it in a behaviour in
  which nothing else is written.

No run checks deadlock: every behaviour ends when its bounds are used up, and in
`migration` a daemon that refused to start rests.

`AckedKept` fails in the code as it is (`lost_update`), so the passing runs say what is
left of it: `LostByReplaceOrCompaction` names the two steps at which the stored state
of a KB document can shrink, and denies it of all others.

`DurableLeavesOnRequest` holds where nobody sends `kb/share` (`daemon_races`, and the
theorem below) and fails where somebody does (`share_clobbers`).

`PassesSettle`: the validity fixpoint of the membership log stops after a fixed
number of passes, and a pass can revive an operation the one before dropped. Two
admins who each rotate and revoke the other beside it give a log on which the passes
go round for ever. `RetiredStaysOut` is therefore stated of logs on which they come
to rest (`Settled`); `OwnerStays` and `QuorumProtects` need no such premise.

`QuorumProtects` counts keys, as `effective_removal` does. The comments at
`membership.rs:642` and `:821` and ADR-026 speak of admins: "counting distinct authors
counts distinct admins". That is so while nobody rotates. An admin who revokes
another, rotates and revokes again has signed with two keys, and reaches a quorum of
two alone; the log takes six operations, one more than the run has.

Two properties have a premise worth knowing. `MarkedIsUnderway` and `Delivered`
except an editor that `missed` an event because the channel was full, or that was
told to connect while connected: its marks stay until the next disconnection, and
the rows with them (`NeverLost` has no such exception). The properties of
`TextSync` except the editors in `lossy`, for which something met a full channel
or queue: no code notices that, see below. All but `RemoteArrives` also except an
editor whose sync after the last reconnect fell into the debounce (`Skipped`).
`Settles` says that resyncs end: a gap asks for a resync, whose answer may cross
another gap, and from some point on nothing is under way any more.

### Fairness

- Daemon (`FairSpec` of `CollabDaemon`): the runtime schedules every task that can
  go on, the interval timer fires, time passes. Nothing is assumed of clients.
- `KbOutbox`: the editor's loop and the bridge's `select!` take what is ready, the
  daemon answers requests that arrive. Nothing is assumed of the user, of
  reconnecting or of the key; `Delivered` supposes that the connection stays up at
  last.
- `TextSync`: as long as the editors' loops, the bridges and the sessions of the
  daemon have something to do, one of them does something. That is less than
  fairness of each, which the code has; it is enough, since each such step brings
  the end nearer. `Settles` supposes that the connections stay up at last, and
  nothing of reconnecting.

## Proofs

The theorems hold for every value of the constants under the assumptions named in
the modules that declare them.

`CollabDaemonProofs`: `BaseInvariant`, `TypeCorrect` (`TypeOK`) and
`NothingSkipped` (`CutoffSkipsNothing`). `CutoffSkipsNothing` is not inductive: a
compaction writes a cutoff that was captured steps earlier, so one needs that
every captured sequence number, every `wal_seq` in an entry (in the map or
orphaned) and every id in a task's locals is at most `lastId`. `Base` adds that,
and what a task holds at each program counter (a reference when it is about to
lock, an update when it is about to append).

`DaemonProvenanceProofs`: `ProvenanceInvariant`, `WrittenFirst` (`WalFirst`) and
`NeverMadeUp` (`DurableNotMadeUp`). What is in the map's entry of a document may
come from its snapshot, its WAL, a call that is about to apply, or an entry it was
copied from; so `Provenance` says of every update in a snapshot, in the WAL, in any
entry (reachable or orphaned) and in the state a compaction has captured that it
was once appended to the WAL of the same document, and of every durable document
that exists in memory or on disk that something was appended for it, as long as
`kb/node_fetch`, an authorised read that may create a document, is not among the
requests. `Base` is used for what each call holds. Three action properties follow from
what each call is doing: `EvictionKeepsDurable` (with every request allowed, only
`share_doc` takes a durable document off the disk) and `DurableLeavesOnlyOnRequest`
(`DurableLeavesOnRequest`, for instances without `kb/share`, which does remove it), and
`LossesKnown` (`LostByReplaceOrCompaction`, with every request allowed). The last goes
over the steps that write to the disk: an append adds, a deletion in `share_doc` is
one of the two cases, deletions by eviction and `docs/delete` concern ephemeral
documents (`Rightful` says so of every task about to delete), and a compaction keeps
what it captured and every WAL entry above its cutoff.

`LegacyMigrationProofs`: `MigrationKeepsContent` (`ContentSurvives`),
`MigrationRefuses` (`AmbiguousTouchesNothing`), `MigrationScopes` (`GoesToItsKb`) and
`MigrationTypeCorrect` (`MigrationTypeOK`) from `MigrationInvariant`. Its added
conjuncts: `CopyFirst` (a legacy document that is there holds everything its node
ever held, so the new address can be cleared; what is about to be removed has been
written there), `PlanOwned` (what is planned has one KB that lists it among the
manifests read) and `HaltsOrClear` (a start that goes on has seen no ambiguous node).

`KbOutboxProofs`: `OutboxLosesNothing` (`NeverLost`), `OutboxKeepsNoMark`
(`MarkedIsUnderway`), `OutboxTypeCorrect` (`OutboxTypeOK`) and `OutboxRefines`:
`KbOutbox` implements `Outbox` with `last <- counter` and `queued <- rows`. The
inductive invariant is `Sound /\ Numbered /\ NeverLost /\ MarkedIsUnderway`, where
`Numbered` says that rows are among the stored and these were numbered, and `Sound`
that every row on any channel was numbered, and that every answer and every
`acked` or `failed` event speaks of a row the daemon has applied or refused: a row
is removed on the word of an event that may be many steps old.

`TextSyncProofs`: `ShownIsAlwaysShared` (`ShownIsShared`), `RemoteAlwaysArrives`
(`RemoteArrives`), `ReconnectAlwaysCatchesUp` (`ReconnectCatchesUp`) and
`TextTypeCorrect` (`TextTypeOK`), for any editors, edits, capacities and lost
connections. The properties speak of moments when nothing is under way, so the
invariant `TextInv` says what is under way at all others: `Known` and `Fits` type the
channels, `Proper` ties each editor to its bridge and session, and `Tracked`, of every
editor not in `lossy`, has five parts. `Noticed`: the loss of a connection reaches the
editor before the next connection does. `Accounted`: an edit in the buffer is in the
document, or on its way there, or the buffer is going to be replaced (by the answer to
a forced sync: the answer to a join is merged into an open buffer), or the debounce
has dropped the sync after the reconnect. `CaughtUp`: when
no state is being asked for, and the debounce has dropped none, a buffer, now or after any event in the channel, has what
the document held at the last connect or is replaced by a later event. `Heard`: an edit
of another that such a buffer lacks comes after it. `Answers`: one that an answer on
the connection lacks comes after the answer. The assumption `TextAssumption` includes
that `None` is no edit.

`MembershipProofs`: `LogTypeCorrect` (`LogTypeOK`), `OwnerAlwaysStays` (`OwnerStays`),
`QuorumAlwaysProtects` (`QuorumProtects`) and `RetiredAlwaysOut` (`RetiredStaysOut`),
for any principals, replicas, founders, quorums and number of operations. `LogInv`
says that hashes are unique over all copies, that every copy has the whole past of
its operations back to the genesis, that this past is a chain, and that a rotation
goes to a key that signed nothing in its past. The derivation
is a set of recursive functions over finite sets and sequences; each induction picks a
least counterexample from a well-founded order instead of using the library's
induction schemes. The owner's seat is followed along its chain of rotations, whose
length is bounded by the log, to an identity that is a member; removals under a quorum
are counted by the keys that signed them.

Model-checked only:

- liveness (`Reclaimed`, `Delivered`, `Settles`), which the prover does not do;
- `MergeKeepsRemovals`: it compares the derivations before and after a merge, and a
  proof would need an induction over both replays in step;
- `AckedKept`, `RemovedIsOut`, `PassesSettle` and `DeferredIsSent`, which are violated.

## Findings

See PROJECT.json for the quotations.

1. An answered update can be lost. Of two updates of a document the one appended
   second is applied first and captured by a compaction; the other is applied and
   answered; the compaction then trims the WAL entries of both (`lost_update`).
2. A member who was removed, admitted again and removed again is still derived as
   a member: `effective_removal` only ever returns the first removal
   (`removed_twice`).
3. A text edit typed in a buffer that is offline is kept for the time the buffer is
   synced again, as the comment promises, and then discarded by the forced sync that
   follows reconnecting (`offline_edits`).
4. The passes that decide which membership operations are valid need not come to
   rest: on a log of two admins they cycle with period four, and the members are
   those of the pass at which the loop is cut off (`passes_cycle`).
5. `kb/share` of a collection that idle eviction has left on disk deletes and replaces
   it, though the comment says that a re-share preserves it (`share_clobbers`).

### Limits the models show

What the properties except, and why:

- `connected_clients` is not always the number of clients (INV-5 of
  `docs/SYNC_PROTOCOL.md`): `sync/awareness` and `kb/register` make a session
  disconnect from a document it was not counted on, an entry that is replaced or
  loaded again starts anew, a count may go to an entry that has left the map, and
  `kb/leave` forgets a document without counting down. No property states the count
  therefore; those above hold whatever it is.
- An ephemeral document that makes room for another stays on disk until it is loaded
  again, and what a compaction under way writes back of a deleted document stays,
  too. `Reclaimed` excepts the second and is checked without the first. A failed
  deletion by `evict_idle` leaves the document as well: the run has no failing calls.
- An update that reaches an ephemeral document between its eviction from memory and
  its deletion from disk is deleted with it.
- Removing the identity a member rotated into has no effect: `build_members` looks
  for removals of whom an admit names, not of whom the seat was handed to.
- A legacy document that a failed call left in place stays at an address that is not
  durable: recovery loads it and idle eviction deletes it. Until then the next start
  copies it over the new document, edits served in between included; one that was
  deleted by half overwrites it with the rest. A manifest that cannot be read hides
  an ambiguity: the node goes to the KB that is left.
- The number of a notification counts what the session delivered, so a gap is seen
  when events of another kind were delivered in between, and is not seen when the
  broadcaster passed over a full queue.
- After a reconnect a buffer is resynced once, but `shared_docs` stays empty until
  the next join: later notifications of the document are ignored.
  `ReconnectCatchesUp` says what the editor does get. If the debounce drops that one
  resync, the buffer keeps an edit that was lost with the connection, and lacks what
  the others wrote, until the user asks for a sync.

## Not modelled

- *Edit leases*: advisory, compared with the wall clock of whoever reads them, and
  merged as a CRDT map. With one clock and one replica exclusion is immediate; with
  several the code promises nothing to check.
- *The cache of derived membership* and the blocklists: an insertion computed before
  a concurrent invalidation is a hazard (see PROJECT.json) that needs the derivation
  and the store in one model, out of reach of the runs' bounds.
- *Save coordination*: epochs are handed out and passed on, and never compared.
- *Sharing a buffer, awareness, the other KB commands of the bridge*, and the
  in-memory queue of an editor without a store.
- *P2P, dialer, lazy fetch*: a relayed update is a request of `CollabDaemon`, and the
  redial loop repeats the bridge's.
- *Projector, backup, quotas, tokens, scheduler*: one-way consumers, file copies,
  counters and cryptographic checks.
- *Editor core, renderers, Scheme, parsers, LSP, DAP, AI*: sequential programs,
  drawing and parsing. They are most of the repository's lines, and what is hard
  about them is not an order of steps.
