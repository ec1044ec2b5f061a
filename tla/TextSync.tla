-------------------------------- MODULE TextSync --------------------------------
(***************************************************************************)
(* A text buffer that several editors have open, and the document behind   *)
(* it in the daemon.  Per editor: the main thread, the bridge task and the *)
(* connection; in the daemon: a session task per connection, whose bounded *)
(* event queue the broadcaster fills.  An edit is <<author, number>> and a *)
(* buffer, or the document, the set of edits merged into it.               *)
(***************************************************************************)
EXTENDS Naturals, Sequences, FiniteSets

CONSTANTS
    Clients,    \* editors
    Sharer,     \* the editor that has shared the buffer
    None,       \* no edit
    ShareSeq,   \* wal_seq of the answer to the share
    QueueCap,   \* DEFAULT_QUEUE_CAPACITY, the events waiting for a session
    CmdCap,     \* collab_command_queue_size
    EvtCap,     \* COLLAB_EVT_CHANNEL_CAP
    MaxEdits,   \* bound: edits in one behaviour
    MaxNudges,  \* bound: events about something else, and commands of the users
    MaxBreaks   \* bound: connections that break

ASSUME TextAssumption ==
    /\ Sharer \in Clients
    /\ {ShareSeq, QueueCap, CmdCap, EvtCap} \subseteq Nat \ {0}
    /\ {MaxEdits, MaxNudges, MaxBreaks} \subseteq Nat
    /\ None \notin Clients \X (1 .. MaxEdits)

VARIABLES
    ed,         \* per editor: its buffer and what it knows of the connection
    cmds,       \* per editor: commands to the bridge
    evts,       \* per editor: events from the bridge
    br,         \* per editor: the bridge's shared_docs, seq_tracker, last_force_sync;
                \* history: the ForceSync after the last reconnect is due, done or skipped
    link,       \* per editor: the connection is up, broken (unnoticed) or down
    out,        \* per connection: requests
    back,       \* per connection: answers and notifications
    doc,        \* the document
    serving,    \* per session: the edit it has applied and not yet broadcast
    queue,      \* per session: edits to notify its client of
    delivered,  \* per session: events_delivered
    lossy,      \* history: the editors for which something met a full channel
    base,       \* history: per editor, the document when it last connected
    typed, nudges, breaks   \* what the bounds count

editorVars == <<ed, typed>>
bridgeVars == <<br, link, base, breaks>>
wireVars == <<out, back>>
daemonVars == <<doc, serving, queue, delivered>>
vars == <<editorVars, cmds, evts, bridgeVars, wireVars, daemonVars, lossy, nudges>>

Edits == Clients \X (1 .. MaxEdits)

TextTypeOK ==
    /\ ed \in [Clients -> [open : BOOLEAN, buf : SUBSET Edits, pending : Seq(Edits),
                           synced : BOOLEAN, offline : BOOLEAN, connected : BOOLEAN,
                           slot : {"none", "join", "sync"}, again : BOOLEAN]]
    /\ \A c \in Clients :
         /\ Len(cmds[c]) <= CmdCap /\ Len(evts[c]) <= EvtCap /\ Len(queue[c]) <= QueueCap
         /\ ed[c].synced => ed[c].open
    /\ br \in [Clients -> [shared : BOOLEAN, seq : Nat, recent : BOOLEAN,
                           force : {"due", "done", "skipped"}]]
    /\ link \in [Clients -> {"up", "broken", "down"}]
    /\ doc \subseteq Edits
    /\ serving \in [Clients -> Edits \cup {None}]
    /\ delivered \in [Clients -> Nat]

\* One editor has shared the buffer; the users of the others have asked to join.
Init ==
    /\ ed = [c \in Clients |->
               [open |-> c = Sharer, buf |-> {}, pending |-> <<>>, synced |-> c = Sharer,
                offline |-> FALSE, connected |-> TRUE,
                slot |-> IF c = Sharer THEN "none" ELSE "join", again |-> FALSE]]
    /\ cmds = [c \in Clients |-> <<>>] /\ evts = [c \in Clients |-> <<>>]
    /\ br = [c \in Clients |->
               [shared |-> c = Sharer, seq |-> IF c = Sharer THEN ShareSeq ELSE 0,
                recent |-> FALSE, force |-> "done"]]
    /\ link = [c \in Clients |-> "up"]
    /\ out = [c \in Clients |-> <<>>] /\ back = [c \in Clients |-> <<>>]
    /\ doc = {} /\ serving = [c \in Clients |-> None]
    /\ queue = [c \in Clients |-> <<>>] /\ delivered = [c \in Clients |-> 0]
    /\ lossy = {}
    /\ base = [c \in Clients |-> {}]
    /\ typed = 0 /\ nudges = 0 /\ breaks = 0

--------------------------------------------------------------------------------
(***************************************************************************)
(* The editor's main thread.                                               *)
(***************************************************************************)
Edit(c, fields) == ed' = [ed EXCEPT ![c] = fields]

\* Mutant: the channel has no limit.
SendAll(c, s) == cmds' = [cmds EXCEPT ![c] = @ \o s] /\ UNCHANGED lossy

\* try_send on the command channel: what does not fit is dropped.
Send(c, s) ==
    LET room == CmdCap - Len(cmds[c])
        n == IF Len(s) <= room THEN Len(s) ELSE room
    IN /\ cmds' = [cmds EXCEPT ![c] = @ \o SubSeq(s, 1, n)]
       /\ lossy' = IF n < Len(s) THEN lossy \cup {c} ELSE lossy

\* sync_insert, sync_delete
Type(c) ==
    /\ ed[c].open /\ typed < MaxEdits
    /\ LET e == <<c, typed + 1>>
       IN Edit(c, [ed[c] EXCEPT !.buf = @ \cup {e}, !.pending = Append(@, e)])
    /\ typed' = typed + 1
    /\ UNCHANGED <<cmds, evts, bridgeVars, wireVars, daemonVars, lossy, nudges>>

\* drain_and_broadcast: nothing is taken from a buffer that is not synced.
DrainUpdates(c) ==
    /\ ed[c].pending # <<>> /\ ed[c].synced
    /\ Send(c, [i \in 1 .. Len(ed[c].pending) |->
                  [kind |-> "update", edit |-> ed[c].pending[i]]])
    /\ Edit(c, [ed[c] EXCEPT !.pending = <<>>])
    /\ UNCHANGED <<evts, bridgeVars, wireVars, daemonVars, typed, nudges>>

\* collab-join and collab-sync fill the one slot of pending_intent.
Ask(c, intent) ==
    /\ nudges < MaxNudges /\ nudges' = nudges + 1
    /\ Edit(c, [ed[c] EXCEPT !.slot = intent])
    /\ UNCHANGED <<cmds, evts, bridgeVars, wireVars, daemonVars, lossy, typed>>

Join(c) == Ask(c, "join")

AskSync(c) == ed[c].open /\ Ask(c, "sync")

\* Mutant: the intents are read and not taken.
DrainIntentKeeping(c) ==
    /\ ed[c].slot # "none" \/ ed[c].again
    /\ Send(c, <<[kind |-> IF ed[c].slot = "none" THEN "sync" ELSE ed[c].slot,
                  edit |-> None]>>)
    /\ UNCHANGED <<ed, evts, bridgeVars, wireVars, daemonVars, typed, nudges>>

\* drain_collab_intents: the slot first, then what reconnecting has queued.
DrainIntent(c) ==
    /\ ed[c].slot # "none" \/ ed[c].again
    /\ Send(c, <<[kind |-> IF ed[c].slot = "none" THEN "sync" ELSE ed[c].slot,
                  edit |-> None]>>)
    /\ Edit(c, IF ed[c].slot # "none" THEN [ed[c] EXCEPT !.slot = "none"]
               ELSE [ed[c] EXCEPT !.again = FALSE])
    /\ UNCHANGED <<evts, bridgeVars, wireVars, daemonVars, typed, nudges>>

\* handle_collab_event
Event(c, kind) ==
    /\ evts[c] # <<>> /\ Head(evts[c]).kind = kind
    /\ evts' = [evts EXCEPT ![c] = Tail(@)]
    /\ UNCHANGED <<cmds, bridgeVars, wireVars, daemonVars, lossy, typed, nudges>>

\* Mutant: the buffers that were offline are not synchronised again.
HandleConnectedOnly(c) ==
    /\ Event(c, "connected")
    /\ Edit(c, [ed[c] EXCEPT !.connected = TRUE,
                             !.synced = @ \/ ed[c].offline])

\* handle_connected_event: a buffer that was offline is synced again, and a
\* ForceSync of it is queued.
HandleConnected(c) ==
    /\ Event(c, "connected")
    /\ Edit(c, [ed[c] EXCEPT !.connected = TRUE,
                             !.synced = @ \/ ed[c].offline,
                             !.again = @ \/ ed[c].offline])

HandleDisconnected(c) ==
    /\ Event(c, "disconnected")
    /\ Edit(c, [ed[c] EXCEPT !.connected = FALSE, !.synced = FALSE,
                             !.offline = @ \/ ed[c].open])

\* handle_remote_update_event: an update for a buffer that is not open is dropped.
HandleRemote(c) ==
    /\ Event(c, "remote")
    /\ Edit(c, IF ed[c].open
               THEN [ed[c] EXCEPT !.buf = @ \cup {Head(evts[c]).edit}, !.offline = FALSE]
               ELSE ed[c])

HandleGap(c) ==
    /\ Event(c, "gap")
    /\ Edit(c, [ed[c] EXCEPT !.slot = "sync"])

\* load_sync_state replaces the buffer and clears its queue.
Loaded(c) ==
    [ed[c] EXCEPT !.open = TRUE, !.buf = Head(evts[c]).state, !.pending = <<>>,
                  !.synced = TRUE]

\* The answer to a join is merged into a buffer that is open already.
HandleJoined(c) ==
    /\ Event(c, "joined")
    /\ Edit(c, IF ed[c].open
               THEN [ed[c] EXCEPT !.buf = @ \cup Head(evts[c]).state, !.synced = TRUE]
               ELSE Loaded(c))

\* The answer to a ForceSync replaces it.
HandleResynced(c) ==
    /\ Event(c, "resynced")
    /\ Edit(c, Loaded(c))

HandleEvent(c) ==
    \/ HandleConnected(c) \/ HandleDisconnected(c) \/ HandleRemote(c) \/ HandleGap(c)
    \/ HandleJoined(c) \/ HandleResynced(c)

\* One turn of the main loop does some of these.
EditorStep(c) == DrainUpdates(c) \/ DrainIntent(c) \/ HandleEvent(c)

--------------------------------------------------------------------------------
(***************************************************************************)
(* The bridge.                                                             *)
(***************************************************************************)
Plain(kind) == [kind |-> kind, edit |-> None, state |-> {}]

\* try_send_evt, for one or more events
Report(c, es) ==
    LET room == EvtCap - Len(evts[c])
        n == IF Len(es) <= room THEN Len(es) ELSE room
    IN /\ evts' = [evts EXCEPT ![c] = @ \o SubSeq(es, 1, n)]
       /\ lossy' = IF n < Len(es) THEN lossy \cup {c} ELSE lossy

Request(c, r) == out' = [out EXCEPT ![c] = Append(@, r)]

Command(c, kind) ==
    /\ cmds[c] # <<>> /\ Head(cmds[c]).kind = kind
    /\ cmds' = [cmds EXCEPT ![c] = Tail(@)]
    /\ UNCHANGED <<editorVars, evts, link, base, breaks, back, daemonVars, lossy, nudges>>

\* SendUpdate: without a connection, or when the write fails, the update is dropped.
SendUpdate(c) ==
    /\ Command(c, "update")
    /\ \/ link[c] # "down" /\ Request(c, Head(cmds[c]))
       \/ link[c] # "up" /\ UNCHANGED out
    /\ UNCHANGED br

\* ForceSync: dropped within collab_force_sync_debounce_secs of the one before.  The
\* options allow a debounce longer than the wait before a reconnect.
SendSync(c) ==
    /\ Command(c, "sync")
    /\ \/ /\ link[c] = "up" /\ Request(c, Head(cmds[c]))
          /\ br' = [br EXCEPT ![c].recent = TRUE, ![c].force = "done"]
       \/ /\ br[c].recent /\ link[c] = "up" /\ UNCHANGED out
          /\ br' = [br EXCEPT ![c].force = IF @ = "due" THEN "skipped" ELSE @]
       \/ /\ link[c] # "up" /\ UNCHANGED out
          /\ br' = [br EXCEPT ![c].recent = @ \/ link[c] = "broken"]

\* JoinDoc: the document is listened to from the moment the request is written.
SendJoin(c) ==
    /\ Command(c, "join")
    /\ IF link[c] = "up" THEN Request(c, Head(cmds[c])) ELSE UNCHANGED out
    /\ br' = [br EXCEPT ![c].shared = @ \/ link[c] = "up"]

\* handle_response for JoinDoc and ForceSync; sync/resync answers without a wal_seq,
\* so neither touches seq_tracker.
ReceiveState(c) ==
    /\ back[c] # <<>> /\ Head(back[c]).kind \in {"joined", "resynced"}
    /\ back' = [back EXCEPT ![c] = Tail(@)]
    /\ Report(c, <<[Plain(Head(back[c]).kind) EXCEPT !.state = Head(back[c]).state]>>)
    /\ UNCHANGED <<editorVars, cmds, bridgeVars, out, daemonVars, nudges>>

\* handle_incoming_message for notifications/sync_update, with check_seq_gap: what
\* is compared is the number of the notification in its session.
ReceiveUpdate(c) ==
    /\ back[c] # <<>> /\ Head(back[c]).kind = "update"
    /\ back' = [back EXCEPT ![c] = Tail(@)]
    /\ LET m == Head(back[c])
           update == [Plain("remote") EXCEPT !.edit = m.edit]
           gap == br[c].seq # 0 /\ m.seq > br[c].seq + 1
       IN IF br[c].shared
          THEN /\ Report(c, (IF gap THEN <<Plain("gap")>> ELSE <<>>) \o <<update>>)
               /\ br' = [br EXCEPT ![c].seq = m.seq]
          ELSE UNCHANGED <<evts, lossy, br>>
    /\ UNCHANGED <<editorVars, cmds, link, base, breaks, out, daemonVars, nudges>>

NoticeBreak(c) ==
    /\ link[c] = "broken"
    /\ link' = [link EXCEPT ![c] = "down"]
    /\ br' = [br EXCEPT ![c].shared = FALSE, ![c].seq = 0]
    /\ out' = [out EXCEPT ![c] = <<>>] /\ back' = [back EXCEPT ![c] = <<>>]
    /\ Report(c, <<Plain("disconnected")>>)
    /\ UNCHANGED <<editorVars, cmds, base, breaks, daemonVars, nudges>>

\* A reconnect attempt, or the user's connect command, succeeds; the daemon is done
\* with the old session by then.  last_force_sync outlives the connection.
Reconnect(c) ==
    /\ link[c] = "down" /\ serving[c] = None
    /\ link' = [link EXCEPT ![c] = "up"]
    /\ br' = [br EXCEPT ![c].force = "due"]
    /\ queue' = [queue EXCEPT ![c] = <<>>] /\ delivered' = [delivered EXCEPT ![c] = 0]
    /\ base' = [base EXCEPT ![c] = doc]
    /\ Report(c, <<Plain("connected")>>)
    /\ UNCHANGED <<editorVars, cmds, breaks, wireVars, doc, serving, nudges>>

BridgeStep(c) ==
    \/ SendUpdate(c) \/ SendSync(c) \/ SendJoin(c)
    \/ ReceiveState(c) \/ ReceiveUpdate(c) \/ NoticeBreak(c)

--------------------------------------------------------------------------------
(***************************************************************************)
(* The daemon: a session handles a request to its end before it looks at   *)
(* the next request or at its event queue.                                 *)
(***************************************************************************)
Served(c, kind) ==
    /\ serving[c] = None
    /\ out[c] # <<>> /\ Head(out[c]).kind \in kind
    /\ out' = [out EXCEPT ![c] = Tail(@)]
    /\ UNCHANGED <<editorVars, cmds, bridgeVars, evts, delivered, nudges>>

\* broadcast_except: a session whose queue is full is passed over.
Broadcast(c, e) ==
    LET to == {d \in Clients \ {c} : link[d] = "up"}
        full == {d \in to : Len(queue[d]) = QueueCap}
    IN /\ queue' = [d \in Clients |-> IF d \in to \ full THEN Append(queue[d], e)
                                      ELSE queue[d]]
       /\ lossy' = lossy \cup full

\* sync/update
ServeUpdate(c) ==
    /\ Served(c, {"update"})
    /\ doc' = doc \cup {Head(out[c]).edit}
    /\ serving' = [serving EXCEPT ![c] = Head(out[c]).edit]
    /\ UNCHANGED <<queue, back, lossy>>

ServeBroadcast(c) ==
    /\ serving[c] # None
    /\ Broadcast(c, serving[c])
    /\ serving' = [serving EXCEPT ![c] = None]
    /\ UNCHANGED <<editorVars, cmds, evts, bridgeVars, wireVars, doc, delivered, nudges>>

\* sync/full_state and sync/resync answer with the document's whole state.
ServeState(c) ==
    /\ Served(c, {"sync", "join"})
    /\ back' = IF link[c] = "up"
               THEN [back EXCEPT ![c] =
                       Append(@, [kind |-> IF Head(out[c]).kind = "join" THEN "joined"
                                           ELSE "resynced",
                                  edit |-> None, seq |-> 0, state |-> doc])]
               ELSE back
    /\ UNCHANGED <<doc, serving, queue, lossy>>

\* run_session: an event goes out under the number of events delivered so far.
Deliver(c) ==
    /\ serving[c] = None /\ queue[c] # <<>> /\ link[c] = "up"
    /\ queue' = [queue EXCEPT ![c] = Tail(@)]
    /\ delivered' = [delivered EXCEPT ![c] = @ + 1]
    /\ back' = [back EXCEPT ![c] = Append(@, [kind |-> "update", edit |-> Head(queue[c]),
                                             seq |-> delivered[c] + 1, state |-> {}])]
    /\ UNCHANGED <<editorVars, cmds, evts, bridgeVars, out, doc, serving, nudges, lossy>>

\* An event about something else (a peer, a cursor, another document) is delivered.
DeliverOther(c) ==
    /\ serving[c] = None /\ link[c] = "up" /\ nudges < MaxNudges
    /\ delivered' = [delivered EXCEPT ![c] = @ + 1]
    /\ nudges' = nudges + 1
    /\ UNCHANGED <<editorVars, cmds, evts, bridgeVars, wireVars, doc, serving, queue,
                   lossy>>

\* Mutant: the edit is broadcast before it is applied.
DaemonStepBroadcastFirst(c) ==
    \/ /\ Served(c, {"update"})
       /\ serving' = [serving EXCEPT ![c] = Head(out[c]).edit]
       /\ Broadcast(c, Head(out[c]).edit)
       /\ UNCHANGED <<doc, back>>
    \/ /\ serving[c] # None
       /\ doc' = doc \cup {serving[c]}
       /\ serving' = [serving EXCEPT ![c] = None]
       /\ UNCHANGED <<editorVars, cmds, evts, bridgeVars, wireVars, queue, delivered,
                      nudges, lossy>>
    \/ ServeState(c) \/ Deliver(c)

DaemonStep(c) == ServeUpdate(c) \/ ServeBroadcast(c) \/ ServeState(c) \/ Deliver(c)

Break(c) ==
    /\ link[c] = "up" /\ breaks < MaxBreaks
    /\ link' = [link EXCEPT ![c] = "broken"]
    /\ queue' = [queue EXCEPT ![c] = <<>>]
    /\ breaks' = breaks + 1
    /\ UNCHANGED <<editorVars, cmds, evts, br, base, wireVars, doc, serving, delivered,
                   nudges, lossy>>

Next == \E c \in Clients :
    \/ Type(c) \/ Join(c) \/ AskSync(c) \/ EditorStep(c)
    \/ BridgeStep(c) \/ Reconnect(c)
    \/ DaemonStep(c) \/ DeliverOther(c)
    \/ Break(c)

Spec == Init /\ [][Next]_vars

\* While a thread of an editor or a session of the daemon has something to do, one
\* of them does it.  Nothing is assumed of users and networks.
FairSpec ==
    Spec /\ WF_vars(\E c \in Clients : EditorStep(c) \/ BridgeStep(c) \/ DaemonStep(c))

--------------------------------------------------------------------------------
(***************************************************************************)
(* Properties.                                                             *)
(***************************************************************************)

\* Nothing is under way between editor c and the document.
Quiet(c) ==
    /\ ed[c].connected /\ link[c] = "up"
    /\ ed[c].slot = "none" /\ ~ ed[c].again /\ ed[c].pending = <<>>
    /\ cmds[c] = <<>> /\ evts[c] = <<>> /\ out[c] = <<>> /\ back[c] = <<>>
    /\ queue[c] = <<>> /\ \A d \in Clients : serving[d] = None

\* The debounce dropped the ForceSync that follows the last reconnect, and none has
\* been sent since.
Skipped(c) == br[c].force = "skipped"

\* What an editor shows, once everything has settled, the others can see: its
\* buffer holds no edit that the document lacks, after lost connections and
\* dropped updates as well, unless the debounce swallowed the resync.
ShownIsShared ==
    \A c \in Clients \ lossy :
        Quiet(c) /\ ed[c].open /\ ~ Skipped(c) => ed[c].buf \subseteq doc

\* An editor that listens to the document misses no edit of another: not between
\* joining and the first notification, not when a resync crosses notifications, not
\* when it joins again after a lost connection.
RemoteArrives ==
    \A c \in Clients \ lossy :
        Quiet(c) /\ ed[c].open /\ br[c].shared =>
            {e \in doc : e[1] # c} \subseteq ed[c].buf

\* After a lost connection an editor gets everything the document held when it
\* connected again, its own edits included, unless the debounce swallowed the resync.
ReconnectCatchesUp ==
    \A c \in Clients \ lossy :
        Quiet(c) /\ ed[c].open /\ ~ Skipped(c) => base[c] \subseteq ed[c].buf

\* Resyncs come to an end: once the connections stay up, a finite number of edits
\* and commands leaves nothing under way for good, and every buffer part of the
\* document, unless the debounce swallowed the resync after a reconnect.
Settles ==
    <>[](\A c \in Clients : link[c] = "up" /\ c \notin lossy) =>
        <>[](\A c \in Clients : Quiet(c) /\ (Skipped(c) \/ ed[c].buf \subseteq doc))

Elements(s) == {s[i] : i \in 1 .. Len(s)}

\* sync_broadcast.rs on a buffer that is offline: "do NOT drain updates -- they
\* would be irretrievably lost.  Leave them in pending_sync_updates for the next
\* drain cycle after the buffer is re-added to synced_buffers."  Once the
\* connections stay up, an edit that has waited in such a buffer is in the document.
DeferredIsSent ==
    <>[](\A c \in Clients : link[c] = "up" /\ c \notin lossy) =>
        \A c \in Clients : \A e \in Edits :
            (~ ed[c].synced /\ e \in Elements(ed[c].pending)) ~> (e \in doc)

================================================================================
