-------------------------------- MODULE KbOutbox --------------------------------
(***************************************************************************)
(* The way of a KB edit from the editor to the daemon (ADR-020: queue,     *)
(* send, confirm, ack).  The editor's main thread writes a row to its      *)
(* store and hands unsent rows to the bridge, a task of its own, over one  *)
(* bounded channel; the bridge keeps the connection, and reports back over *)
(* another.  The connection breaks, the user connects and disconnects, the *)
(* editor is killed and started again.                                     *)
(***************************************************************************)
EXTENDS Naturals, Sequences, FiniteSets

CONSTANTS
    CmdCap,     \* collab_command_queue_size
    EvtCap,     \* COLLAB_EVT_CHANNEL_CAP
    MaxEdits,   \* bound: edits in one behaviour
    MaxBreaks,  \* bound: connections that break
    MaxUser,    \* bound: connect and disconnect commands of the user
    MaxCrashes  \* bound: editors killed

ASSUME OutboxAssumption ==
    /\ CmdCap \in Nat \ {0}
    /\ EvtCap \in Nat \ {0}
    /\ {MaxEdits, MaxBreaks, MaxUser, MaxCrashes} \subseteq Nat

VARIABLES
    rows,       \* pending_updates in the editor's store: ids of unconfirmed edits
    counter,    \* pending_counter in the editor's store
    status,     \* the editor's CollabStatus: whether it is Connected
    inflight,   \* inflight_kb_updates
    cursor,     \* the row drain_kb_node_updates is at, 0 outside of it
    cmds,       \* the command channel, editor to bridge
    evts,       \* the event channel, bridge to editor
    link,       \* the connection: up, broken (unnoticed by the bridge) or down
    redial,     \* reconnect_enabled
    out,        \* rows in requests on the connection
    back,       \* answers on the connection; an answer names its request
    stray,      \* rows in requests of connections that are gone
    hasKey,     \* whether the KB is readable by the daemon or its key is here
    missed,     \* history: since the editor started, an event was dropped or a
                \*   live connection replaced
    stored,     \* history: rows that were written to the store
    applied,    \* history: rows the daemon has applied
    refused,    \* history: rows the daemon has refused
    breaks, commands, crashes   \* what the bounds count

storeVars == <<rows, counter, stored>>
editorVars == <<status, inflight, cursor>>
netVars == <<link, redial, out, back, stray>>
daemonVars == <<applied, refused>>
countVars == <<breaks, commands, crashes>>
vars ==
    <<storeVars, editorVars, cmds, evts, netVars, hasKey, missed, daemonVars, countVars>>

Ids == 1 .. MaxEdits
Cmd == [kind : {"update"}, row : Ids] \cup [kind : {"connect", "disconnect"}, row : {0}]
Evt == [kind : {"acked", "failed", "requeue"}, row : Ids]
         \cup [kind : {"connected", "disconnected"}, row : {0}]
Answer == [ok : BOOLEAN, row : Ids]

OutboxTypeOK ==
    /\ counter \in 0 .. MaxEdits
    /\ stored \subseteq 1 .. counter /\ rows \subseteq stored
    /\ status \in {"connected", "disconnected"}
    /\ inflight \subseteq Ids
    /\ cursor \in 0 .. MaxEdits
    /\ cmds \in Seq(Cmd) /\ Len(cmds) <= CmdCap
    /\ evts \in Seq(Evt) /\ Len(evts) <= EvtCap
    /\ link \in {"up", "broken", "down"}
    /\ redial \in BOOLEAN
    /\ out \in Seq(Ids)
    /\ back \in Seq(Answer)
    /\ stray \subseteq Ids
    /\ hasKey \in BOOLEAN
    /\ missed \in BOOLEAN
    /\ applied \subseteq Ids
    /\ refused \subseteq Ids
    /\ {breaks, commands, crashes} \subseteq Nat

\* The editor starts disconnected, with whatever its last life left in the store:
\* nothing, to begin with.
Init ==
    /\ rows = {} /\ counter = 0 /\ stored = {}
    /\ status = "disconnected" /\ inflight = {} /\ cursor = 0
    /\ cmds = <<>> /\ evts = <<>>
    /\ link = "down" /\ redial = FALSE
    /\ out = <<>> /\ back = <<>> /\ stray = {}
    /\ hasKey \in BOOLEAN /\ missed = FALSE
    /\ applied = {} /\ refused = {}
    /\ breaks = 0 /\ commands = 0 /\ crashes = 0

Elements(s) == {s[i] : i \in 1 .. Len(s)}

--------------------------------------------------------------------------------
(***************************************************************************)
(* The editor's main thread.  It does one thing at a time: while it drains *)
(* (cursor # 0) it does nothing else.                                      *)
(***************************************************************************)

\* kb_enqueue_node_crdt, push_pending_update: the counter and the row are two
\* writes.  When the second fails the edit is queued nowhere, and only logged; when
\* the first does, not even the counter has changed.
Enqueue ==
    /\ cursor = 0 /\ counter < MaxEdits
    /\ counter' = counter + 1
    /\ \/ rows' = rows \cup {counter + 1} /\ stored' = stored \cup {counter + 1}
       \/ UNCHANGED <<rows, stored>>
    /\ UNCHANGED <<editorVars, cmds, evts, netVars, hasKey, missed, daemonVars, countVars>>

\* drain_kb_node_updates: the rows are read in the order of their ids.
DrainStart ==
    /\ cursor = 0 /\ status = "connected"
    /\ rows \ inflight # {}
    /\ cursor' = 1
    /\ UNCHANGED <<storeVars, status, inflight, cmds, evts, netVars, hasKey, missed,
                   daemonVars, countVars>>

Room == Len(cmds) < CmdCap

Put(c) == cmds' = Append(cmds, c)

\* One turn of its loop: a row that is not marked is marked and sent, or -- the
\* channel being full -- left for the next tick.  The bridge receives meanwhile.
DrainRow ==
    /\ cursor # 0
    /\ cursor' = IF cursor = counter THEN 0 ELSE cursor + 1
    /\ IF cursor \in rows \ inflight /\ Room
         THEN /\ inflight' = inflight \cup {cursor}
              /\ Put([kind |-> "update", row |-> cursor])
         ELSE UNCHANGED <<inflight, cmds>>
    /\ UNCHANGED <<storeVars, status, evts, netVars, hasKey, missed, daemonVars,
                   countVars>>

\* drain_collab_intents: a command that finds the channel full is dropped.
UserCommand(kind) ==
    /\ cursor = 0 /\ commands < MaxUser /\ Room
    /\ Put([kind |-> kind, row |-> 0])
    /\ commands' = commands + 1
    /\ UNCHANGED <<storeVars, editorVars, evts, netVars, hasKey, missed, daemonVars,
                   breaks, crashes>>

\* handle_collab_event
EventIs(kinds) == cursor = 0 /\ evts # <<>> /\ Head(evts).kind \in kinds

HandleConnected ==
    /\ EventIs({"connected"})
    /\ status' = "connected"
    /\ evts' = Tail(evts)
    /\ UNCHANGED <<storeVars, inflight, cursor, cmds, netVars, hasKey, missed, daemonVars,
                   countVars>>

\* Mutant: the marks outlive the connection.
HandleDisconnectedKeepingMarks ==
    /\ EventIs({"disconnected"})
    /\ status' = "disconnected"
    /\ evts' = Tail(evts)
    /\ UNCHANGED <<storeVars, inflight, cursor, cmds, netVars, hasKey, missed, daemonVars,
                   countVars>>

HandleDisconnected ==
    /\ EventIs({"disconnected"})
    /\ status' = "disconnected"
    /\ inflight' = {}
    /\ evts' = Tail(evts)
    /\ UNCHANGED <<storeVars, cursor, cmds, netVars, hasKey, missed, daemonVars,
                   countVars>>

HandleRequeue ==
    /\ EventIs({"requeue"})
    /\ inflight' = inflight \ {Head(evts).row}
    /\ evts' = Tail(evts)
    /\ UNCHANGED <<storeVars, status, cursor, cmds, netVars, hasKey, missed, daemonVars,
                   countVars>>

\* KbUpdateAcked, KbUpdateFailed: ack_pending_update either way.
HandleAnswer ==
    /\ EventIs({"acked", "failed"})
    /\ inflight' = inflight \ {Head(evts).row}
    /\ rows' = rows \ {Head(evts).row}
    /\ evts' = Tail(evts)
    /\ UNCHANGED <<counter, stored, status, cursor, cmds, netVars, hasKey, missed, daemonVars,
                   countVars>>

Editor ==
    \/ Enqueue \/ DrainStart \/ DrainRow
    \/ UserCommand("connect") \/ UserCommand("disconnect")
    \/ HandleConnected \/ HandleDisconnected \/ HandleRequeue \/ HandleAnswer

--------------------------------------------------------------------------------
(***************************************************************************)
(* The bridge: run_collab_task and, while there is no connection,          *)
(* handle_disconnected_cmd.                                                *)
(***************************************************************************)

\* Mutant: the channel grows without bound.
ReportAlways(kind, r) ==
    /\ evts' = Append(evts, [kind |-> kind, row |-> r])
    /\ UNCHANGED missed

\* try_send_evt: an event that finds the channel full is dropped.
Report(kind, r) ==
    /\ evts' = IF Len(evts) < EvtCap THEN Append(evts, [kind |-> kind, row |-> r])
               ELSE evts
    /\ missed' = (missed \/ Len(evts) = EvtCap)

Command(kind) == cmds # <<>> /\ Head(cmds).kind = kind /\ cmds' = Tail(cmds)

\* tear_down: what was sent may still arrive, what was not read is lost.
TearDown ==
    /\ link' = "down"
    /\ stray' = stray \cup Elements(out)
    /\ out' = <<>> /\ back' = <<>>

\* A request written to a broken connection may or may not get through.
SendUpdate ==
    /\ Command("update") /\ hasKey
    /\ \/ link = "up" /\ out' = Append(out, Head(cmds).row) /\ UNCHANGED stray
       \/ link = "broken" /\ stray' = stray \cup {Head(cmds).row} /\ UNCHANGED out
    /\ UNCHANGED <<storeVars, editorVars, evts, link, redial, back, hasKey, missed,
                   daemonVars, countVars>>

\* Mutant: an update that cannot be sent is dropped, as a text update is.
RequeueNothing ==
    /\ Command("update")
    /\ link # "up" \/ ~ hasKey
    /\ UNCHANGED <<storeVars, editorVars, evts, netVars, hasKey, missed, daemonVars,
                   countVars>>

\* No connection, a failed write, or no key to seal the update with.
RequeueUpdate ==
    /\ Command("update")
    /\ link # "up" \/ ~ hasKey
    /\ Report("requeue", Head(cmds).row)
    /\ UNCHANGED <<storeVars, editorVars, netVars, hasKey, daemonVars, countVars>>

\* With a connection: it is closed, without an event, and the reconnect timer
\* opens the next.
ConnectAgain ==
    /\ Command("connect") /\ link # "down"
    /\ TearDown
    /\ missed' = TRUE
    /\ UNCHANGED <<storeVars, editorVars, evts, redial, hasKey, daemonVars, countVars>>

\* Without one: establish_connection and the handshake succeed or fail.
Connect ==
    /\ Command("connect") /\ link = "down"
    /\ redial' = TRUE
    /\ \/ link' = "up" /\ Report("connected", 0)
       \/ UNCHANGED <<link, evts, missed>>
    /\ UNCHANGED <<storeVars, editorVars, out, back, stray, hasKey, daemonVars, countVars>>

Disconnect ==
    /\ Command("disconnect")
    /\ redial' = FALSE
    /\ IF link = "down" THEN UNCHANGED <<link, out, back, stray, evts, missed>>
       ELSE TearDown /\ Report("disconnected", 0)
    /\ UNCHANGED <<storeVars, editorVars, hasKey, daemonVars, countVars>>

\* Mutant: every answer is taken for a confirmation before the daemon gave one.
ReceiveEarly ==
    /\ out # <<>>
    /\ out' = Tail(out)
    /\ Report("acked", Head(out))
    /\ UNCHANGED <<storeVars, editorVars, cmds, link, redial, back, stray, hasKey,
                   daemonVars, countVars>>

\* handle_response for PendingResponseKind::KbNodeUpdate
Receive ==
    /\ back # <<>>
    /\ back' = Tail(back)
    /\ Report(IF Head(back).ok THEN "acked" ELSE "failed", Head(back).row)
    /\ UNCHANGED <<storeVars, editorVars, cmds, link, redial, out, stray, hasKey,
                   daemonVars, countVars>>

\* The reader fails, the daemon closes, or a ping goes unanswered.
NoticeBreak ==
    /\ link = "broken"
    /\ TearDown
    /\ Report("disconnected", 0)
    /\ UNCHANGED <<storeVars, editorVars, cmds, redial, hasKey, daemonVars, countVars>>

\* The reconnect timer: the attempt succeeds, or the attempts are used up.
Reconnect ==
    /\ link = "down" /\ redial
    /\ link' = "up"
    /\ Report("connected", 0)
    /\ UNCHANGED <<storeVars, editorVars, cmds, redial, out, back, stray, hasKey,
                   daemonVars, countVars>>

GiveUp ==
    /\ link = "down" /\ redial
    /\ redial' = FALSE
    /\ Report("disconnected", 0)
    /\ UNCHANGED <<storeVars, editorVars, cmds, link, out, back, stray, hasKey,
                   daemonVars, countVars>>

BridgeCommand ==
    SendUpdate \/ RequeueUpdate \/ ConnectAgain \/ Connect \/ Disconnect

--------------------------------------------------------------------------------
(***************************************************************************)
(* The daemon and the world.                                               *)
(***************************************************************************)

\* kb/node_update: applied and confirmed, or refused (access, epoch fence).
Answered(r, ok) ==
    IF ok THEN applied' = applied \cup {r} /\ UNCHANGED refused
    ELSE refused' = refused \cup {r} /\ UNCHANGED applied

Handle ==
    /\ out # <<>>
    /\ out' = Tail(out)
    /\ \E ok \in BOOLEAN :
         /\ Answered(Head(out), ok)
         /\ back' = Append(back, [ok |-> ok, row |-> Head(out)])
    /\ UNCHANGED <<storeVars, editorVars, cmds, evts, link, redial, stray, hasKey,
                   missed, countVars>>

\* A request that was under way when its connection went.
HandleStray(r) ==
    /\ r \in stray
    /\ stray' = stray \ {r}
    /\ \E ok \in BOOLEAN : Answered(r, ok)
    /\ UNCHANGED <<storeVars, editorVars, cmds, evts, link, redial, out, back, hasKey,
                   missed, countVars>>

Break ==
    /\ link = "up" /\ breaks < MaxBreaks
    /\ link' = "broken"
    /\ stray' = stray \cup Elements(out)
    /\ out' = <<>>
    /\ breaks' = breaks + 1
    /\ UNCHANGED <<storeVars, editorVars, cmds, evts, redial, back, hasKey, missed,
                   daemonVars, commands, crashes>>

\* The content key of an encrypted KB arrives.
KeyArrives ==
    /\ ~ hasKey /\ hasKey' = TRUE
    /\ UNCHANGED <<storeVars, editorVars, cmds, evts, netVars, missed, daemonVars,
                   countVars>>

\* The editor is killed and started again; what is left of it is its store.
Crash ==
    /\ crashes < MaxCrashes
    /\ crashes' = crashes + 1
    /\ status' = "disconnected" /\ inflight' = {} /\ cursor' = 0
    /\ cmds' = <<>> /\ evts' = <<>>
    /\ TearDown /\ redial' = FALSE
    /\ missed' = FALSE
    /\ UNCHANGED <<storeVars, hasKey, daemonVars, breaks, commands>>

World == Handle \/ (\E r \in Ids : HandleStray(r)) \/ Break \/ KeyArrives \/ Crash

Next ==
    \/ Editor
    \/ BridgeCommand \/ Receive \/ NoticeBreak \/ Reconnect \/ GiveUp
    \/ World

Spec == Init /\ [][Next]_vars

\* Both threads run and the daemon answers.  Nothing is assumed of the user, of
\* the network, or of the key.
FairSpec ==
    /\ Spec
    /\ WF_vars(DrainStart) /\ WF_vars(DrainRow)
    /\ WF_vars(HandleConnected \/ HandleDisconnected \/ HandleRequeue \/ HandleAnswer)
    /\ WF_vars(BridgeCommand) /\ WF_vars(Receive) /\ WF_vars(NoticeBreak)
    /\ WF_vars(Handle)

--------------------------------------------------------------------------------
(***************************************************************************)
(* Properties.                                                             *)
(***************************************************************************)

\* ADR-020: a row that reached the editor's store leaves it only after the daemon
\* has applied it or has refused it, whatever breaks in between.
NeverLost == stored \subseteq rows \cup applied \cup refused

Underway(r) ==
    \/ [kind |-> "update", row |-> r] \in Elements(cmds)
    \/ r \in Elements(out)
    \/ \E a \in Elements(back) : a.row = r
    \/ \E e \in Elements(evts) : e.row = r \/ e.kind = "disconnected"
    \/ link = "broken"

\* A mark is never left behind: unless an event was dropped or the user replaced a
\* live connection, a marked row is on its way, or the marks are about to be
\* cleared.  A row whose mark were left behind would not be sent again.
MarkedIsUnderway == ~ missed => \A r \in inflight : Underway(r)

\* Rows do not get stuck: once the connection stays up, a queued row leaves the
\* queue (confirmed or refused, by NeverLost).
Delivered ==
    <>[](link = "up" /\ hasKey /\ ~ missed) =>
        \A r \in Ids : [](r \in rows => <>(r \notin rows))

Abstract == INSTANCE Outbox WITH last <- counter, queued <- rows

\* The editor, the bridge and the connection together implement the outbox.
IsAnOutbox == Abstract!OutboxSpec

================================================================================
