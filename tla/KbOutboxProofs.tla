----------------------------- MODULE KbOutboxProofs -----------------------------
(***************************************************************************)
(* The outbox for any capacity of its channels and any number of edits,    *)
(* breaks, commands and crashes: no edit is lost, no mark is left behind,  *)
(* and the whole implements the abstract outbox.                           *)
(***************************************************************************)
EXTENDS KbOutbox, SequenceTheorems, TLAPS

Sent == 1 .. counter
KnownCmd == [kind : {"update"}, row : Sent] \cup [kind : {"connect", "disconnect"}, row : {0}]
KnownAnswer == [ok : {TRUE}, row : applied] \cup [ok : {FALSE}, row : refused]
KnownEvt == [kind : {"acked"}, row : applied] \cup [kind : {"failed"}, row : refused]
              \cup [kind : {"requeue"}, row : Sent]
              \cup [kind : {"connected", "disconnected"}, row : {0}]

\* Whatever travels is about an edit that was queued, and an answer on its way says
\* what the daemon did.
Sound ==
    /\ counter \in 0 .. MaxEdits
    /\ rows \subseteq Sent /\ inflight \subseteq Sent /\ stray \subseteq Sent
    /\ applied \subseteq Sent /\ refused \subseteq Sent
    /\ status \in {"connected", "disconnected"}
    /\ cursor \in 0 .. counter
    /\ cmds \in Seq(KnownCmd) /\ Len(cmds) <= CmdCap
    /\ evts \in Seq(KnownEvt) /\ Len(evts) <= EvtCap
    /\ link \in {"up", "broken", "down"}
    /\ redial \in BOOLEAN /\ hasKey \in BOOLEAN /\ missed \in BOOLEAN
    /\ out \in Seq(Sent) /\ back \in Seq(KnownAnswer)
    /\ {breaks, commands, crashes} \subseteq Nat

\* A row was written under an id the counter gave out.
Numbered == stored \subseteq Sent /\ rows \subseteq stored

OutboxInv == Sound /\ Numbered /\ NeverLost /\ MarkedIsUnderway

--------------------------------------------------------------------------------
LEMMA AppendTo ==
    ASSUME NEW S, NEW s \in Seq(S), NEW x \in S
    PROVE  /\ Append(s, x) \in Seq(S)
           /\ Len(Append(s, x)) = Len(s) + 1
           /\ Elements(Append(s, x)) = Elements(s) \cup {x}
<1>1. /\ Append(s, x) \in Seq(S) /\ Len(Append(s, x)) = Len(s) + 1
      /\ \A i \in 1 .. Len(s) : Append(s, x)[i] = s[i]
      /\ Append(s, x)[Len(s) + 1] = x
  BY AppendProperties
<1>2. Len(s) \in Nat
  OBVIOUS
<1> QED  BY <1>1, <1>2 DEF Elements

LEMMA TailOf ==
    ASSUME NEW S, NEW s \in Seq(S), s # <<>>
    PROVE  /\ Head(s) \in S /\ Tail(s) \in Seq(S)
           /\ Len(s) \in Nat \ {0} /\ Len(Tail(s)) = Len(s) - 1
           /\ Elements(s) = Elements(Tail(s)) \cup {Head(s)}
<1>1. /\ Head(s) \in S /\ Tail(s) \in Seq(S)
      /\ Len(Tail(s)) = Len(s) - 1
      /\ \A i \in 1 .. Len(Tail(s)) : Tail(s)[i] = s[i + 1]
  BY HeadTailProperties
<1>2. Len(s) \in Nat /\ Len(s) # 0 /\ Head(s) = s[1]
  BY EmptySeq
<1>3. Elements(Tail(s)) \cup {Head(s)} \subseteq Elements(s)
  BY <1>1, <1>2 DEF Elements
<1>4. ASSUME NEW i \in 1 .. Len(s) PROVE s[i] \in Elements(Tail(s)) \cup {Head(s)}
  <2>1. CASE i = 1
    BY <1>2, <2>1
  <2>2. CASE i # 1
    <3>1. i - 1 \in 1 .. Len(Tail(s)) /\ (i - 1) + 1 = i
      BY <1>1, <1>2, <2>2
    <3> QED  BY <1>1, <3>1 DEF Elements
  <2> QED  BY <2>1, <2>2
<1> QED  BY <1>1, <1>2, <1>3, <1>4 DEF Elements

\* A sequence over a set is one over any larger set.
LEMMA SeqOver ==
    ASSUME NEW S, NEW T, S \subseteq T, NEW s \in Seq(S) PROVE s \in Seq(T)
  OBVIOUS

LEMMA ElementsIn ==
    ASSUME NEW S, NEW s \in Seq(S) PROVE Elements(s) \subseteq S
  BY DEF Elements

LEMMA NoElements == Elements(<<>>) = {}
  BY DEF Elements

\* What is known of the messages stays known.
LEMMA KnownGrow ==
    ASSUME counter' = counter, applied \subseteq applied', refused \subseteq refused'
    PROVE  /\ Sent' = Sent /\ KnownCmd' = KnownCmd
           /\ KnownAnswer \subseteq KnownAnswer' /\ KnownEvt \subseteq KnownEvt'
  BY Zenon DEF Sent, KnownCmd, KnownAnswer, KnownEvt

LEMMA ReportTo ==
    ASSUME NEW S, evts \in Seq(S), Len(evts) <= EvtCap, missed \in BOOLEAN,
           NEW kind, NEW r, [kind |-> kind, row |-> r] \in S, Report(kind, r)
    PROVE  /\ evts' \in Seq(S) /\ Len(evts') <= EvtCap /\ missed' \in BOOLEAN
           /\ ~ missed' => ~ missed
                /\ Elements(evts') = Elements(evts) \cup {[kind |-> kind, row |-> r]}
<1>1. Len(evts) \in Nat /\ EvtCap \in Nat
  BY OutboxAssumption, LenProperties
<1>2. CASE Len(evts) < EvtCap
  <2>1. evts' = Append(evts, [kind |-> kind, row |-> r])
    BY <1>2 DEF Report
  <2>2. Len(evts) # EvtCap /\ Len(evts) + 1 <= EvtCap
    BY <1>1, <1>2
  <2>3. missed' = missed
    BY <2>2 DEF Report
  <2> QED  BY <2>1, <2>2, <2>3, AppendTo
<1>3. CASE Len(evts) = EvtCap
  <2>1. evts' = evts
    BY <1>1, <1>3 DEF Report
  <2>2. missed' = TRUE
    BY Zenon, <1>3 DEF Report
  <2> QED  BY <2>1, <2>2
<1> QED  BY <1>1, <1>2, <1>3

LEMMA InitInv == Init => OutboxInv
<1> SUFFICES ASSUME Init PROVE OutboxInv
  OBVIOUS
<1>1. Sound
  <2>1. cmds \in Seq(KnownCmd) /\ evts \in Seq(KnownEvt) /\ out \in Seq(Sent)
        /\ back \in Seq(KnownAnswer) /\ Len(cmds) <= CmdCap /\ Len(evts) <= EvtCap
    BY OutboxAssumption DEF Init
  <2>2. counter \in 0 .. MaxEdits /\ cursor \in 0 .. counter
        /\ {breaks, commands, crashes} \subseteq Nat
    BY OutboxAssumption DEF Init
  <2> QED  BY Zenon, <2>1, <2>2 DEF Init, Sound
<1>2. Numbered /\ NeverLost /\ MarkedIsUnderway
  BY DEF Init, Numbered, NeverLost, MarkedIsUnderway
<1> QED  BY <1>1, <1>2 DEF OutboxInv

--------------------------------------------------------------------------------
(***************************************************************************)
(* The abstract outbox.  A step queues an edit, applies, refuses or        *)
(* removes one, or leaves its four variables alone.                        *)
(***************************************************************************)

\* Every action but four leaves the store and the daemon alone.
LEMMA Elsewhere ==
    ASSUME [Next]_vars, ~ Enqueue, ~ HandleAnswer, ~ Handle, \A r \in Ids : ~ HandleStray(r)
    PROVE  UNCHANGED <<counter, rows, stored, applied, refused>>
<1> USE DEF storeVars, daemonVars
<1>1. CASE DrainStart \/ DrainRow \/ UserCommand("connect") \/ UserCommand("disconnect")
  BY <1>1 DEF DrainStart, DrainRow, UserCommand
<1>2. CASE HandleConnected \/ HandleDisconnected \/ HandleRequeue
  BY <1>2 DEF HandleConnected, HandleDisconnected, HandleRequeue
<1>3. CASE BridgeCommand
  BY <1>3 DEF BridgeCommand, SendUpdate, RequeueUpdate, ConnectAgain, Connect, Disconnect
<1>4. CASE Receive \/ NoticeBreak \/ Reconnect \/ GiveUp
  BY <1>4 DEF Receive, NoticeBreak, Reconnect, GiveUp
<1>5. CASE Break \/ KeyArrives \/ Crash
  BY <1>5 DEF Break, KeyArrives, Crash
<1>6. CASE UNCHANGED vars
  BY <1>6 DEF vars
<1> QED  BY <1>1, <1>2, <1>3, <1>4, <1>5, <1>6 DEF Next, Editor, World

LEMMA AbstractStep ==
    ASSUME Sound, [Next]_vars
    PROVE  [Abstract!OutboxNext]_(Abstract!outboxVars)
<1> USE DEF Abstract!OutboxNext, Abstract!outboxVars
<1>1. CASE Enqueue
  BY <1>1 DEF Enqueue, daemonVars, Abstract!Queue, Abstract!Skip
<1>2. CASE HandleAnswer
  <2>1. evts # <<>> /\ Head(evts).kind \in {"acked", "failed"}
        /\ rows' = rows \ {Head(evts).row} /\ UNCHANGED <<counter, applied, refused>>
    BY <1>2 DEF HandleAnswer, EventIs, daemonVars
  <2>2. Head(evts) \in KnownEvt
    BY <2>1, TailOf DEF Sound
  <2>3. Head(evts).row \in applied \cup refused
    BY <2>1, <2>2 DEF KnownEvt
  <2>4. Head(evts).row \in 1 .. counter
    BY Zenon, <2>3 DEF Sound, Sent
  <2> QED  BY <2>1, <2>3, <2>4 DEF Abstract!Remove
<1>3. CASE Handle
  <2>1. Head(out) \in 1 .. counter
    BY <1>3, TailOf DEF Handle, Sound, Sent
  <2> QED  BY <1>3, <2>1 DEF Handle, Answered, storeVars, Abstract!Apply, Abstract!Refuse
<1>4. CASE \E r \in Ids : HandleStray(r)
  <2>1. PICK r \in Ids : HandleStray(r)
    BY <1>4
  <2>2. r \in 1 .. counter
    BY <2>1 DEF HandleStray, Sound, Sent
  <2> QED
    BY <2>1, <2>2 DEF HandleStray, Answered, storeVars, Abstract!Apply, Abstract!Refuse
<1> QED  BY <1>1, <1>2, <1>3, <1>4, Elsewhere

\* What is written is written to the queue.
LEMMA NumberedStep ==
    ASSUME Sound, Numbered, [Next]_vars
    PROVE  Numbered' /\ stored' \subseteq stored \cup rows'
<1>1. CASE Enqueue
  <2>1. counter \in Nat /\ counter' = counter + 1
    BY <1>1, OutboxAssumption DEF Enqueue, Sound
  <2>2. Sent' = Sent \cup {counter + 1}
    BY <2>1 DEF Sent
  <2> QED  BY <1>1, <2>2 DEF Enqueue, Numbered
<1>2. CASE HandleAnswer
  BY <1>2 DEF HandleAnswer, Numbered, Sent
<1>3. CASE Handle \/ \E r \in Ids : HandleStray(r)
  BY <1>3 DEF Handle, HandleStray, storeVars, Numbered, Sent
<1> QED  BY <1>1, <1>2, <1>3, Elsewhere DEF Numbered, Sent

\* The abstract outbox loses nothing, so neither does what implements it.
LEMMA NeverLostStep ==
    ASSUME NeverLost, stored' \subseteq stored \cup rows',
           [Abstract!OutboxNext]_(Abstract!outboxVars)
    PROVE  NeverLost'
<1>1. CASE Abstract!Queue \/ Abstract!Skip
  BY <1>1 DEF NeverLost, Abstract!Queue, Abstract!Skip
<1>2. CASE \E e \in 1 .. counter : Abstract!Apply(e) \/ Abstract!Refuse(e) \/ Abstract!Remove(e)
  BY <1>2 DEF NeverLost, Abstract!Apply, Abstract!Refuse, Abstract!Remove
<1>3. CASE UNCHANGED Abstract!outboxVars
  BY <1>3 DEF NeverLost, Abstract!outboxVars
<1> QED  BY <1>1, <1>2, <1>3 DEF Abstract!OutboxNext

--------------------------------------------------------------------------------
(***************************************************************************)
(* Sound and MarkedIsUnderway, action by action.                           *)
(***************************************************************************)

LEMMA KnownSame ==
    ASSUME counter' = counter, applied' = applied, refused' = refused
    PROVE  Sent' = Sent /\ KnownCmd' = KnownCmd /\ KnownAnswer' = KnownAnswer
           /\ KnownEvt' = KnownEvt
  BY DEF Sent, KnownCmd, KnownAnswer, KnownEvt

\* It is enough that every mark that stays is still under way.
LEMMA MarkKept ==
    ASSUME MarkedIsUnderway, ~ missed' => ~ missed,
           ~ missed' => \A r \in inflight' : r \in inflight /\ (Underway(r) => Underway(r)')
    PROVE  MarkedIsUnderway'
  BY DEF MarkedIsUnderway

LEMMA EnqueueStep ==
    ASSUME Sound, MarkedIsUnderway, Enqueue PROVE Sound' /\ MarkedIsUnderway'
<1> USE DEF storeVars, editorVars, netVars, daemonVars, countVars
<1>1. counter \in Nat /\ counter' = counter + 1 /\ counter' \in 0 .. MaxEdits
  BY OutboxAssumption DEF Enqueue, Sound
<1>2. Sent' = Sent \cup {counter + 1}
  BY <1>1 DEF Sent
<1>3. KnownCmd \subseteq KnownCmd' /\ KnownAnswer' = KnownAnswer /\ KnownEvt \subseteq KnownEvt'
  BY <1>2 DEF Enqueue, KnownCmd, KnownAnswer, KnownEvt
<1>4. /\ cmds' = cmds /\ cmds \in Seq(KnownCmd') /\ evts' = evts /\ evts \in Seq(KnownEvt')
      /\ out' = out /\ out \in Seq(Sent') /\ back' = back /\ back \in Seq(KnownAnswer')
  BY <1>2, <1>3, SeqOver DEF Sound, Enqueue
<1>5. cursor' \in 0 .. counter'
  BY <1>1 DEF Enqueue
<1>6. Sound'
  BY <1>1, <1>2, <1>4, <1>5 DEF Sound, Enqueue
<1>7. MarkedIsUnderway'
  BY Zenon DEF Enqueue, MarkedIsUnderway, Underway
<1> QED  BY <1>6, <1>7

LEMMA DrainStep ==
    ASSUME Sound, MarkedIsUnderway, DrainStart \/ DrainRow
    PROVE  Sound' /\ MarkedIsUnderway'
<1> USE DEF storeVars, editorVars, netVars, daemonVars, countVars
<1>1. CASE DrainStart
  <2>1. cursor' \in 0 .. counter
    <3>1. PICK r \in 1 .. counter : TRUE
      BY Zenon, <1>1 DEF DrainStart, Sound, Sent
    <3>2. counter \in Nat
      BY OutboxAssumption DEF Sound
    <3> QED  BY <1>1, <3>1, <3>2 DEF DrainStart
  <2> QED  BY <1>1, <2>1, KnownSame DEF DrainStart, Sound, MarkedIsUnderway, Underway
<1>2. CASE DrainRow
  <2>1. /\ counter \in Nat /\ cursor \in Sent
        /\ counter' = counter /\ applied' = applied /\ refused' = refused
    BY <1>2, OutboxAssumption DEF DrainRow, Sound, Sent
  <2>2. cursor' \in 0 .. counter
    BY <1>2, <2>1 DEF DrainRow, Sent
  <2>3. CASE cursor \in rows \ inflight /\ Room
    <3> DEFINE c == [kind |-> "update", row |-> cursor]
    <3>1. c \in KnownCmd
      BY <2>1 DEF KnownCmd
    <3>2. inflight' = inflight \cup {cursor} /\ cmds' = Append(cmds, c)
      BY <1>2, <2>3 DEF DrainRow, Put
    <3>3. /\ cmds' \in Seq(KnownCmd) /\ Elements(cmds') = Elements(cmds) \cup {c}
          /\ Len(cmds') = Len(cmds) + 1
      BY <3>1, <3>2, AppendTo DEF Sound
    <3>4. Len(cmds') <= CmdCap
      BY <2>3, <3>3, OutboxAssumption, LenProperties DEF Room, Sound
    <3>5. Sound'
      BY <1>2, <2>1, <2>2, <3>2, <3>3, <3>4, KnownSame DEF DrainRow, Sound
    <3>6. MarkedIsUnderway'
      BY Zenon, <1>2, <3>2, <3>3 DEF DrainRow, MarkedIsUnderway, Underway
    <3> QED  BY <3>5, <3>6
  <2>4. CASE ~ (cursor \in rows \ inflight /\ Room)
    BY Zenon, <1>2, <2>1, <2>2, <2>4, KnownSame DEF DrainRow, Sound, MarkedIsUnderway, Underway
  <2> QED  BY <2>3, <2>4
<1> QED  BY <1>1, <1>2

LEMMA UserCommandStep ==
    ASSUME Sound, MarkedIsUnderway, NEW kind \in {"connect", "disconnect"}, UserCommand(kind)
    PROVE  Sound' /\ MarkedIsUnderway'
<1> USE DEF storeVars, editorVars, netVars, daemonVars
<1> DEFINE c == [kind |-> kind, row |-> 0]
<1>1. c \in KnownCmd
  BY DEF KnownCmd
<1>2. cmds' = Append(cmds, c) /\ Len(cmds) < CmdCap
  BY DEF UserCommand, Put, Room
<1>3. /\ cmds' \in Seq(KnownCmd) /\ Elements(cmds') = Elements(cmds) \cup {c}
      /\ Len(cmds') = Len(cmds) + 1
  BY <1>1, <1>2, AppendTo DEF Sound
<1>4. Len(cmds') <= CmdCap
  BY <1>2, <1>3, OutboxAssumption, LenProperties DEF Sound
<1>5. commands' \in Nat
  BY DEF UserCommand, Sound
<1>6. Sound'
  BY <1>3, <1>4, <1>5, KnownSame DEF UserCommand, Sound
<1>7. MarkedIsUnderway'
  BY Zenon, <1>3 DEF UserCommand, MarkedIsUnderway, Underway
<1> QED  BY <1>6, <1>7

LEMMA HandleEventStep ==
    ASSUME Sound, MarkedIsUnderway,
           HandleConnected \/ HandleDisconnected \/ HandleRequeue \/ HandleAnswer
    PROVE  Sound' /\ MarkedIsUnderway'
<1> USE DEF storeVars, editorVars, netVars, daemonVars, countVars
<1>1. /\ counter' = counter /\ applied' = applied /\ refused' = refused
      /\ cmds' = cmds /\ out' = out /\ back' = back /\ link' = link /\ missed' = missed
      /\ redial' = redial /\ stray' = stray /\ hasKey' = hasKey /\ cursor' = cursor
      /\ breaks' = breaks /\ commands' = commands /\ crashes' = crashes
      /\ evts # <<>> /\ evts' = Tail(evts)
  BY DEF HandleConnected, HandleDisconnected, HandleRequeue, HandleAnswer, EventIs
<1>2. /\ Head(evts) \in KnownEvt /\ evts' \in Seq(KnownEvt) /\ Len(evts') <= EvtCap
      /\ Elements(evts) = Elements(evts') \cup {Head(evts)}
  BY <1>1, TailOf, OutboxAssumption DEF Sound
<1>3. /\ rows' \subseteq Sent /\ inflight' \subseteq Sent
      /\ status' \in {"connected", "disconnected"}
  BY DEF Sound, HandleConnected, HandleDisconnected, HandleRequeue, HandleAnswer
<1>4. Sound'
  BY <1>1, <1>2, <1>3, KnownSame DEF Sound
<1>5. ASSUME NEW r \in inflight' PROVE r \in inflight /\ (Underway(r) => Underway(r)')
  <2>1. r \in inflight /\ r # 0
    BY <1>3, <1>5, OutboxAssumption
    DEF Sound, Sent, HandleConnected, HandleDisconnected, HandleRequeue, HandleAnswer
  <2>2. Head(evts).row # r /\ Head(evts).kind # "disconnected"
    BY <1>2, <1>5, <2>1
    DEF KnownEvt, EventIs, HandleConnected, HandleDisconnected, HandleRequeue, HandleAnswer
  <2> QED  BY <1>1, <1>2, <2>1, <2>2 DEF Underway
<1>6. MarkedIsUnderway'
  BY <1>1, <1>5, MarkKept
<1> QED  BY <1>4, <1>6

\* The bridge takes a command: an update is sent, or handed back.
LEMMA UpdateCommandStep ==
    ASSUME Sound, MarkedIsUnderway, SendUpdate \/ RequeueUpdate
    PROVE  Sound' /\ MarkedIsUnderway'
<1> USE DEF storeVars, editorVars, netVars, daemonVars, countVars
<1>1. /\ counter' = counter /\ applied' = applied /\ refused' = refused
      /\ rows' = rows /\ status' = status /\ inflight' = inflight /\ cursor' = cursor
      /\ back' = back /\ link' = link /\ redial' = redial /\ hasKey' = hasKey
      /\ breaks' = breaks /\ commands' = commands /\ crashes' = crashes
      /\ cmds # <<>> /\ Head(cmds).kind = "update" /\ cmds' = Tail(cmds)
  BY DEF SendUpdate, RequeueUpdate, Command
<1>2. /\ Head(cmds) \in KnownCmd /\ cmds' \in Seq(KnownCmd) /\ Len(cmds') <= CmdCap
      /\ Elements(cmds) = Elements(cmds') \cup {Head(cmds)}
  BY <1>1, TailOf, OutboxAssumption DEF Sound
<1>3. PICK m \in Sent : Head(cmds) = [kind |-> "update", row |-> m]
  BY <1>1, <1>2 DEF KnownCmd
<1>4. CASE SendUpdate
  <2>1. CASE link = "up" /\ out' = Append(out, m) /\ stray' = stray
    <3>1. out' \in Seq(Sent) /\ Elements(out') = Elements(out) \cup {m}
      BY <2>1, AppendTo DEF Sound
    <3>2. Sound'
      BY <1>1, <1>2, <1>4, <2>1, <3>1, KnownSame DEF SendUpdate, Sound
    <3>3. \A r \in inflight' : Underway(r) => Underway(r)'
      BY <1>1, <1>2, <1>3, <1>4, <3>1 DEF SendUpdate, Underway
    <3> QED  BY <1>1, <1>4, <3>2, <3>3, MarkKept DEF SendUpdate
  <2>2. CASE link = "broken" /\ stray' = stray \cup {m} /\ out' = out
    <3>1. Sound'
      BY <1>1, <1>2, <1>4, <2>2, KnownSame DEF SendUpdate, Sound
    <3>2. \A r \in inflight' : Underway(r)'
      BY <1>1, <2>2 DEF Underway
    <3> QED  BY <1>1, <1>4, <3>1, <3>2, MarkKept DEF SendUpdate
  <2> QED  BY <1>3, <1>4, <2>1, <2>2 DEF SendUpdate
<1>5. CASE RequeueUpdate
  <2> DEFINE e == [kind |-> "requeue", row |-> m]
  <2>1. e \in KnownEvt /\ Report("requeue", m) /\ out' = out /\ stray' = stray
    BY <1>3, <1>5 DEF RequeueUpdate, KnownEvt
  <2>2. /\ evts' \in Seq(KnownEvt) /\ Len(evts') <= EvtCap /\ missed' \in BOOLEAN
        /\ ~ missed' => ~ missed /\ Elements(evts') = Elements(evts) \cup {e}
    BY <2>1, ReportTo DEF Sound
  <2>3. Sound'
    BY <1>1, <1>2, <2>1, <2>2, KnownSame DEF Sound
  <2>4. ~ missed' => \A r \in inflight' : Underway(r) => Underway(r)'
    BY <1>1, <1>2, <1>3, <2>1, <2>2 DEF Underway
  <2> QED  BY <1>1, <2>2, <2>3, <2>4, MarkKept
<1> QED  BY <1>4, <1>5

\* A connection goes: the event that clears the marks is on its way, or was dropped.
LEMMA TearDownStep ==
    ASSUME Sound, TearDown
    PROVE  /\ link' = "down" /\ stray' \subseteq Sent
           /\ out' \in Seq(Sent) /\ back' \in Seq(KnownAnswer)
<1>1. Elements(out) \subseteq Sent
  BY ElementsIn DEF Sound
<1> QED  BY <1>1 DEF TearDown, Sound

LEMMA DisconnectedStep ==
    ASSUME Sound, MarkedIsUnderway, Report("disconnected", 0)
    PROVE  /\ evts' \in Seq(KnownEvt) /\ Len(evts') <= EvtCap /\ missed' \in BOOLEAN
           /\ MarkedIsUnderway'
<1> DEFINE e == [kind |-> "disconnected", row |-> 0]
<1>1. e \in KnownEvt
  BY DEF KnownEvt
<1>2. /\ evts' \in Seq(KnownEvt) /\ Len(evts') <= EvtCap /\ missed' \in BOOLEAN
      /\ ~ missed' => Elements(evts') = Elements(evts) \cup {e}
  BY <1>1, ReportTo DEF Sound
<1>3. ASSUME ~ missed' PROVE \A r \in inflight' : Underway(r)'
  <2>1. e \in Elements(evts') /\ e.kind = "disconnected"
    BY <1>2, <1>3
  <2> QED  BY <2>1 DEF Underway
<1> QED  BY <1>2, <1>3 DEF MarkedIsUnderway

LEMMA ConnectCommandStep ==
    ASSUME Sound, MarkedIsUnderway, ConnectAgain \/ Connect \/ Disconnect
    PROVE  Sound' /\ MarkedIsUnderway'
<1> USE DEF storeVars, editorVars, netVars, daemonVars, countVars
<1>1. /\ counter' = counter /\ applied' = applied /\ refused' = refused
      /\ rows' = rows /\ status' = status /\ inflight' = inflight /\ cursor' = cursor
      /\ hasKey' = hasKey
      /\ breaks' = breaks /\ commands' = commands /\ crashes' = crashes
      /\ cmds # <<>> /\ Head(cmds).kind # "update" /\ cmds' = Tail(cmds)
  BY DEF ConnectAgain, Connect, Disconnect, Command
<1>2. /\ cmds' \in Seq(KnownCmd) /\ Len(cmds') <= CmdCap
      /\ Elements(cmds) = Elements(cmds') \cup {Head(cmds)}
  BY <1>1, TailOf, OutboxAssumption DEF Sound
<1>3. \A r : [kind |-> "update", row |-> r] \in Elements(cmds)
                => [kind |-> "update", row |-> r] \in Elements(cmds')
  BY <1>1, <1>2
<1>4. CASE ConnectAgain
  BY <1>1, <1>2, <1>4, TearDownStep, KnownSame DEF ConnectAgain, Sound, MarkedIsUnderway
<1>5. CASE Connect
  <2>1. CASE UNCHANGED <<link, evts, missed>>
    BY <1>1, <1>2, <1>3, <1>5, <2>1, KnownSame
    DEF Connect, Sound, MarkedIsUnderway, Underway
  <2>2. CASE link' = "up" /\ Report("connected", 0)
    <3> DEFINE e == [kind |-> "connected", row |-> 0]
    <3>1. e \in KnownEvt
      BY DEF KnownEvt
    <3>2. /\ evts' \in Seq(KnownEvt) /\ Len(evts') <= EvtCap /\ missed' \in BOOLEAN
          /\ ~ missed' => ~ missed /\ Elements(evts') = Elements(evts) \cup {e}
      BY <2>2, <3>1, ReportTo DEF Sound
    <3>3. Sound'
      BY <1>1, <1>2, <1>5, <2>2, <3>2, KnownSame DEF Connect, Sound
    <3>4. ~ missed' => \A r \in inflight' : Underway(r) => Underway(r)'
      BY <1>1, <1>3, <1>5, <3>2 DEF Connect, Underway
    <3> QED  BY <1>1, <3>2, <3>3, <3>4, MarkKept
  <2> QED  BY <1>5, <2>1, <2>2 DEF Connect
<1>6. CASE Disconnect
  <2>1. CASE link = "down"
    BY Zenon, <1>1, <1>2, <1>3, <1>6, <2>1, KnownSame
    DEF Disconnect, Sound, MarkedIsUnderway, Underway
  <2>2. CASE link # "down"
    BY Zenon, <1>1, <1>2, <1>6, <2>2, TearDownStep, DisconnectedStep, KnownSame
    DEF Disconnect, Sound
  <2> QED  BY <2>1, <2>2
<1> QED  BY <1>4, <1>5, <1>6

LEMMA ReceiveStep ==
    ASSUME Sound, MarkedIsUnderway, Receive PROVE Sound' /\ MarkedIsUnderway'
<1> USE DEF storeVars, editorVars, netVars, daemonVars, countVars
<1>1. back # <<>> /\ back' = Tail(back)
  BY DEF Receive
<1>2. /\ Head(back) \in KnownAnswer /\ back' \in Seq(KnownAnswer)
      /\ Elements(back) = Elements(back') \cup {Head(back)}
  BY <1>1, TailOf DEF Sound
<1> DEFINE e == [kind |-> IF Head(back).ok THEN "acked" ELSE "failed", row |-> Head(back).row]
<1>3. e \in KnownEvt
  BY Zenon, <1>2 DEF KnownAnswer, KnownEvt
<1>4. /\ evts' \in Seq(KnownEvt) /\ Len(evts') <= EvtCap /\ missed' \in BOOLEAN
      /\ ~ missed' => ~ missed /\ Elements(evts') = Elements(evts) \cup {e}
  BY Zenon, <1>3, ReportTo DEF Sound, Receive
<1>5. Sound'
  BY <1>2, <1>4, KnownSame DEF Receive, Sound
<1>6. ~ missed' => \A r \in inflight' : Underway(r) => Underway(r)'
  BY Zenon, <1>2, <1>4 DEF Receive, Underway
<1> QED  BY <1>4, <1>5, <1>6, MarkKept DEF Receive

LEMMA LinkStep ==
    ASSUME Sound, MarkedIsUnderway, NoticeBreak \/ Reconnect \/ GiveUp
    PROVE  Sound' /\ MarkedIsUnderway'
<1> USE DEF storeVars, editorVars, netVars, daemonVars, countVars
<1>1. CASE NoticeBreak
  BY <1>1, TearDownStep, DisconnectedStep, KnownSame DEF NoticeBreak, Sound
<1>2. CASE GiveUp
  BY Zenon, <1>2, DisconnectedStep, KnownSame DEF GiveUp, Sound
<1>3. CASE Reconnect
  <2> DEFINE e == [kind |-> "connected", row |-> 0]
  <2>1. e \in KnownEvt
    BY DEF KnownEvt
  <2>2. /\ evts' \in Seq(KnownEvt) /\ Len(evts') <= EvtCap /\ missed' \in BOOLEAN
        /\ ~ missed' => ~ missed /\ Elements(evts') = Elements(evts) \cup {e}
    BY <1>3, <2>1, ReportTo DEF Reconnect, Sound
  <2>3. Sound'
    BY <1>3, <2>2, KnownSame DEF Reconnect, Sound
  <2>4. ~ missed' => \A r \in inflight' : Underway(r) => Underway(r)'
    BY <1>3, <2>2 DEF Reconnect, Underway
  <2> QED  BY <1>3, <2>2, <2>3, <2>4, MarkKept DEF Reconnect
<1> QED  BY <1>1, <1>2, <1>3

\* The daemon's answer says what the daemon did.
LEMMA HandleStep ==
    ASSUME Sound, MarkedIsUnderway, Handle PROVE Sound' /\ MarkedIsUnderway'
<1> USE DEF storeVars, editorVars, countVars
<1>1. out # <<>> /\ out' = Tail(out)
  BY DEF Handle
<1>2. /\ Head(out) \in Sent /\ out' \in Seq(Sent)
      /\ Elements(out) = Elements(out') \cup {Head(out)}
  BY <1>1, TailOf DEF Sound
<1>3. PICK ok \in BOOLEAN : /\ Answered(Head(out), ok)
                            /\ back' = Append(back, [ok |-> ok, row |-> Head(out)])
  BY DEF Handle
<1> DEFINE a == [ok |-> ok, row |-> Head(out)]
<1>4. /\ applied \subseteq applied' /\ refused \subseteq refused'
      /\ applied' \subseteq Sent /\ refused' \subseteq Sent
      /\ a \in KnownAnswer'
  BY Zenon, <1>2, <1>3 DEF Answered, Sound, KnownAnswer
<1>5. /\ Sent' = Sent /\ KnownCmd' = KnownCmd
      /\ KnownAnswer \subseteq KnownAnswer' /\ KnownEvt \subseteq KnownEvt'
  BY <1>4, KnownGrow DEF Handle
<1>6. back \in Seq(KnownAnswer') /\ evts \in Seq(KnownEvt')
  BY <1>5, SeqOver DEF Sound
<1>7. back' \in Seq(KnownAnswer') /\ Elements(back') = Elements(back) \cup {a}
  BY <1>3, <1>4, <1>6, AppendTo
<1>8. Sound'
  BY <1>2, <1>4, <1>5, <1>6, <1>7 DEF Handle, Sound
<1>9. \A r \in inflight' : Underway(r) => Underway(r)'
  <2>1. a \in Elements(back') /\ a.row = Head(out) /\ Elements(back) \subseteq Elements(back')
    BY <1>7
  <2>2. cmds' = cmds /\ evts' = evts /\ link' = link
    BY DEF Handle
  <2> QED  BY <1>2, <2>1, <2>2 DEF Underway
<1> QED  BY <1>8, <1>9, MarkKept DEF Handle

LEMMA WorldStep ==
    ASSUME Sound, MarkedIsUnderway,
           (\E r \in Ids : HandleStray(r)) \/ Break \/ KeyArrives \/ Crash
    PROVE  Sound' /\ MarkedIsUnderway'
<1> USE DEF storeVars, editorVars, netVars, daemonVars, countVars
<1>1. CASE \E r \in Ids : HandleStray(r)
  <2>1. PICK r \in Ids : HandleStray(r)
    BY <1>1
  <2>2. /\ applied \subseteq applied' /\ refused \subseteq refused'
        /\ applied' \subseteq Sent /\ refused' \subseteq Sent
    BY <2>1 DEF HandleStray, Answered, Sound
  <2>3. /\ Sent' = Sent /\ KnownCmd' = KnownCmd
        /\ KnownAnswer \subseteq KnownAnswer' /\ KnownEvt \subseteq KnownEvt'
    BY <2>1, <2>2, KnownGrow DEF HandleStray
  <2>4. back \in Seq(KnownAnswer') /\ evts \in Seq(KnownEvt')
    BY <2>3, SeqOver DEF Sound
  <2>5. Sound'
    BY <2>1, <2>2, <2>3, <2>4 DEF HandleStray, Sound
  <2> QED  BY Zenon, <2>1, <2>5 DEF HandleStray, MarkedIsUnderway, Underway
<1>2. CASE Break
  <2>1. Elements(out) \subseteq Sent /\ <<>> \in Seq(Sent) /\ breaks' \in Nat
    BY <1>2, ElementsIn DEF Sound, Break
  <2>2. Sound'
    BY <1>2, <2>1, KnownSame DEF Break, Sound
  <2> QED  BY <1>2, <2>2 DEF Break, MarkedIsUnderway, Underway
<1>3. CASE KeyArrives
  BY <1>3, KnownSame DEF KeyArrives, Sound, MarkedIsUnderway, Underway
<1>4. CASE Crash
  <2>1. /\ <<>> \in Seq(KnownCmd) /\ <<>> \in Seq(KnownEvt) /\ Len(<<>>) = 0
        /\ crashes' \in Nat /\ cursor' \in 0 .. counter
    BY <1>4, OutboxAssumption DEF Crash, Sound
  <2>2. /\ link' = "down" /\ stray' \subseteq Sent
        /\ out' \in Seq(Sent) /\ back' \in Seq(KnownAnswer)
    BY <1>4, TearDownStep DEF Crash
  <2>3. /\ cmds' \in Seq(KnownCmd) /\ Len(cmds') <= CmdCap
        /\ evts' \in Seq(KnownEvt) /\ Len(evts') <= EvtCap
    <3>1. cmds' = <<>> /\ evts' = <<>>
      BY <1>4, Zenon DEF Crash
    <3>2. 0 <= CmdCap /\ 0 <= EvtCap
      BY OutboxAssumption
    <3> QED  BY <2>1, <3>1, <3>2, Zenon
  <2>4. Sent' = Sent /\ KnownCmd' = KnownCmd /\ KnownAnswer' = KnownAnswer
        /\ KnownEvt' = KnownEvt
    BY <1>4, KnownSame DEF Crash
  <2>5. /\ status' = "disconnected" /\ inflight' = {} /\ redial' = FALSE /\ missed' = FALSE
        /\ UNCHANGED <<rows, counter, hasKey, applied, refused, breaks, commands>>
    BY <1>4 DEF Crash
  <2>6. Sound'
    BY Zenon, <2>1, <2>2, <2>3, <2>4, <2>5 DEF Sound
  <2> QED  BY <2>5, <2>6 DEF MarkedIsUnderway
<1> QED  BY <1>1, <1>2, <1>3, <1>4

--------------------------------------------------------------------------------
LEMMA NextInv == OutboxInv /\ [Next]_vars => OutboxInv'
<1> SUFFICES ASSUME OutboxInv, [Next]_vars PROVE OutboxInv'
  OBVIOUS
<1> USE DEF OutboxInv
<1>1. Numbered' /\ NeverLost'
  BY AbstractStep, NumberedStep, NeverLostStep
<1>2. CASE Editor
  BY <1>1, <1>2, EnqueueStep, DrainStep, UserCommandStep, HandleEventStep DEF Editor
<1>3. CASE BridgeCommand
  BY <1>1, <1>3, UpdateCommandStep, ConnectCommandStep DEF BridgeCommand
<1>4. CASE Receive \/ NoticeBreak \/ Reconnect \/ GiveUp
  BY <1>1, <1>4, ReceiveStep, LinkStep
<1>5. CASE World
  BY <1>1, <1>5, HandleStep, WorldStep DEF World
<1>6. CASE UNCHANGED vars
  <2>1. Sound'
    BY <1>6, KnownSame
    DEF vars, storeVars, editorVars, netVars, daemonVars, countVars, Sound
  <2>2. MarkedIsUnderway'
    BY Zenon, <1>6 DEF vars, editorVars, netVars, MarkedIsUnderway, Underway
  <2> QED  BY <1>1, <2>1, <2>2
<1> QED  BY <1>2, <1>3, <1>4, <1>5, <1>6 DEF Next

\* The inductive invariant the theorems below rest on.
THEOREM OutboxInvariant == Spec => []OutboxInv
  BY InitInv, NextInv, PTL DEF Spec

\* Every reachable state is well typed; in particular the channels keep to their
\* capacities.
THEOREM OutboxTypeCorrect == Spec => []OutboxTypeOK
<1>1. OutboxInv => OutboxTypeOK
  <2> SUFFICES ASSUME Sound, Numbered PROVE OutboxTypeOK
    BY DEF OutboxInv
  <2>1. Sent \subseteq Ids /\ cursor \in 0 .. MaxEdits
    BY OutboxAssumption DEF Sound, Sent, Ids
  <2>2. KnownCmd \subseteq Cmd /\ KnownEvt \subseteq Evt /\ KnownAnswer \subseteq Answer
    BY Zenon, <2>1 DEF Sound, KnownCmd, KnownEvt, KnownAnswer, Cmd, Evt, Answer
  <2>3. cmds \in Seq(Cmd) /\ evts \in Seq(Evt) /\ back \in Seq(Answer) /\ out \in Seq(Ids)
    BY <2>1, <2>2, SeqOver DEF Sound
  <2> QED  BY <2>1, <2>3 DEF Sound, Numbered, Sent, OutboxTypeOK
<1> QED  BY <1>1, OutboxInvariant, PTL

\* A row that was stored leaves the editor's store only after the daemon answered
\* it, whatever breaks, and whatever the capacity of the channels.
THEOREM OutboxLosesNothing == Spec => []NeverLost
<1>1. OutboxInv => NeverLost
  BY DEF OutboxInv
<1> QED  BY <1>1, OutboxInvariant, PTL

\* A mark in inflight_kb_updates is never left behind, unless an event was dropped
\* or a live connection replaced.
THEOREM OutboxKeepsNoMark == Spec => []MarkedIsUnderway
<1>1. OutboxInv => MarkedIsUnderway
  BY DEF OutboxInv
<1> QED  BY <1>1, OutboxInvariant, PTL

\* The editor, the bridge and the connection implement the abstract outbox: initial
\* states map to initial states, every step to a step or a stutter.
THEOREM OutboxRefines == Spec => IsAnOutbox
<1>1. Init => Abstract!OutboxInit
  BY DEF Init, Abstract!OutboxInit
<1>2. OutboxInv /\ [Next]_vars => [Abstract!OutboxNext]_(Abstract!outboxVars)
  BY AbstractStep DEF OutboxInv
<1> QED  BY <1>1, <1>2, OutboxInvariant, PTL DEF Spec, IsAnOutbox, Abstract!OutboxSpec

================================================================================
