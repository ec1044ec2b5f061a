----------------------------- MODULE TextSyncProofs -----------------------------
(***************************************************************************)
(* Text buffers for any number of editors and any capacity of the queues:  *)
(* what an editor shows, once nothing is under way, is part of the         *)
(* document, holds every edit of the others it listens to, and all that    *)
(* the document held when the editor last connected.                       *)
(*                                                                         *)
(* First the inductive invariant, facts about sequences, and what a step   *)
(* that leaves an editor alone keeps for it; then the steps that fill and  *)
(* empty the editor's channels, the daemon's steps, and the theorems.      *)
(***************************************************************************)
EXTENDS TextSync, TLAPS

Own(c) == {c} \X (1 .. MaxEdits)

EdState ==
    [open : BOOLEAN, buf : SUBSET Edits, pending : Seq(Edits), synced : BOOLEAN,
     offline : BOOLEAN, connected : BOOLEAN, slot : {"none", "join", "sync"},
     again : BOOLEAN]

BrState == [shared : BOOLEAN, seq : Nat, recent : BOOLEAN, force : {"due", "done", "skipped"}]

\* The answers to a join and to a ForceSync: both carry the document's state.
States == {"joined", "resynced"}

Cmd == [kind : {"update"}, edit : Edits] \cup [kind : {"join", "sync"}, edit : {None}]

Msg == [kind : States, edit : {None}, seq : Nat, state : SUBSET doc]
         \cup [kind : {"update"}, edit : doc, seq : Nat, state : {{}}]

Evt == [kind : {"remote"}, edit : doc, state : {{}}]
         \cup [kind : {"connected", "disconnected", "gap"} \cup States, edit : {None},
               state : SUBSET doc]

\* What travels is known: edits and states come from the document.
Known ==
    /\ ed \in [Clients -> EdState]
    /\ br \in [Clients -> BrState]
    /\ link \in [Clients -> {"up", "broken", "down"}]
    /\ cmds \in [Clients -> Seq(Cmd)]
    /\ evts \in [Clients -> Seq(Evt)]
    /\ out \in [Clients -> Seq(Cmd)]
    /\ back \in [Clients -> Seq(Msg)]
    /\ queue \in [Clients -> Seq(doc)]
    /\ serving \in [Clients -> doc \cup {None}]
    /\ delivered \in [Clients -> Nat]
    /\ base \in [Clients -> SUBSET doc]
    /\ doc \subseteq Edits
    /\ typed \in 0 .. MaxEdits

\* No channel is above its capacity.
Fits ==
    \A c \in Clients :
      Len(cmds[c]) <= CmdCap /\ Len(evts[c]) <= EvtCap /\ Len(queue[c]) <= QueueCap

\* What editor c sends is its own; a buffer that is not open holds nothing; a
\* connection that is down carries nothing; an answer is as new as the connection.
Proper(c) ==
    /\ Elements(ed[c].pending) \subseteq Own(c)
    /\ \A m \in Elements(cmds[c]) \cup Elements(out[c]) :
         m.kind = "update" => m.edit \in Own(c)
    /\ serving[c] # None => serving[c] \in Own(c)
    /\ ed[c].synced => ed[c].open
    /\ ed[c].offline => ed[c].open
    /\ ~ ed[c].open => ed[c].buf = {}
    /\ link[c] = "down" => out[c] = <<>> /\ back[c] = <<>> /\ ~ br[c].shared
    /\ \A m \in Elements(back[c]) : m.kind \in States => base[c] \subseteq m.state

--------------------------------------------------------------------------------
(***************************************************************************)
(* What is under way for an editor whose channels never were full.         *)
(***************************************************************************)
Has(s, kinds) == \E m \in Elements(s) : m.kind \in kinds

Carries(s, kind, e) == \E m \in Elements(s) : m.kind = kind /\ m.edit = e

\* The members of s after position i.
Rest(s, i) == {s[j] : j \in i + 1 .. Len(s)}

\* The ForceSync that follows a reconnect is on its way to the bridge.
Asking(c) == br[c].force = "due" /\ (ed[c].again \/ Has(cmds[c], {"sync"}))

\* A state that was asked for on this connection and has not reached the events.
Requested(c) == Has(out[c], {"sync", "join"}) \/ Has(back[c], States)

\* One of those that replace the buffer.
Replacing(c) == Has(out[c], {"sync"}) \/ Has(back[c], {"resynced"})

\* A lost connection reaches the editor before the next one does, and finds or
\* leaves its buffer offline.
Noticed(c) ==
    /\ link[c] = "down" =>
         IF evts[c] = <<>> THEN ed[c].open => ed[c].offline
         ELSE evts[c][Len(evts[c])].kind = "disconnected"
    /\ \A i \in 1 .. Len(evts[c]) : evts[c][i].kind = "connected" =>
         IF i = 1 THEN ed[c].open => ed[c].offline
         ELSE evts[c][i - 1].kind = "disconnected"

\* An edit in the buffer is in the document or on its way there, or the buffer is
\* going to be replaced, or the debounce has dropped the ForceSync.
Accounted(c) ==
    link[c] = "up" /\ br[c].force # "skipped" => \A e \in ed[c].buf :
      \/ e \in doc \/ e \in Elements(ed[c].pending)
      \/ Carries(cmds[c], "update", e) \/ Carries(out[c], "update", e)
      \/ Asking(c) \/ Replacing(c) \/ Has(evts[c], {"resynced"})
      \/ br[c].force = "due" /\ Has(evts[c], {"connected"})

\* The editor shows the buffer now (0), and after the event at position i if that
\* brings a state; what it then shows at least.
Shows(c, i) == IF i = 0 THEN ed[c].open ELSE evts[c][i].kind \in States

Contents(c, i) == IF i = 0 THEN ed[c].buf ELSE evts[c][i].state

\* A buffer that lacks something of base will get it: with a later event, or with
\* the answer to a request.
Replaced(c, i) ==
    \E m \in Rest(evts[c], i) :
      \/ m.kind = "connected" /\ br[c].force = "due"
      \/ m.kind \in States /\ base[c] \subseteq m.state

CaughtUp(c) ==
    link[c] = "up" /\ br[c].force # "skipped" /\ ~ Asking(c) /\ ~ Requested(c) =>
      \A i \in 0 .. Len(evts[c]) :
        Shows(c, i) => base[c] \subseteq Contents(c, i) \/ Replaced(c, i)

\* Edit e has not reached the connection of c yet.
OnTheWay(c, e) ==
    (\E d \in Clients \ {c} : serving[d] = e) \/ e \in Elements(queue[c])

\* An edit of another that a buffer lacks comes after it, or with a later state.
Follows(c, i, e) ==
    \E m \in Rest(evts[c], i) : m.kind \in States \/ (m.kind = "remote" /\ m.edit = e)

Heard(c) ==
    link[c] = "up" /\ br[c].shared /\ ~ Requested(c) =>
      \A i \in 0 .. Len(evts[c]) : Shows(c, i) =>
        \A e \in doc \ Own(c) :
          \/ e \in Contents(c, i) \/ OnTheWay(c, e) \/ Carries(back[c], "update", e)
          \/ Follows(c, i, e)

\* An edit of another that an answer lacks comes after it on the same connection.
Answers(c) ==
    link[c] = "up" =>
      \A i \in 1 .. Len(back[c]) : back[c][i].kind \in States =>
        \A e \in doc \ Own(c) :
          \/ e \in back[c][i].state \/ OnTheWay(c, e)
          \/ \E m \in Rest(back[c], i) : m.kind = "update" /\ m.edit = e

Tracked(c) == Noticed(c) /\ Accounted(c) /\ CaughtUp(c) /\ Heard(c) /\ Answers(c)

TextInv ==
    /\ Known /\ Fits
    /\ \A c \in Clients : Proper(c)
    /\ \A c \in Clients \ lossy : Tracked(c)

--------------------------------------------------------------------------------
(***************************************************************************)
(* Sequences.                                                              *)
(***************************************************************************)
LEMMA Popped ==
    ASSUME NEW S, NEW s \in Seq(S), s # <<>>
    PROVE  /\ Head(s) \in S /\ Head(s) = s[1] /\ Tail(s) \in Seq(S)
           /\ Len(s) \in Nat \ {0} /\ Len(Tail(s)) = Len(s) - 1
           /\ \A i \in 1 .. Len(Tail(s)) : Tail(s)[i] = s[i + 1]
           /\ \A i \in 0 .. Len(Tail(s)) : Rest(Tail(s), i) = Rest(s, i + 1)
           /\ Elements(s) = Elements(Tail(s)) \cup {Head(s)}
<1>1. /\ Head(s) \in S /\ Tail(s) \in Seq(S)
      /\ Len(Tail(s)) = Len(s) - 1
      /\ \A i \in 1 .. Len(Tail(s)) : Tail(s)[i] = s[i + 1]
  OBVIOUS
<1>2. Len(s) \in Nat /\ Len(s) # 0 /\ Head(s) = s[1]
  OBVIOUS
<1>3. ASSUME NEW i \in 0 .. Len(Tail(s)) PROVE Rest(Tail(s), i) = Rest(s, i + 1)
  <2>1. ASSUME NEW x \in Rest(Tail(s), i) PROVE x \in Rest(s, i + 1)
    <3>1. PICK j \in i + 1 .. Len(Tail(s)) : x = Tail(s)[j]
      BY Zenon DEF Rest
    <3>2. x = s[j + 1] /\ j + 1 \in (i + 1) + 1 .. Len(s)
      BY <1>1, <1>2, <3>1
    <3> QED  BY <3>2 DEF Rest
  <2>2. ASSUME NEW x \in Rest(s, i + 1) PROVE x \in Rest(Tail(s), i)
    <3>1. PICK j \in (i + 1) + 1 .. Len(s) : x = s[j]
      BY DEF Rest
    <3>2. x = Tail(s)[j - 1] /\ j - 1 \in i + 1 .. Len(Tail(s))
      BY <1>1, <1>2, <3>1
    <3> QED  BY <3>2 DEF Rest
  <2> QED  BY <2>1, <2>2, Zenon
<1>4. Elements(Tail(s)) \cup {Head(s)} \subseteq Elements(s)
  BY <1>1, <1>2 DEF Elements
<1>5. ASSUME NEW i \in 1 .. Len(s) PROVE s[i] \in Elements(Tail(s)) \cup {Head(s)}
  <2>1. CASE i = 1
    BY <1>2, <2>1
  <2>2. CASE i # 1
    <3>1. i - 1 \in 1 .. Len(Tail(s)) /\ (i - 1) + 1 = i
      BY <1>1, <1>2, <2>2
    <3> QED  BY <1>1, <3>1 DEF Elements
  <2> QED  BY <2>1, <2>2
<1> QED  BY <1>1, <1>2, <1>3, <1>4, <1>5 DEF Elements

LEMMA RestOfAll ==
    ASSUME NEW S, NEW s \in Seq(S) PROVE Rest(s, 0) = Elements(s) /\ Len(s) \in Nat
  BY DEF Rest, Elements

LEMMA Joined ==
    ASSUME NEW S, NEW s \in Seq(S), NEW t \in Seq(S)
    PROVE  /\ s \o t \in Seq(S) /\ Len(s \o t) = Len(s) + Len(t)
           /\ Elements(s \o t) = Elements(s) \cup Elements(t)
           /\ \A i \in 1 .. Len(s) : (s \o t)[i] = s[i]
           /\ \A i \in 0 .. Len(s) : Rest(s \o t, i) = Rest(s, i) \cup Elements(t)
           /\ \A i \in Len(s) + 1 .. Len(s) + Len(t) : (s \o t)[i] = t[i - Len(s)]
<1>1. /\ s \o t \in Seq(S) /\ Len(s \o t) = Len(s) + Len(t)
      /\ \A i \in 1 .. Len(s) + Len(t) :
           (s \o t)[i] = IF i <= Len(s) THEN s[i] ELSE t[i - Len(s)]
  OBVIOUS
<1>2. Len(s) \in Nat /\ Len(t) \in Nat
  OBVIOUS
<1>3. \A i \in 1 .. Len(s) : (s \o t)[i] = s[i]
  BY <1>1, <1>2
<1>4. \A i \in Len(s) + 1 .. Len(s) + Len(t) : (s \o t)[i] = t[i - Len(s)]
  BY <1>1, <1>2
<1>5. ASSUME NEW i \in 0 .. Len(s) PROVE Rest(s \o t, i) = Rest(s, i) \cup Elements(t)
  <2>1. ASSUME NEW x \in Rest(s \o t, i) PROVE x \in Rest(s, i) \cup Elements(t)
    <3>1. PICK j \in i + 1 .. Len(s \o t) : x = (s \o t)[j]
      BY DEF Rest
    <3>2. CASE j <= Len(s)
      BY <1>2, <1>3, <3>1, <3>2 DEF Rest
    <3>3. CASE j > Len(s)
      <4>1. x = t[j - Len(s)] /\ j - Len(s) \in 1 .. Len(t)
        BY <1>1, <1>2, <1>4, <3>1, <3>3
      <4> QED  BY <4>1 DEF Elements
    <3> QED  BY <1>2, <3>2, <3>3
  <2>2. ASSUME NEW x \in Rest(s, i) PROVE x \in Rest(s \o t, i)
    BY <1>1, <1>2, <1>3 DEF Rest
  <2>3. ASSUME NEW x \in Elements(t) PROVE x \in Rest(s \o t, i)
    <3>1. PICK j \in 1 .. Len(t) : x = t[j]
      BY DEF Elements
    <3>2. j + Len(s) \in i + 1 .. Len(s \o t) /\ j + Len(s) \in Len(s) + 1 .. Len(s) + Len(t)
          /\ (j + Len(s)) - Len(s) = j
      BY <1>1, <1>2, <3>1
    <3>3. x = (s \o t)[j + Len(s)]
      BY <1>4, <3>1, <3>2
    <3> QED  BY <3>2, <3>3 DEF Rest
  <2> QED  BY <2>1, <2>2, <2>3
<1>6. Elements(s \o t) = Elements(s) \cup Elements(t)
  <2>1. Rest(s \o t, 0) = Elements(s \o t) /\ Rest(s, 0) = Elements(s)
    BY <1>1, RestOfAll, Zenon
  <2>2. 0 \in 0 .. Len(s)
    BY <1>2
  <2> QED  BY <1>5, <2>1, <2>2
<1> QED  BY <1>1, <1>3, <1>4, <1>5, <1>6

LEMMA Single ==
    ASSUME NEW S, NEW x \in S
    PROVE  <<x>> \in Seq(S) /\ Len(<<x>>) = 1 /\ <<x>>[1] = x /\ Elements(<<x>>) = {x}
  BY DEF Elements

LEMMA Empty == Elements(<<>>) = {} /\ Len(<<>>) = 0
  BY DEF Elements

LEMMA NothingIn == ASSUME NEW S, NEW s \in Seq(S), Len(s) = 0 PROVE s = <<>>
  OBVIOUS

LEMMA Appended ==
    ASSUME NEW S, NEW s \in Seq(S), NEW x \in S
    PROVE  /\ Append(s, x) \in Seq(S) /\ Len(Append(s, x)) = Len(s) + 1
           /\ Elements(Append(s, x)) = Elements(s) \cup {x}
           /\ \A i \in 1 .. Len(s) : Append(s, x)[i] = s[i]
           /\ \A i \in 0 .. Len(s) : Rest(Append(s, x), i) = Rest(s, i) \cup {x}
           /\ Append(s, x)[Len(s) + 1] = x
<1>1. Append(s, x) = s \o <<x>>
  OBVIOUS
<1>2. <<x>> \in Seq(S) /\ Len(<<x>>) = 1 /\ <<x>>[1] = x /\ Elements(<<x>>) = {x}
  BY Single
<1>3. Append(s, x)[Len(s) + 1] = x
  OBVIOUS
<1>4. /\ s \o <<x>> \in Seq(S) /\ Len(s \o <<x>>) = Len(s) + 1
      /\ Elements(s \o <<x>>) = Elements(s) \cup {x}
      /\ \A i \in 1 .. Len(s) : (s \o <<x>>)[i] = s[i]
      /\ \A i \in 0 .. Len(s) : Rest(s \o <<x>>, i) = Rest(s, i) \cup {x}
  <2>1. ASSUME NEW t \in Seq(S), Len(t) = 1, Elements(t) = {x}
        PROVE  /\ s \o t \in Seq(S) /\ Len(s \o t) = Len(s) + 1
               /\ Elements(s \o t) = Elements(s) \cup {x}
               /\ \A i \in 1 .. Len(s) : (s \o t)[i] = s[i]
               /\ \A i \in 0 .. Len(s) : Rest(s \o t, i) = Rest(s, i) \cup {x}
    <3>1. s \o t \in Seq(S) /\ Len(s \o t) = Len(s) + Len(t)
      BY Joined
    <3>2. Elements(s \o t) = Elements(s) \cup Elements(t)
      BY Joined
    <3>3. \A i \in 1 .. Len(s) : (s \o t)[i] = s[i]
      BY Joined
    <3>4. \A i \in 0 .. Len(s) : Rest(s \o t, i) = Rest(s, i) \cup Elements(t)
      BY Joined
    <3> QED  BY <2>1, <3>1, <3>2, <3>3, <3>4
  <2> QED  BY <1>2, <2>1, Zenon
<1> QED  BY <1>1, <1>3, <1>4, Zenon

\* The beginning of a sequence.
LEMMA Prefix ==
    ASSUME NEW S, NEW s \in Seq(S), NEW n \in 0 .. Len(s)
    PROVE  SubSeq(s, 1, n) \in Seq(S) /\ Len(SubSeq(s, 1, n)) = n
           /\ n = Len(s) => SubSeq(s, 1, n) = s
           /\ \A i \in 1 .. n : SubSeq(s, 1, n)[i] = s[i]
  OBVIOUS

LEMMA ElementsIn ==
    ASSUME NEW S, NEW s \in Seq(S) PROVE Elements(s) \subseteq S
  BY DEF Elements

\* What fits into a channel of capacity cap.
LEMMA Truncated ==
    ASSUME NEW S, NEW s \in Seq(S), NEW t \in Seq(S), NEW cap \in Nat, Len(s) <= cap,
           NEW n, n = IF Len(t) <= cap - Len(s) THEN Len(t) ELSE cap - Len(s)
    PROVE  /\ s \o SubSeq(t, 1, n) \in Seq(S) /\ Len(s \o SubSeq(t, 1, n)) <= cap
           /\ Elements(s \o SubSeq(t, 1, n)) \subseteq Elements(s) \cup Elements(t)
           /\ ~ (n < Len(t)) => s \o SubSeq(t, 1, n) = s \o t
<1>1. Len(s) \in Nat /\ Len(t) \in Nat
  OBVIOUS
<1>2. n \in 0 .. Len(t) /\ n <= cap - Len(s)
  BY <1>1
<1>3. /\ SubSeq(t, 1, n) \in Seq(S) /\ Len(SubSeq(t, 1, n)) = n
      /\ \A i \in 1 .. n : SubSeq(t, 1, n)[i] = t[i]
  BY <1>2, Prefix
<1>4. n = Len(t) => SubSeq(t, 1, n) = t
  BY <1>2, Prefix
<1>5. Elements(SubSeq(t, 1, n)) \subseteq Elements(t)
  BY <1>1, <1>2, <1>3 DEF Elements
<1>6. ASSUME NEW q \in Seq(S), Len(q) = n, Elements(q) \subseteq Elements(t)
      PROVE  /\ s \o q \in Seq(S) /\ Len(s \o q) <= cap
             /\ Elements(s \o q) \subseteq Elements(s) \cup Elements(t)
  <2>1. s \o q \in Seq(S) /\ Len(s \o q) = Len(s) + Len(q)
    BY Joined
  <2>2. Elements(s \o q) = Elements(s) \cup Elements(q)
    BY Joined
  <2>3. Len(s) + n <= cap
    BY <1>1, <1>2
  <2> QED  BY <1>6, <2>1, <2>2, <2>3
<1>7. ~ (n < Len(t)) => n = Len(t)
  BY <1>1, <1>2
<1> QED  BY <1>3, <1>4, <1>5, <1>6, <1>7, Zenon

\* A position after one more element is appended.
LEMMA LastOrEarlier ==
    ASSUME NEW n \in Nat, NEW i \in 1 .. n + 1
    PROVE  i = n + 1 \/ i \in 1 .. n
  OBVIOUS

LEMMA FromZero ==
    ASSUME NEW n \in Nat, NEW i \in 0 .. n + 1
    PROVE  i = n + 1 \/ i \in 0 .. n
  OBVIOUS

LEMMA Previous ==
    ASSUME NEW n \in Nat, NEW i \in 1 .. n, i # 1
    PROVE  i - 1 \in 1 .. n
  OBVIOUS

LEMMA Beyond ==
    ASSUME NEW n \in Nat, NEW m \in Nat, NEW i \in 1 .. m
    PROVE  i \in 1 .. n \/ i \in n + 1 .. m
  OBVIOUS

LEMMA Offset ==
    ASSUME NEW n \in Nat, NEW k \in Nat, NEW i \in n + 1 .. n + k
    PROVE  i - n \in 1 .. k
  OBVIOUS

LEMMA Room ==
    ASSUME NEW n \in Nat, NEW cap \in Nat, n <= cap, n # cap
    PROVE  n + 1 <= cap
  OBVIOUS

LEMMA Incremented ==
    ASSUME NEW f \in [Clients -> Nat], NEW c \in Clients
    PROVE  [f EXCEPT ![c] = @ + 1] \in [Clients -> Nat]
  OBVIOUS

LEMMA Cleared ==
    ASSUME NEW S, NEW f \in [Clients -> Seq(S)], NEW c \in Clients
    PROVE  [f EXCEPT ![c] = <<>>] \in [Clients -> Seq(S)]
  OBVIOUS

\* The messages the daemon writes are messages, and what they carry.
LEMMA Notification ==
    ASSUME NEW q \in doc, NEW k \in Nat
    PROVE  LET m == [kind |-> "update", edit |-> q, seq |-> k + 1, state |-> {}]
           IN m \in Msg /\ m.kind = "update" /\ m.edit = q
  BY DEF Msg

LEMMA Caps == CmdCap \in Nat /\ EvtCap \in Nat /\ QueueCap \in Nat
  BY TextAssumption

LEMMA LenEvts == ASSUME TextInv, NEW c \in Clients PROVE Len(evts[c]) \in Nat
  BY DEF TextInv, Known

LEMMA QueueFits ==
    ASSUME TextInv, NEW c \in Clients
    PROVE  queue[c] \in Seq(doc) /\ Len(queue[c]) <= QueueCap /\ Len(queue[c]) \in Nat
  BY DEF TextInv, Known, Fits

--------------------------------------------------------------------------------
(***************************************************************************)
(* What the invariant gives, and that it holds at the start.               *)
(***************************************************************************)
LEMMA NoneIsNoEdit == None \notin Edits
  BY TextAssumption DEF Edits

\* The types.
LEMMA InvTyped == TextInv => TextTypeOK
<1> SUFFICES ASSUME TextInv PROVE TextTypeOK
  OBVIOUS
<1>1. \A c \in Clients : ed[c].synced => ed[c].open
  BY DEF TextInv, Proper
<1>2. serving \in [Clients -> Edits \cup {None}]
  BY DEF TextInv, Known
<1>3. ed \in [Clients -> [open : BOOLEAN, buf : SUBSET Edits, pending : Seq(Edits),
                          synced : BOOLEAN, offline : BOOLEAN, connected : BOOLEAN,
                          slot : {"none", "join", "sync"}, again : BOOLEAN]]
  BY Zenon DEF TextInv, Known, EdState
<1>4. /\ link \in [Clients -> {"up", "broken", "down"}] /\ doc \subseteq Edits
      /\ delivered \in [Clients -> Nat]
      /\ \A c \in Clients :
           Len(cmds[c]) <= CmdCap /\ Len(evts[c]) <= EvtCap /\ Len(queue[c]) <= QueueCap
  BY Zenon DEF TextInv, Known, Fits
<1>5. br \in [Clients -> [shared : BOOLEAN, seq : Nat, recent : BOOLEAN,
                          force : {"due", "done", "skipped"}]]
  BY Zenon DEF TextInv, Known, BrState
<1> QED  BY Zenon, <1>1, <1>2, <1>3, <1>4, <1>5 DEF TextTypeOK

\* With nothing under way, Accounted leaves only the document.
LEMMA InvShared == TextInv => ShownIsShared
<1> SUFFICES ASSUME TextInv, NEW c \in Clients \ lossy, Quiet(c), ~ Skipped(c),
                    NEW e \in ed[c].buf
             PROVE  e \in doc
  BY DEF ShownIsShared
<1>1. /\ link[c] = "up" /\ ~ ed[c].again /\ ed[c].pending = <<>>
      /\ cmds[c] = <<>> /\ evts[c] = <<>> /\ out[c] = <<>> /\ back[c] = <<>>
  BY DEF Quiet
<1>2. Accounted(c)
  BY DEF TextInv, Tracked
<1> QED  BY <1>1, <1>2, Empty DEF Accounted, Asking, Replacing, Has, Carries, Skipped

\* With nothing under way, Heard leaves only the buffer.
LEMMA InvArrives == TextInv => RemoteArrives
<1> SUFFICES ASSUME TextInv, NEW c \in Clients \ lossy, Quiet(c), ed[c].open, br[c].shared,
                    NEW e \in doc, e[1] # c
             PROVE  e \in ed[c].buf
  BY DEF RemoteArrives
<1>1. /\ link[c] = "up" /\ evts[c] = <<>> /\ out[c] = <<>> /\ back[c] = <<>>
      /\ queue[c] = <<>> /\ \A d \in Clients : serving[d] = None
  BY DEF Quiet
<1>2. Heard(c)
  BY DEF TextInv, Tracked
<1>3. e \in Edits /\ e \notin Own(c) /\ e # None
  BY NoneIsNoEdit DEF TextInv, Known, Own
<1>4. ~ Requested(c)
  BY <1>1, Empty DEF Requested, Has
<1>5. ~ OnTheWay(c, e)
  BY <1>1, <1>3, Empty DEF OnTheWay
<1>6. ~ Carries(back[c], "update", e) /\ ~ Follows(c, 0, e)
  BY <1>1, Empty DEF Carries, Follows, Rest
<1>7. 0 \in 0 .. Len(evts[c]) /\ Shows(c, 0) /\ Contents(c, 0) = ed[c].buf
  BY <1>1, Empty DEF Shows, Contents
<1> QED  BY <1>1, <1>2, <1>3, <1>4, <1>5, <1>6, <1>7 DEF Heard

\* With nothing asked for or under way, CaughtUp leaves only the buffer.
LEMMA InvCaughtUp == TextInv => ReconnectCatchesUp
<1> SUFFICES ASSUME TextInv, NEW c \in Clients \ lossy, Quiet(c), ed[c].open, ~ Skipped(c)
             PROVE  base[c] \subseteq ed[c].buf
  BY DEF ReconnectCatchesUp
<1>1. /\ link[c] = "up" /\ ~ ed[c].again
      /\ cmds[c] = <<>> /\ evts[c] = <<>> /\ out[c] = <<>> /\ back[c] = <<>>
  BY DEF Quiet
<1>2. CaughtUp(c)
  BY DEF TextInv, Tracked
<1>3. ~ Asking(c) /\ ~ Requested(c)
  BY <1>1, Empty DEF Asking, Requested, Replacing, Has
<1>4. 0 \in 0 .. Len(evts[c]) /\ Shows(c, 0) /\ Contents(c, 0) = ed[c].buf
  BY <1>1, Empty DEF Shows, Contents
<1>5. ~ Replaced(c, 0)
  BY <1>1, Empty DEF Replaced, Rest
<1> QED  BY <1>1, <1>2, <1>3, <1>4, <1>5 DEF CaughtUp, Skipped

LEMMA TextInvInit == Init => TextInv
<1> SUFFICES ASSUME Init PROVE TextInv
  OBVIOUS
<1>1. Known
  <2>1. MaxEdits \in Nat /\ 0 \in 0 .. MaxEdits
    BY TextAssumption
  <2>2. ed \in [Clients -> EdState]
    <3>1. ASSUME NEW b \in BOOLEAN, NEW i \in {"none", "join"}
          PROVE  [open |-> b, buf |-> {}, pending |-> <<>>, synced |-> b, offline |-> FALSE,
                  connected |-> TRUE, slot |-> i, again |-> FALSE] \in EdState
      BY DEF EdState
    <3>2. \A c : /\ (c = Sharer) \in BOOLEAN
                 /\ (IF c = Sharer THEN "none" ELSE "join") \in {"none", "join"}
      OBVIOUS
    <3> QED  BY <3>1, <3>2, Zenon DEF Init
  <2>3. br \in [Clients -> BrState]
    BY TextAssumption DEF Init, BrState
  <2> QED  BY <2>1, <2>2, <2>3 DEF Init, Known
<1>2. Fits
  BY Caps, Empty DEF Init, Fits
<1>3. ASSUME NEW c \in Clients PROVE Proper(c) /\ Tracked(c)
  <2>1. /\ ed[c].buf = {} /\ ed[c].pending = <<>> /\ ~ ed[c].offline
        /\ ed[c].open = (c = Sharer) /\ ed[c].synced = (c = Sharer)
    BY DEF Init
  <2>2. /\ cmds[c] = <<>> /\ evts[c] = <<>> /\ out[c] = <<>> /\ back[c] = <<>>
        /\ serving[c] = None /\ link[c] = "up" /\ base[c] = {} /\ doc = {}
    BY DEF Init
  <2>3. Proper(c)
    BY <2>1, <2>2, Empty DEF Proper
  <2>4. Tracked(c)
    <3>1. Noticed(c) /\ Answers(c)
      BY <2>2, Empty DEF Noticed, Answers
    <3>2. Accounted(c)
      BY <2>1 DEF Accounted
    <3>3. CaughtUp(c)
      <4>1. \A i \in 0 .. Len(evts[c]) : base[c] \subseteq Contents(c, i)
        BY <2>2
      <4> QED  BY <4>1 DEF CaughtUp
    <3>4. Heard(c)
      BY <2>2 DEF Heard
    <3> QED  BY <3>1, <3>2, <3>3, <3>4 DEF Tracked
  <2> QED  BY <2>3, <2>4
<1> QED  BY <1>1, <1>2, <1>3 DEF TextInv

--------------------------------------------------------------------------------
(***************************************************************************)
(* Sending and reporting.                                                  *)
(***************************************************************************)
LEMMA Sent ==
    ASSUME Known, Fits, NEW c \in Clients, NEW s \in Seq(Cmd), Send(c, s)
    PROVE  /\ cmds' \in [Clients -> Seq(Cmd)] /\ Len(cmds'[c]) <= CmdCap
           /\ \A d \in Clients \ {c} : cmds'[d] = cmds[d]
           /\ Elements(cmds'[c]) \subseteq Elements(cmds[c]) \cup Elements(s)
           /\ lossy \subseteq lossy' /\ lossy' \subseteq lossy \cup {c}
           /\ c \notin lossy' => Elements(cmds'[c]) = Elements(cmds[c]) \cup Elements(s)
<1> DEFINE n == IF Len(s) <= CmdCap - Len(cmds[c]) THEN Len(s) ELSE CmdCap - Len(cmds[c])
<1>1. /\ cmds' = [cmds EXCEPT ![c] = @ \o SubSeq(s, 1, n)]
      /\ lossy' = IF n < Len(s) THEN lossy \cup {c} ELSE lossy
  BY DEF Send
<1>2. n = IF Len(s) <= CmdCap - Len(cmds[c]) THEN Len(s) ELSE CmdCap - Len(cmds[c])
  OBVIOUS
<1> HIDE DEF n
<1>3. cmds \in [Clients -> Seq(Cmd)] /\ cmds[c] \in Seq(Cmd) /\ Len(cmds[c]) <= CmdCap
  BY DEF Known, Fits
<1>4. /\ cmds[c] \o SubSeq(s, 1, n) \in Seq(Cmd) /\ Len(cmds[c] \o SubSeq(s, 1, n)) <= CmdCap
      /\ Elements(cmds[c] \o SubSeq(s, 1, n)) \subseteq Elements(cmds[c]) \cup Elements(s)
      /\ ~ (n < Len(s)) => cmds[c] \o SubSeq(s, 1, n) = cmds[c] \o s
  BY <1>2, <1>3, Caps, Truncated
<1>5. Elements(cmds[c] \o s) = Elements(cmds[c]) \cup Elements(s)
  BY <1>3, Joined
<1>6. cmds'[c] = cmds[c] \o SubSeq(s, 1, n) /\ \A d \in Clients \ {c} : cmds'[d] = cmds[d]
  BY <1>1, <1>3, Zenon
<1>7. cmds' \in [Clients -> Seq(Cmd)]
  BY <1>1, <1>3, <1>4
<1>8. c \notin lossy' => ~ (n < Len(s))
  BY <1>1
<1> QED  BY <1>1, <1>4, <1>5, <1>6, <1>7, <1>8, Zenon

LEMMA Posted ==
    ASSUME Known, Fits, NEW c \in Clients, NEW m \in Cmd, Send(c, <<m>>)
    PROVE  /\ cmds' \in [Clients -> Seq(Cmd)] /\ Len(cmds'[c]) <= CmdCap
           /\ \A d \in Clients \ {c} : cmds'[d] = cmds[d]
           /\ Elements(cmds'[c]) \subseteq Elements(cmds[c]) \cup {m}
           /\ lossy \subseteq lossy' /\ lossy' \subseteq lossy \cup {c}
           /\ c \notin lossy' => Elements(cmds'[c]) = Elements(cmds[c]) \cup {m}
<1>1. <<m>> \in Seq(Cmd) /\ Elements(<<m>>) = {m}
  BY Single
<1> DEFINE s == <<m>>
<1>2. s \in Seq(Cmd) /\ Send(c, s) /\ Elements(s) = {m}
  BY <1>1
<1> HIDE DEF s
<1>3. /\ cmds' \in [Clients -> Seq(Cmd)] /\ Len(cmds'[c]) <= CmdCap
      /\ \A d \in Clients \ {c} : cmds'[d] = cmds[d]
  BY <1>2, Sent
<1>4. lossy \subseteq lossy' /\ lossy' \subseteq lossy \cup {c}
  BY <1>2, Sent
<1>5. Elements(cmds'[c]) \subseteq Elements(cmds[c]) \cup Elements(s)
  BY <1>2, Sent, Zenon
<1>6. c \notin lossy' => Elements(cmds'[c]) = Elements(cmds[c]) \cup Elements(s)
  BY <1>2, Sent, Zenon
<1> QED  BY <1>2, <1>3, <1>4, <1>5, <1>6, Zenon

LEMMA Reported ==
    ASSUME Known, Fits, doc' = doc, NEW c \in Clients, NEW s \in Seq(Evt), Report(c, s)
    PROVE  /\ evts' \in [Clients -> Seq(Evt')] /\ Len(evts'[c]) <= EvtCap
           /\ \A d \in Clients \ {c} : evts'[d] = evts[d]
           /\ lossy \subseteq lossy' /\ lossy' \subseteq lossy \cup {c}
           /\ c \notin lossy' => evts'[c] = evts[c] \o s
<1> DEFINE n == IF Len(s) <= EvtCap - Len(evts[c]) THEN Len(s) ELSE EvtCap - Len(evts[c])
<1>1. /\ evts' = [evts EXCEPT ![c] = @ \o SubSeq(s, 1, n)]
      /\ lossy' = IF n < Len(s) THEN lossy \cup {c} ELSE lossy
  BY DEF Report
<1>2. n = IF Len(s) <= EvtCap - Len(evts[c]) THEN Len(s) ELSE EvtCap - Len(evts[c])
  OBVIOUS
<1> HIDE DEF n
<1>3. evts \in [Clients -> Seq(Evt)] /\ evts[c] \in Seq(Evt) /\ Len(evts[c]) <= EvtCap
  BY DEF Known, Fits
<1>4. /\ evts[c] \o SubSeq(s, 1, n) \in Seq(Evt) /\ Len(evts[c] \o SubSeq(s, 1, n)) <= EvtCap
      /\ Elements(evts[c] \o SubSeq(s, 1, n)) \subseteq Elements(evts[c]) \cup Elements(s)
      /\ ~ (n < Len(s)) => evts[c] \o SubSeq(s, 1, n) = evts[c] \o s
  BY <1>2, <1>3, Caps, Truncated
<1>5. evts'[c] = evts[c] \o SubSeq(s, 1, n) /\ \A d \in Clients \ {c} : evts'[d] = evts[d]
  BY <1>1, <1>3, Zenon
<1>6. evts' \in [Clients -> Seq(Evt)] /\ Evt' = Evt
  <2>1. evts' \in [Clients -> Seq(Evt)]
    BY <1>1, <1>3, <1>4
  <2>2. Evt' = Evt
    BY Zenon DEF Evt
  <2> QED  BY <2>1, <2>2
<1>7. c \notin lossy' => ~ (n < Len(s))
  BY <1>1
<1> QED  BY <1>1, <1>4, <1>5, <1>6, <1>7

--------------------------------------------------------------------------------
(***************************************************************************)
(* What a step leaves alone.                                               *)
(***************************************************************************)
Kept(d) ==
    /\ ed'[d] = ed[d] /\ cmds'[d] = cmds[d] /\ evts'[d] = evts[d] /\ br'[d] = br[d]
    /\ link'[d] = link[d] /\ out'[d] = out[d] /\ back'[d] = back[d] /\ base'[d] = base[d]

Same(d) == Kept(d) /\ queue'[d] = queue[d]

LEMMA ProperElsewhere ==
    ASSUME NEW d \in Clients, Kept(d), serving'[d] = serving[d], Proper(d)
    PROVE  Proper(d)'
  BY Zenon DEF Proper, Same, Kept, Own

\* The document grows, and what is new in it is on its way to c.
Announced(c) ==
    /\ doc \subseteq doc'
    /\ link[c] = "up" => \A e \in doc' \ Own(c) :
         e \notin doc \/ OnTheWay(c, e) => OnTheWay(c, e)'

LEMMA AnswersStay ==
    ASSUME NEW c \in Clients, Answers(c), back'[c] = back[c], Announced(c),
           link'[c] = "up" => link[c] = "up"
    PROVE  Answers(c)'
<1> SUFFICES ASSUME link[c] = "up", NEW i \in 1 .. Len(back[c]), back[c][i].kind \in States,
                    NEW e \in doc' \ Own(c)
             PROVE  \/ e \in back[c][i].state \/ OnTheWay(c, e)'
                    \/ \E m \in Rest(back[c], i) : m.kind = "update" /\ m.edit = e
  BY DEF Answers, Own
<1> QED  BY DEF Answers, Announced

LEMMA TrackedElsewhere ==
    ASSUME NEW d \in Clients, Kept(d), Announced(d), Tracked(d)
    PROVE  Tracked(d)'
<1>1. Asking(d)' = Asking(d) /\ Requested(d)' = Requested(d) /\ Replacing(d)' = Replacing(d)
  BY Zenon DEF Kept, Asking, Requested, Replacing, Has
<1>2. Noticed(d)'
  <2>1. /\ ed'[d] = ed[d] /\ evts'[d] = evts[d] /\ link'[d] = link[d]
        /\ Noticed(d)
    BY Zenon DEF Tracked, Kept
  <2> QED
    BY <2>1 DEF Noticed
<1>3. Accounted(d)'
  BY <1>1 DEF Tracked, Accounted, Kept, Has, Carries, Announced
<1>4. CaughtUp(d)'
  BY Zenon, <1>1 DEF Tracked, CaughtUp, Kept, Shows, Contents, Replaced
<1>5. Heard(d)'
  <2>1. \A e, i : Follows(d, i, e)' = Follows(d, i, e)
    BY Zenon DEF Follows, Kept
  <2>2. \A i : Shows(d, i)' = Shows(d, i) /\ Contents(d, i)' = Contents(d, i)
    BY Zenon DEF Shows, Contents, Kept
  <2>3. \A e : Carries(back[d], "update", e)' = Carries(back[d], "update", e)
    BY Zenon DEF Carries, Kept
  <2> SUFFICES ASSUME link[d] = "up", br[d].shared, ~ Requested(d),
                      NEW i \in 0 .. Len(evts[d]), Shows(d, i), NEW e \in doc' \ Own(d)
               PROVE  \/ e \in Contents(d, i) \/ OnTheWay(d, e)'
                      \/ Carries(back[d], "update", e) \/ Follows(d, i, e)
    BY Zenon, <1>1, <2>1, <2>2, <2>3 DEF Heard, Kept, Own
  <2> QED  BY DEF Tracked, Heard, Announced
<1>6. Answers(d)'
  BY AnswersStay DEF Tracked, Kept
<1> QED  BY Zenon, <1>2, <1>3, <1>4, <1>5, <1>6 DEF Tracked

\* A step of editor c, its bridge or its session keeps the invariant if it does so
\* for c.
LEMMA OneEditor ==
    ASSUME TextInv, NEW c \in Clients, Known', Fits', Proper(c)',
           c \notin lossy' => Tracked(c)',
           \A d \in Clients \ {c} : Same(d),
           lossy \subseteq lossy', doc' = doc, serving' = serving
    PROVE  TextInv'
<1>1. ASSUME NEW d \in Clients \ {c} PROVE Proper(d)' /\ (d \notin lossy' => Tracked(d)')
  <2>1. Proper(d)'
    BY ProperElsewhere DEF TextInv, Same
  <2>2. Kept(d) /\ Announced(d)
    BY Zenon DEF Announced, OnTheWay, Same
  <2>3. d \notin lossy' => Tracked(d)
    BY DEF TextInv
  <2> QED  BY <2>1, <2>2, <2>3, TrackedElsewhere
<1> QED  BY Zenon, <1>1 DEF TextInv

\* The ForceSync after a reconnect, and what was asked for, are dropped only by the
\* debounce.
Onward(c) ==
    \/ br'[c].force = "skipped"
    \/ Requested(c)'
    \/ /\ br'[c].force = br[c].force
       /\ Asking(c) \/ Requested(c) => Asking(c)' \/ Requested(c)'

LEMMA CaughtStays ==
    ASSUME NEW c \in Clients, CaughtUp(c), evts'[c] = evts[c], base'[c] = base[c],
           link'[c] = "up" => link[c] = "up",
           ed'[c].open => ed[c].open, ed[c].buf \subseteq ed'[c].buf,
           Onward(c)
    PROVE  CaughtUp(c)'
<1> SUFFICES ASSUME link'[c] = "up", br'[c].force # "skipped", ~ Asking(c)', ~ Requested(c)',
                    NEW i \in 0 .. Len(evts[c]), Shows(c, i)'
             PROVE  base[c] \subseteq Contents(c, i)' \/ Replaced(c, i)'
  BY Zenon DEF CaughtUp
<1>1. Shows(c, i)
  BY Zenon DEF Shows
<1>2. br'[c].force = br[c].force /\ ~ Asking(c) /\ ~ Requested(c)
  BY Zenon DEF Onward
<1>3. base[c] \subseteq Contents(c, i) \/ Replaced(c, i)
  BY <1>1, <1>2 DEF CaughtUp
<1>4. Replaced(c, i) => Replaced(c, i)'
  BY <1>2, Zenon DEF Replaced
<1>5. Contents(c, i) \subseteq Contents(c, i)'
  BY DEF Contents
<1> QED  BY <1>3, <1>4, <1>5

LEMMA HeardStays ==
    ASSUME NEW c \in Clients, Heard(c), evts'[c] = evts[c], doc' = doc,
           link'[c] = "up" => link[c] = "up",
           br'[c].shared => br[c].shared \/ Requested(c)',
           Requested(c) => Requested(c)',
           ed'[c].open => ed[c].open, ed[c].buf \subseteq ed'[c].buf,
           \A e \in doc \ Own(c) :
             OnTheWay(c, e) \/ Carries(back[c], "update", e) =>
               OnTheWay(c, e)' \/ Carries(back'[c], "update", e)
    PROVE  Heard(c)'
<1> SUFFICES ASSUME link'[c] = "up", br'[c].shared, ~ Requested(c)',
                    NEW i \in 0 .. Len(evts[c]), Shows(c, i)', NEW e \in doc \ Own(c)
             PROVE  \/ e \in Contents(c, i)' \/ OnTheWay(c, e)'
                    \/ Carries(back'[c], "update", e) \/ Follows(c, i, e)'
  BY Zenon DEF Heard, Own
<1>1. Shows(c, i)
  BY DEF Shows
<1>2. \/ e \in Contents(c, i) \/ OnTheWay(c, e) \/ Carries(back[c], "update", e)
      \/ Follows(c, i, e)
  BY <1>1 DEF Heard
<1>3. Follows(c, i, e) => Follows(c, i, e)'
  BY Zenon DEF Follows
<1>4. Contents(c, i) \subseteq Contents(c, i)'
  BY DEF Contents
<1> QED  BY <1>2, <1>3, <1>4

\* Steps that leave alone the events and what comes from the daemon.
LEMMA Steady ==
    ASSUME NEW c \in Clients, Tracked(c), Accounted(c)',
           UNCHANGED <<evts, back, queue, doc, serving, base, link>>,
           ed'[c].open = ed[c].open, ed'[c].offline = ed[c].offline,
           ed[c].buf \subseteq ed'[c].buf,
           link[c] = "up" =>
             /\ Onward(c)
             /\ Requested(c) => Requested(c)'
             /\ br'[c].shared => br[c].shared \/ Requested(c)'
    PROVE  Tracked(c)'
<1>1. Noticed(c)'
  BY Zenon DEF Tracked, Noticed
<1>2. CASE link[c] # "up"
  BY <1>1, <1>2, Zenon DEF Tracked, CaughtUp, Heard, Answers
<1>3. CASE link[c] = "up"
  <2>1. CaughtUp(c)'
    BY <1>3, CaughtStays, Zenon DEF Tracked
  <2>2. \A e : OnTheWay(c, e)' = OnTheWay(c, e)
    BY DEF OnTheWay
  <2>3. Heard(c)'
    BY <1>3, <2>2, HeardStays, Zenon DEF Tracked
  <2>4. Answers(c)'
    BY <1>3, <2>2, AnswersStay DEF Tracked, Announced
  <2> QED  BY <1>1, <2>1, <2>3, <2>4, Zenon DEF Tracked
<1> QED  BY <1>2, <1>3

--------------------------------------------------------------------------------
(***************************************************************************)
(* The editor's main thread.                                               *)
(***************************************************************************)
LEMMA TypeStep ==
    ASSUME TextInv, NEW c \in Clients, Type(c) PROVE TextInv'
<1> DEFINE e == <<c, typed + 1>>
<1>1. e \in Own(c) /\ e \in Edits /\ typed' \in 0 .. MaxEdits
  <2>1. typed \in 0 .. MaxEdits /\ typed < MaxEdits /\ typed' = typed + 1 /\ MaxEdits \in Nat
    BY TextAssumption DEF TextInv, Known, Type
  <2>2. typed + 1 \in 1 .. MaxEdits /\ typed' \in 0 .. MaxEdits
    BY <2>1
  <2> QED  BY <2>2 DEF Own, Edits
<1>2. /\ ed' = [ed EXCEPT ![c] = [ed[c] EXCEPT !.buf = @ \cup {e}, !.pending = Append(@, e)]]
      /\ ed[c].open
  BY DEF Type, Edit
<1>3. UNCHANGED <<cmds, evts, br, link, base, out, back, doc, serving, queue, delivered, lossy>>
  BY DEF Type, bridgeVars, wireVars, daemonVars
<1> HIDE DEF e
<1>4. ed \in [Clients -> EdState] /\ ed[c] \in EdState /\ ed[c].pending \in Seq(Edits)
  BY DEF TextInv, Known, EdState
<1>5. /\ Append(ed[c].pending, e) \in Seq(Edits)
      /\ Elements(Append(ed[c].pending, e)) = Elements(ed[c].pending) \cup {e}
  BY <1>1, <1>4, Appended
<1>6. /\ ed' \in [Clients -> EdState]
      /\ ed'[c].buf = ed[c].buf \cup {e} /\ ed'[c].pending = Append(ed[c].pending, e)
      /\ ed'[c].open = ed[c].open /\ ed'[c].synced = ed[c].synced
      /\ ed'[c].offline = ed[c].offline /\ ed'[c].slot = ed[c].slot
      /\ ed'[c].again = ed[c].again
      /\ \A d \in Clients \ {c} : ed'[d] = ed[d]
  BY <1>1, <1>2, <1>4, <1>5, Zenon DEF EdState
<1>7. Known' /\ Fits'
  BY <1>1, <1>3, <1>6, Zenon DEF TextInv, Known, Fits, Evt, Msg
<1>8. Proper(c)'
  BY <1>1, <1>2, <1>3, <1>5, <1>6 DEF TextInv, Proper
<1>9. ASSUME c \notin lossy' PROVE Tracked(c)'
  <2>1. Tracked(c)
    BY <1>3, <1>9 DEF TextInv
  <2>2. Asking(c)' = Asking(c) /\ Requested(c)' = Requested(c) /\ Replacing(c)' = Replacing(c)
    BY <1>3, <1>6, Zenon DEF Asking, Requested, Replacing
  <2>3. Accounted(c)'
    BY <1>3, <1>5, <1>6, <2>1, <2>2, Zenon DEF Tracked, Accounted
  <2> QED  BY <1>3, <1>6, <2>1, <2>2, <2>3, Steady, Zenon DEF Onward
<1>10. \A d \in Clients \ {c} : Same(d)
  BY <1>3, <1>6 DEF Same, Kept
<1> QED  BY <1>3, <1>7, <1>8, <1>9, <1>10, OneEditor

LEMMA AskStep ==
    ASSUME TextInv, NEW c \in Clients, NEW intent \in {"join", "sync"}, Ask(c, intent)
    PROVE  TextInv'
<1>1. ed' = [ed EXCEPT ![c] = [ed[c] EXCEPT !.slot = intent]]
  BY DEF Ask, Edit
<1>2. UNCHANGED <<cmds, evts, br, link, base, out, back, doc, serving, queue, delivered, typed,
                  lossy>>
  BY DEF Ask, bridgeVars, wireVars, daemonVars
<1>3. ed \in [Clients -> EdState] /\ ed[c] \in EdState
  BY DEF TextInv, Known
<1>4. /\ ed' \in [Clients -> EdState]
      /\ ed'[c] = [ed[c] EXCEPT !.slot = intent]
      /\ \A d \in Clients \ {c} : ed'[d] = ed[d]
  BY <1>1, <1>3, Zenon DEF EdState
<1>5. /\ ed'[c].buf = ed[c].buf /\ ed'[c].pending = ed[c].pending
      /\ ed'[c].open = ed[c].open /\ ed'[c].synced = ed[c].synced
      /\ ed'[c].offline = ed[c].offline /\ ed'[c].again = ed[c].again
  BY <1>3, <1>4 DEF EdState
<1>6. Known' /\ Fits'
  BY <1>2, <1>4, Zenon DEF TextInv, Known, Fits, Evt, Msg
<1>7. Proper(c)'
  BY <1>2, <1>5, Zenon DEF TextInv, Proper
<1>8. ASSUME c \notin lossy' PROVE Tracked(c)'
  <2>1. Tracked(c)
    BY <1>2, <1>8 DEF TextInv
  <2>2. /\ Asking(c) => Asking(c)'
        /\ Requested(c)' = Requested(c) /\ Replacing(c)' = Replacing(c)
    BY <1>2, <1>5, Zenon DEF Asking, Requested, Replacing, Has
  <2>3. Accounted(c)'
    BY <1>2, <1>5, <2>1, <2>2 DEF Tracked, Accounted
  <2> QED  BY <1>2, <1>5, <2>1, <2>2, <2>3, Steady, Zenon DEF Onward
<1>9. \A d \in Clients \ {c} : Same(d)
  BY <1>2, <1>4 DEF Same, Kept
<1> QED  BY <1>2, <1>6, <1>7, <1>8, <1>9, OneEditor

LEMMA DrainIntentStep ==
    ASSUME TextInv, NEW c \in Clients, DrainIntent(c) PROVE TextInv'
<1> DEFINE m == [kind |-> IF ed[c].slot = "none" THEN "sync" ELSE ed[c].slot, edit |-> None]
<1>1. /\ Send(c, <<m>>)
      /\ ed' = [ed EXCEPT ![c] = IF ed[c].slot # "none" THEN [ed[c] EXCEPT !.slot = "none"]
                                 ELSE [ed[c] EXCEPT !.again = FALSE]]
  BY DEF DrainIntent, Edit
<1>2. UNCHANGED <<evts, br, link, base, out, back, doc, serving, queue, delivered, typed>>
  BY DEF DrainIntent, bridgeVars, wireVars, daemonVars
<1>3. m \in Cmd /\ m.kind # "update" /\ (ed[c].slot = "none" => m.kind = "sync")
  <2>1. ed[c].slot \in {"none", "join", "sync"}
    BY DEF TextInv, Known, EdState
  <2> QED  BY <2>1 DEF Cmd
<1> HIDE DEF m
<1>5. /\ cmds' \in [Clients -> Seq(Cmd)] /\ Len(cmds'[c]) <= CmdCap
      /\ \A d \in Clients \ {c} : cmds'[d] = cmds[d]
      /\ Elements(cmds'[c]) \subseteq Elements(cmds[c]) \cup {m}
      /\ lossy \subseteq lossy' /\ lossy' \subseteq lossy \cup {c}
      /\ c \notin lossy' => Elements(cmds'[c]) = Elements(cmds[c]) \cup {m}
  BY <1>1, <1>3, Posted, Zenon DEF TextInv
<1>6. ed \in [Clients -> EdState] /\ ed[c] \in EdState
  BY DEF TextInv, Known
<1>7. /\ ed' \in [Clients -> EdState]
      /\ \A d \in Clients \ {c} : ed'[d] = ed[d]
  BY <1>1, <1>6, Zenon DEF EdState
<1>8. /\ ed'[c].buf = ed[c].buf /\ ed'[c].pending = ed[c].pending
      /\ ed'[c].open = ed[c].open /\ ed'[c].synced = ed[c].synced
      /\ ed'[c].offline = ed[c].offline
      /\ ed[c].slot # "none" => ed'[c].again = ed[c].again
  BY <1>1, <1>6 DEF EdState
<1>9. Known' /\ Fits'
  BY <1>2, <1>5, <1>7, Zenon DEF TextInv, Known, Fits, Evt, Msg
<1>10. Proper(c)'
  BY <1>2, <1>3, <1>5, <1>8, Zenon DEF TextInv, Proper
<1>11. ASSUME c \notin lossy' PROVE Tracked(c)'
  <2>1. Tracked(c)
    BY <1>5, <1>11 DEF TextInv
  <2>2. /\ Asking(c) => Asking(c)'
        /\ Requested(c)' = Requested(c) /\ Replacing(c)' = Replacing(c)
    BY <1>2, <1>3, <1>5, <1>8, <1>11 DEF Asking, Requested, Replacing, Has
  <2>3. Accounted(c)'
    BY <1>2, <1>5, <1>8, <1>11, <2>1, <2>2, Zenon DEF Tracked, Accounted, Carries
  <2> QED  BY <1>2, <1>8, <2>1, <2>2, <2>3, Steady, Zenon DEF Onward
<1>12. \A d \in Clients \ {c} : Same(d)
  BY <1>2, <1>5, <1>7 DEF Same, Kept
<1> QED  BY <1>2, <1>5, <1>9, <1>10, <1>11, <1>12, OneEditor

LEMMA DrainUpdatesStep ==
    ASSUME TextInv, NEW c \in Clients, DrainUpdates(c) PROVE TextInv'
<1> DEFINE p == ed[c].pending
           s == [i \in 1 .. Len(p) |-> [kind |-> "update", edit |-> p[i]]]
<1>1. Send(c, s) /\ ed' = [ed EXCEPT ![c] = [ed[c] EXCEPT !.pending = <<>>]]
  BY DEF DrainUpdates, Edit
<1>2. UNCHANGED <<evts, br, link, base, out, back, doc, serving, queue, delivered, typed>>
  BY Zenon DEF DrainUpdates, bridgeVars, wireVars, daemonVars
<1>3. ed \in [Clients -> EdState] /\ ed[c] \in EdState /\ p \in Seq(Edits)
  BY DEF TextInv, Known, EdState
<1> HIDE DEF p
<1>4. \A i \in 1 .. Len(p) : [kind |-> "update", edit |-> p[i]] \in Cmd
  BY <1>3 DEF Cmd
<1>5. s \in Seq(Cmd) /\ Len(s) = Len(p)
  BY <1>3, <1>4
<1>6. /\ \A m \in Elements(s) : m.kind = "update" /\ m.edit \in Elements(p)
      /\ \A e \in Elements(p) : \E m \in Elements(s) : m.kind = "update" /\ m.edit = e
  <2>1. \A i \in 1 .. Len(p) : s[i].kind = "update" /\ s[i].edit = p[i]
    OBVIOUS
  <2>2. Elements(s) = {s[i] : i \in 1 .. Len(p)} /\ Elements(p) = {p[i] : i \in 1 .. Len(p)}
    BY <1>5, Zenon DEF Elements
  <2> HIDE DEF s
  <2> QED  BY <2>1, <2>2
<1> HIDE DEF s
<1>7. /\ cmds' \in [Clients -> Seq(Cmd)] /\ Len(cmds'[c]) <= CmdCap
      /\ \A d \in Clients \ {c} : cmds'[d] = cmds[d]
      /\ Elements(cmds'[c]) \subseteq Elements(cmds[c]) \cup Elements(s)
      /\ lossy \subseteq lossy' /\ lossy' \subseteq lossy \cup {c}
      /\ c \notin lossy' => Elements(cmds'[c]) = Elements(cmds[c]) \cup Elements(s)
  BY <1>1, <1>5, Sent DEF TextInv
<1>8. <<>> \in Seq(Edits) /\ Elements(<<>>) = {}
  BY Empty
<1>9. /\ ed' \in [Clients -> EdState]
      /\ ed'[c] = [ed[c] EXCEPT !.pending = <<>>]
      /\ \A d \in Clients \ {c} : ed'[d] = ed[d]
  BY <1>1, <1>3, <1>8, Zenon DEF EdState
<1>10. /\ ed'[c].buf = ed[c].buf /\ ed'[c].pending = <<>>
       /\ ed'[c].open = ed[c].open /\ ed'[c].synced = ed[c].synced
       /\ ed'[c].offline = ed[c].offline /\ ed'[c].slot = ed[c].slot
       /\ ed'[c].again = ed[c].again
  BY <1>3, <1>9 DEF EdState
<1>11. Known' /\ Fits'
  BY <1>2, <1>7, <1>9, Zenon DEF TextInv, Known, Fits, Evt, Msg
<1>12. Proper(c)'
  BY <1>2, <1>6, <1>7, <1>8, <1>10, Zenon DEF TextInv, Proper, p
<1>13. ASSUME c \notin lossy' PROVE Tracked(c)'
  <2>1. Tracked(c)
    BY <1>7, <1>13 DEF TextInv
  <2>2. Asking(c)' = Asking(c) /\ Requested(c)' = Requested(c) /\ Replacing(c)' = Replacing(c)
    BY <1>2, <1>6, <1>7, <1>10, <1>13, Zenon DEF Asking, Requested, Replacing, Has
  <2>3. Accounted(c)'
    BY <1>2, <1>6, <1>7, <1>10, <1>13, <2>1, <2>2 DEF Tracked, Accounted, Carries, p
  <2> QED  BY <1>2, <1>10, <2>1, <2>2, <2>3, Steady, Zenon DEF Onward
<1>14. \A d \in Clients \ {c} : Same(d)
  BY <1>2, <1>7, <1>9 DEF Same, Kept
<1> QED  BY <1>2, <1>7, <1>11, <1>12, <1>13, <1>14, OneEditor

--------------------------------------------------------------------------------
(***************************************************************************)
(* The bridge: commands.                                                   *)
(***************************************************************************)

\* The first command is taken, and written to the connection or dropped.
LEMMA Taken ==
    ASSUME Known, Fits, NEW c \in Clients, NEW kind, Command(c, kind),
           Request(c, Head(cmds[c])) \/ UNCHANGED out
    PROVE  /\ Head(cmds[c]) \in Cmd /\ Head(cmds[c]).kind = kind
           /\ cmds' \in [Clients -> Seq(Cmd)] /\ Len(cmds'[c]) <= CmdCap
           /\ Elements(cmds[c]) = Elements(cmds'[c]) \cup {Head(cmds[c])}
           /\ out' \in [Clients -> Seq(Cmd)]
           /\ out' = out \/ Elements(out'[c]) = Elements(out[c]) \cup {Head(cmds[c])}
           /\ Request(c, Head(cmds[c])) =>
                Elements(out'[c]) = Elements(out[c]) \cup {Head(cmds[c])}
           /\ \A d \in Clients \ {c} : cmds'[d] = cmds[d] /\ out'[d] = out[d]
           /\ UNCHANGED <<ed, evts, link, base, back, doc, serving, queue, delivered, typed,
                          lossy>>
<1>1. /\ cmds[c] # <<>> /\ Head(cmds[c]).kind = kind
      /\ cmds' = [cmds EXCEPT ![c] = Tail(@)]
      /\ UNCHANGED <<ed, evts, link, base, back, doc, serving, queue, delivered, typed, lossy>>
  BY DEF Command, editorVars, daemonVars
<1>2. cmds \in [Clients -> Seq(Cmd)] /\ cmds[c] \in Seq(Cmd) /\ Len(cmds[c]) <= CmdCap
  BY DEF Known, Fits
<1>3. /\ Head(cmds[c]) \in Cmd /\ Tail(cmds[c]) \in Seq(Cmd)
      /\ Len(cmds[c]) \in Nat \ {0} /\ Len(Tail(cmds[c])) = Len(cmds[c]) - 1
      /\ Elements(cmds[c]) = Elements(Tail(cmds[c])) \cup {Head(cmds[c])}
  BY <1>1, <1>2, Popped
<1>4. /\ cmds' \in [Clients -> Seq(Cmd)] /\ cmds'[c] = Tail(cmds[c])
      /\ \A d \in Clients \ {c} : cmds'[d] = cmds[d]
  BY <1>1, <1>2, <1>3
<1>5. Len(cmds'[c]) <= CmdCap
  BY <1>2, <1>3, <1>4, Caps
<1> DEFINE m == Head(cmds[c])
<1>6. m \in Cmd
  BY <1>3
<1> HIDE DEF m
<1>7. out \in [Clients -> Seq(Cmd)] /\ out[c] \in Seq(Cmd)
  BY DEF Known
<1>8. /\ Append(out[c], m) \in Seq(Cmd)
      /\ Elements(Append(out[c], m)) = Elements(out[c]) \cup {m}
  BY <1>6, <1>7, Appended
<1>9. Request(c, m) => /\ out' \in [Clients -> Seq(Cmd)]
                       /\ Elements(out'[c]) = Elements(out[c]) \cup {m}
                       /\ \A d \in Clients \ {c} : out'[d] = out[d]
  BY <1>7, <1>8, Zenon DEF Request
<1> QED  BY <1>1, <1>3, <1>4, <1>5, <1>7, <1>9, Zenon DEF m

LEMMA SendUpdateStep ==
    ASSUME TextInv, NEW c \in Clients, SendUpdate(c) PROVE TextInv'
<1> DEFINE m == Head(cmds[c])
<1>1. /\ m \in Cmd /\ m.kind = "update"
      /\ cmds' \in [Clients -> Seq(Cmd)] /\ Len(cmds'[c]) <= CmdCap
      /\ Elements(cmds[c]) = Elements(cmds'[c]) \cup {m}
      /\ out' \in [Clients -> Seq(Cmd)]
      /\ out' = out \/ Elements(out'[c]) = Elements(out[c]) \cup {m}
      /\ Request(c, m) => Elements(out'[c]) = Elements(out[c]) \cup {m}
      /\ \A d \in Clients \ {c} : cmds'[d] = cmds[d] /\ out'[d] = out[d]
      /\ UNCHANGED <<ed, evts, link, base, back, doc, serving, queue, delivered, typed, lossy>>
  BY Taken, Zenon DEF TextInv, SendUpdate
<1>2. /\ br' = br /\ (link[c] = "up" => Request(c, m)) /\ (link[c] = "down" => out' = out)
  BY DEF SendUpdate
<1> HIDE DEF m
<1>3. Known' /\ Fits'
  BY <1>1, <1>2, Zenon DEF TextInv, Known, Fits, Evt, Msg
<1>4. Proper(c)'
  <2>1. Elements(cmds'[c]) \cup Elements(out'[c]) \subseteq Elements(cmds[c]) \cup Elements(out[c])
    BY <1>1, Zenon
  <2> QED  BY <1>1, <1>2, <2>1, Zenon DEF TextInv, Proper
<1>5. ASSUME c \notin lossy' PROVE Tracked(c)'
  <2>1. Tracked(c)
    BY <1>1, <1>5, Zenon DEF TextInv
  <2>2. Asking(c)' = Asking(c) /\ Requested(c)' = Requested(c) /\ Replacing(c)' = Replacing(c)
    BY <1>1, <1>2 DEF Asking, Requested, Replacing, Has
  <2>3. Accounted(c)'
    BY <1>1, <1>2, <2>1, <2>2, Zenon DEF Tracked, Accounted, Carries
  <2> QED  BY <1>1, <1>2, <2>1, <2>2, <2>3, Steady, Zenon DEF Onward
<1>6. \A d \in Clients \ {c} : Same(d)
  BY <1>1, <1>2, Zenon DEF Same, Kept
<1> QED  BY <1>1, <1>3, <1>4, <1>5, <1>6, OneEditor

LEMMA SendSyncStep ==
    ASSUME TextInv, NEW c \in Clients, SendSync(c) PROVE TextInv'
<1> DEFINE m == Head(cmds[c])
<1>1. /\ m \in Cmd /\ m.kind = "sync"
      /\ cmds' \in [Clients -> Seq(Cmd)] /\ Len(cmds'[c]) <= CmdCap
      /\ Elements(cmds[c]) = Elements(cmds'[c]) \cup {m}
      /\ out' \in [Clients -> Seq(Cmd)]
      /\ out' = out \/ Elements(out'[c]) = Elements(out[c]) \cup {m}
      /\ Request(c, m) => Elements(out'[c]) = Elements(out[c]) \cup {m}
      /\ \A d \in Clients \ {c} : cmds'[d] = cmds[d] /\ out'[d] = out[d]
      /\ UNCHANGED <<ed, evts, link, base, back, doc, serving, queue, delivered, typed, lossy>>
  BY Taken, Zenon DEF TextInv, SendSync
<1>2. /\ link[c] = "up" =>
           \/ Request(c, m)
           \/ /\ out' = out /\ br'[c].force # "due"
              /\ br'[c].force = br[c].force \/ br'[c].force = "skipped"
      /\ link[c] = "down" => out' = out
      /\ br' \in [Clients -> BrState] /\ br'[c].shared = br[c].shared
      /\ \A d \in Clients \ {c} : br'[d] = br[d]
  <2>1. br \in [Clients -> BrState] /\ br[c] \in BrState
    BY Zenon DEF TextInv, Known
  <2>2. ASSUME NEW r \in BOOLEAN, NEW f \in {"due", "done", "skipped"},
               br' = [br EXCEPT ![c] = [br[c] EXCEPT !.recent = r, !.force = f]]
        PROVE  /\ br' \in [Clients -> BrState] /\ br'[c].shared = br[c].shared
               /\ br'[c].force = f /\ \A d \in Clients \ {c} : br'[d] = br[d]
    BY <2>1, <2>2 DEF BrState
  <2>3. CASE link[c] = "up" /\ Request(c, m)
             /\ br' = [br EXCEPT ![c].recent = TRUE, ![c].force = "done"]
    <3>1. br' = [br EXCEPT ![c] = [br[c] EXCEPT !.recent = TRUE, !.force = "done"]]
      BY <2>1, <2>3
    <3> QED  BY <2>2, <2>3, <3>1
  <2>4. CASE link[c] = "up" /\ out' = out
             /\ br' = [br EXCEPT ![c].force = IF @ = "due" THEN "skipped" ELSE @]
    <3> DEFINE f == IF br[c].force = "due" THEN "skipped" ELSE br[c].force
    <3>1. /\ br[c].recent \in BOOLEAN /\ f \in {"done", "skipped"}
          /\ f = br[c].force \/ f = "skipped"
      BY <2>1 DEF BrState
    <3>2. br' = [br EXCEPT ![c] = [br[c] EXCEPT !.recent = br[c].recent, !.force = f]]
      BY <2>1, <2>4 DEF BrState
    <3> HIDE DEF f
    <3> QED  BY <2>2, <2>4, <3>1, <3>2
  <2>5. CASE link[c] # "up" /\ out' = out
             /\ br' = [br EXCEPT ![c].recent = @ \/ link[c] = "broken"]
    <3> DEFINE r == (br[c].recent \/ link[c] = "broken")
    <3>1. r \in BOOLEAN /\ br[c].force \in {"due", "done", "skipped"}
      BY <2>1 DEF BrState
    <3>2. br' = [br EXCEPT ![c] = [br[c] EXCEPT !.recent = r, !.force = br[c].force]]
      BY <2>1, <2>5 DEF BrState
    <3> HIDE DEF r
    <3> QED  BY <2>2, <2>5, <3>1, <3>2
  <2> QED  BY <2>3, <2>4, <2>5, Zenon DEF SendSync
<1> HIDE DEF m
<1>3. Known' /\ Fits'
  BY <1>1, <1>2, Zenon DEF TextInv, Known, Fits, Evt, Msg
<1>4. Proper(c)'
  <2>1. Elements(cmds'[c]) \cup Elements(out'[c]) \subseteq Elements(cmds[c]) \cup Elements(out[c])
    BY <1>1, Zenon
  <2> QED  BY <1>1, <1>2, <2>1, Zenon DEF TextInv, Proper
<1>5. ASSUME c \notin lossy' PROVE Tracked(c)'
  <2>1. Tracked(c)
    BY <1>1, <1>5, Zenon DEF TextInv
  <2>2. Requested(c) => Requested(c)'
    BY <1>1, Zenon DEF Requested, Has
  <2>3. Request(c, m) => Requested(c)' /\ Replacing(c)'
    BY <1>1 DEF Requested, Replacing, Has
  <2>4. out' = out => Requested(c)' = Requested(c) /\ Replacing(c)' = Replacing(c)
    BY <1>1, Zenon DEF Requested, Replacing
  <2>5. link[c] = "up" => Onward(c)
    <3>1. br'[c].force = br[c].force /\ br'[c].force # "due" => ~ Asking(c)
      BY Zenon DEF Asking
    <3> QED  BY <1>2, <2>3, <2>4, <3>1, Zenon DEF Onward
  <2>6. Accounted(c)'
    <3> SUFFICES ASSUME link[c] = "up", ~ Request(c, m), br'[c].force # "skipped",
                        NEW e \in ed[c].buf
                 PROVE  \/ e \in doc \/ e \in Elements(ed[c].pending)
                        \/ Carries(cmds'[c], "update", e) \/ Carries(out'[c], "update", e)
                        \/ Replacing(c)' \/ Has(evts[c], {"resynced"})
      BY <1>1, <2>3, Zenon DEF Accounted
    <3>1. out' = out /\ br'[c].force = br[c].force /\ br[c].force # "due"
      BY <1>2, Zenon
    <3>2. Carries(cmds[c], "update", e) => Carries(cmds'[c], "update", e)
      BY <1>1 DEF Carries
    <3> QED  BY <2>1, <2>4, <3>1, <3>2, Zenon DEF Tracked, Accounted, Asking
  <2> QED  BY <1>1, <1>2, <2>1, <2>2, <2>5, <2>6, Steady, Zenon
<1>6. \A d \in Clients \ {c} : Same(d)
  BY <1>1, <1>2, Zenon DEF Same, Kept
<1> QED  BY <1>1, <1>3, <1>4, <1>5, <1>6, OneEditor

LEMMA SendJoinStep ==
    ASSUME TextInv, NEW c \in Clients, SendJoin(c) PROVE TextInv'
<1> DEFINE m == Head(cmds[c])
<1>1. /\ m \in Cmd /\ m.kind = "join"
      /\ cmds' \in [Clients -> Seq(Cmd)] /\ Len(cmds'[c]) <= CmdCap
      /\ Elements(cmds[c]) = Elements(cmds'[c]) \cup {m}
      /\ out' \in [Clients -> Seq(Cmd)]
      /\ out' = out \/ Elements(out'[c]) = Elements(out[c]) \cup {m}
      /\ Request(c, m) => Elements(out'[c]) = Elements(out[c]) \cup {m}
      /\ \A d \in Clients \ {c} : cmds'[d] = cmds[d] /\ out'[d] = out[d]
      /\ UNCHANGED <<ed, evts, link, base, back, doc, serving, queue, delivered, typed, lossy>>
  BY Taken, Zenon DEF TextInv, SendJoin
<1>2. /\ br' = [br EXCEPT ![c].shared = @ \/ link[c] = "up"]
      /\ IF link[c] = "up" THEN Request(c, m) ELSE out' = out
  BY DEF SendJoin
<1> HIDE DEF m
<1>3. br \in [Clients -> BrState] /\ br[c] \in BrState
  BY DEF TextInv, Known
<1>4. /\ br' \in [Clients -> BrState] /\ br'[c].force = br[c].force
      /\ br'[c].shared = (br[c].shared \/ link[c] = "up")
      /\ \A d \in Clients \ {c} : br'[d] = br[d]
  BY <1>2, <1>3, Zenon DEF BrState
<1>5. Known' /\ Fits'
  BY <1>1, <1>4, Zenon DEF TextInv, Known, Fits, Evt, Msg
<1>6. Proper(c)'
  <2>1. Elements(cmds'[c]) \cup Elements(out'[c]) \subseteq Elements(cmds[c]) \cup Elements(out[c])
    BY <1>1
  <2> QED  BY <1>1, <1>2, <1>4, <2>1, Zenon DEF TextInv, Proper
<1>7. ASSUME c \notin lossy' PROVE Tracked(c)'
  <2>1. Tracked(c)
    BY <1>1, <1>7 DEF TextInv
  <2>2. (Requested(c) => Requested(c)') /\ (link[c] = "up" => Requested(c)')
    BY <1>1, <1>2 DEF Requested, Has
  <2>3. Asking(c)' = Asking(c)
    BY <1>1, <1>4 DEF Asking, Has
  <2>4. Replacing(c) => Replacing(c)'
    BY <1>1, Zenon DEF Replacing, Has
  <2>5. \A e : /\ Carries(cmds[c], "update", e) => Carries(cmds'[c], "update", e)
               /\ Carries(out[c], "update", e) => Carries(out'[c], "update", e)
    BY <1>1 DEF Carries
  <2>6. Accounted(c)'
    BY <1>1, <1>4, <2>1, <2>3, <2>4, <2>5, Zenon DEF Tracked, Accounted
  <2>7. link[c] = "up" => Onward(c)
    BY <2>2, Zenon DEF Onward
  <2> QED  BY <1>1, <1>4, <2>1, <2>2, <2>6, <2>7, Steady, Zenon
<1>8. \A d \in Clients \ {c} : Same(d)
  BY <1>1, <1>4, Zenon DEF Same, Kept
<1> QED  BY <1>1, <1>5, <1>6, <1>7, <1>8, OneEditor, Zenon

--------------------------------------------------------------------------------
(***************************************************************************)
(* The editor's main thread: events.                                       *)
(***************************************************************************)
LEMMA Handled ==
    ASSUME Known, Fits, NEW c \in Clients, NEW kind, Event(c, kind)
    PROVE  /\ Head(evts[c]) \in Evt /\ Head(evts[c]).kind = kind /\ evts[c][1] = Head(evts[c])
           /\ evts' \in [Clients -> Seq(Evt)] /\ Len(evts'[c]) <= EvtCap
           /\ Len(evts[c]) \in Nat \ {0} /\ Len(evts'[c]) = Len(evts[c]) - 1
           /\ \A i \in 1 .. Len(evts'[c]) : evts'[c][i] = evts[c][i + 1]
           /\ \A i \in 0 .. Len(evts'[c]) : Rest(evts'[c], i) = Rest(evts[c], i + 1)
           /\ Elements(evts[c]) = Elements(evts'[c]) \cup {Head(evts[c])}
           /\ Rest(evts[c], 0) = Rest(evts'[c], 0) \cup {Head(evts[c])}
           /\ \A d \in Clients \ {c} : evts'[d] = evts[d]
           /\ UNCHANGED <<cmds, br, link, base, out, back, doc, serving, queue, delivered, typed,
                          lossy>>
<1>1. /\ evts[c] # <<>> /\ Head(evts[c]).kind = kind
      /\ evts' = [evts EXCEPT ![c] = Tail(@)]
      /\ UNCHANGED <<cmds, br, link, base, out, back, doc, serving, queue, delivered, typed, lossy>>
  BY DEF Event, bridgeVars, wireVars, daemonVars
<1>2. evts \in [Clients -> Seq(Evt)] /\ evts[c] \in Seq(Evt) /\ Len(evts[c]) <= EvtCap
  BY DEF Known, Fits
<1>3. evts'[c] = Tail(evts[c]) /\ \A d \in Clients \ {c} : evts'[d] = evts[d]
  BY <1>1, <1>2
<1>4. /\ Head(evts[c]) \in Evt /\ Head(evts[c]) = evts[c][1] /\ Tail(evts[c]) \in Seq(Evt)
      /\ Len(evts[c]) \in Nat \ {0} /\ Len(Tail(evts[c])) = Len(evts[c]) - 1
      /\ \A i \in 1 .. Len(Tail(evts[c])) : Tail(evts[c])[i] = evts[c][i + 1]
      /\ \A i \in 0 .. Len(Tail(evts[c])) : Rest(Tail(evts[c]), i) = Rest(evts[c], i + 1)
      /\ Elements(evts[c]) = Elements(Tail(evts[c])) \cup {Head(evts[c])}
  BY <1>1, <1>2, Popped, Zenon
<1>5. evts' \in [Clients -> Seq(Evt)]
  BY <1>1, <1>2, <1>4, Zenon
<1>6. Len(evts'[c]) <= EvtCap
  BY <1>2, <1>3, <1>4, Caps
<1>7. Rest(evts[c], 0) = Elements(evts[c]) /\ Rest(evts'[c], 0) = Elements(evts'[c])
  BY <1>2, <1>3, <1>4, RestOfAll, Zenon
<1> QED  BY <1>1, <1>3, <1>4, <1>5, <1>6, <1>7, Zenon

LEMMA EvtFacts ==
    ASSUME NEW h \in Evt
    PROVE  h.state \subseteq doc /\ (h.kind = "remote" => h.edit \in doc)
  BY DEF Evt, States

\* What the editor does with the first event h.
Handles(c, h) ==
    /\ h.kind = "disconnected" => (ed'[c].open => ed'[c].offline)
    /\ h.kind \in States => h.state \subseteq ed'[c].buf
    /\ h.kind = "resynced" => ed'[c].buf = h.state
    /\ h.kind # "resynced" =>
         /\ ed[c].open => ed'[c].pending = ed[c].pending
         /\ ed'[c].buf \subseteq ed[c].buf \cup doc
    /\ h.kind \notin States => ed'[c].open = ed[c].open /\ ed[c].buf \subseteq ed'[c].buf
    /\ h.kind = "remote" /\ ed[c].open => h.edit \in ed'[c].buf
    /\ h.kind = "connected" /\ br[c].force = "due" /\ ed[c].open => Asking(c)'
    /\ Asking(c) => Asking(c)'

LEMMA EventTracked ==
    ASSUME Known, Fits, NEW c \in Clients, NEW kind, Event(c, kind), Proper(c), Tracked(c),
           Handles(c, Head(evts[c]))
    PROVE  Tracked(c)'
<1> DEFINE h == Head(evts[c])
           n == Len(evts'[c])
<1>1. /\ h \in Evt /\ h.kind = kind /\ evts[c][1] = h /\ n \in Nat
      /\ Len(evts[c]) \in Nat \ {0} /\ Len(evts[c]) = n + 1 /\ Len(evts'[c]) = n
  <2>1. Len(evts[c]) \in Nat \ {0} /\ n = Len(evts[c]) - 1
    BY Handled
  <2>2. n \in Nat /\ Len(evts[c]) = n + 1
    BY <2>1
  <2>3. h \in Evt /\ h.kind = kind /\ evts[c][1] = h
    BY Handled, Zenon
  <2> QED  BY <2>1, <2>2, <2>3, Zenon
<1>1a. \A i \in 1 .. n : evts'[c][i] = evts[c][i + 1]
  BY Handled, Zenon
<1>1b. \A i \in 0 .. n : Rest(evts'[c], i) = Rest(evts[c], i + 1)
  BY Handled
<1>1c. /\ Elements(evts[c]) = Elements(evts'[c]) \cup {h}
       /\ Rest(evts[c], 0) = Rest(evts'[c], 0) \cup {h}
  BY Handled, Zenon
<1>1d. UNCHANGED <<cmds, br, link, base, out, back, doc, serving, queue>>
  BY Handled, Zenon
<1>2. evts'[c] \in Seq(Evt)
  BY Handled
<1>3. Handles(c, h)
  OBVIOUS
<1> HIDE DEF h, n
<1>2a. 0 \in 0 .. n + 1 /\ 1 \in 0 .. n + 1 /\ 0 + 1 = 1
  BY <1>1
<1>2b. \A i \in 0 .. n : i # 0 => i \in 1 .. n /\ i + 1 \in 0 .. n + 1
  BY <1>1
<1>2c. \A i \in 1 .. n : i # 1 => i - 1 \in 1 .. n /\ (i - 1) + 1 = i
  BY <1>1
<1>3a. h.kind = "disconnected" => (ed'[c].open => ed'[c].offline)
  BY <1>3, Zenon DEF Handles
<1>3b. h.kind \in States => h.state \subseteq ed'[c].buf
  BY <1>3, Zenon DEF Handles
<1>4. h.state \subseteq doc /\ (h.kind = "remote" => h.edit \in doc)
  BY <1>1, EvtFacts, Zenon
<1>5. Requested(c)' = Requested(c) /\ Replacing(c)' = Replacing(c)
  BY <1>1d, Zenon DEF Requested, Replacing
<1>6. \A e : OnTheWay(c, e)' = OnTheWay(c, e)
  BY <1>1d DEF OnTheWay
<1>7. \A i \in 1 .. n : Shows(c, i)' = Shows(c, i + 1) /\ Contents(c, i)' = Contents(c, i + 1)
  <2> SUFFICES ASSUME NEW i \in 1 .. n
               PROVE  Shows(c, i)' = Shows(c, i + 1) /\ Contents(c, i)' = Contents(c, i + 1)
    OBVIOUS
  <2>1. i # 0 /\ i + 1 # 0
    BY <1>1
  <2>2. evts'[c][i] = evts[c][i + 1]
    BY <1>1a, Zenon
  <2> QED  BY <2>1, <2>2, Zenon DEF Shows, Contents
<1>7a. (Shows(c, 1) <=> h.kind \in States) /\ Contents(c, 1) = h.state
  BY <1>1 DEF Shows, Contents
<1>8. Noticed(c)'
  <2>1. ASSUME link[c] = "down"
        PROVE  IF evts'[c] = <<>> THEN ed'[c].open => ed'[c].offline
               ELSE evts'[c][Len(evts'[c])].kind = "disconnected"
    <3>1. evts[c] # <<>>
      BY <1>1, Zenon
    <3>2. evts[c][n + 1].kind = "disconnected"
      BY <1>1, <2>1, <3>1, Zenon DEF Tracked, Noticed
    <3>3. CASE n = 0
      <4>1. h.kind = "disconnected"
        BY <1>1, <3>2, <3>3
      <4>2. evts'[c] = <<>>
        BY <1>1, <1>2, <3>3
      <4> QED  BY <1>3a, <4>1, <4>2
    <3>4. CASE n # 0
      <4>1. n \in 1 .. n /\ Len(evts'[c]) = n
        BY <1>1, <3>4
      <4>2. evts'[c] # <<>>
        BY <1>2, <3>4, <4>1
      <4> QED  BY <1>1a, <3>2, <4>1, <4>2, Zenon
    <3> QED  BY <3>3, <3>4
  <2>2. ASSUME NEW i \in 1 .. n, evts'[c][i].kind = "connected"
        PROVE  IF i = 1 THEN ed'[c].open => ed'[c].offline
               ELSE evts'[c][i - 1].kind = "disconnected"
    <3>1. i + 1 \in 1 .. Len(evts[c]) /\ i + 1 # 1 /\ (i + 1) - 1 = i
      BY <1>1
    <3>2. evts[c][i + 1].kind = "connected"
      BY <1>1a, <2>2, Zenon
    <3>3. evts[c][i].kind = "disconnected"
      BY <3>1, <3>2 DEF Tracked, Noticed
    <3>4. CASE i = 1
      BY <1>1, <1>3, <3>3, <3>4, Zenon DEF Handles
    <3>5. CASE i # 1
      <4>1. i - 1 \in 1 .. n /\ (i - 1) + 1 = i
        BY <1>2c, <3>5, Zenon
      <4> QED  BY <1>1a, <3>3, <3>5, <4>1
    <3> QED  BY <3>4, <3>5
  <2> QED  BY <1>1, <1>1d, <2>1, <2>2, Zenon DEF Noticed
<1>9. Accounted(c)'
  <2> SUFFICES ASSUME link[c] = "up", br[c].force # "skipped", NEW e \in ed'[c].buf,
                      e \notin doc, ~ Asking(c)', ~ Replacing(c)
               PROVE  \/ e \in Elements(ed'[c].pending)
                      \/ Carries(cmds[c], "update", e) \/ Carries(out[c], "update", e)
                      \/ Has(evts'[c], {"resynced"})
                      \/ br[c].force = "due" /\ Has(evts'[c], {"connected"})
    BY <1>1d, <1>5, Zenon DEF Accounted
  <2>1. h.kind # "resynced" /\ e \in ed[c].buf /\ ~ Asking(c)
    BY <1>3, <1>4, Zenon DEF Handles
  <2>2. ed[c].open
    BY <2>1, Zenon DEF Proper
  <2>3. ~ (h.kind = "connected" /\ br[c].force = "due") /\ ed'[c].pending = ed[c].pending
    BY <1>3, <2>1, <2>2, Zenon DEF Handles
  <2>4. \/ e \in Elements(ed[c].pending)
        \/ Carries(cmds[c], "update", e) \/ Carries(out[c], "update", e)
        \/ Has(evts[c], {"resynced"})
        \/ br[c].force = "due" /\ Has(evts[c], {"connected"})
    BY <2>1, Zenon DEF Tracked, Accounted
  <2> QED  BY <1>1c, <2>1, <2>3, <2>4, Zenon DEF Has
<1>10. CaughtUp(c)'
  <2> SUFFICES ASSUME link[c] = "up", br[c].force # "skipped", ~ Asking(c)', ~ Requested(c),
                      NEW i \in 0 .. n, Shows(c, i)'
               PROVE  base[c] \subseteq Contents(c, i)' \/ Replaced(c, i)'
    BY <1>1, <1>1d, <1>5, Zenon DEF CaughtUp
  <2>1. \A j \in 0 .. n + 1 :
          Shows(c, j) => base[c] \subseteq Contents(c, j) \/ Replaced(c, j)
    BY <1>1, <1>3, Zenon DEF Tracked, CaughtUp, Handles
  <2>2. Replaced(c, i)' = Replaced(c, i + 1)
    BY <1>1, <1>1b, <1>1d, Zenon DEF Replaced
  <2>3. CASE i # 0
    <3>1. i \in 1 .. n /\ i + 1 \in 0 .. n + 1
      BY <1>2b, <2>3, Zenon
    <3> QED  BY <1>7, <2>1, <2>2, <3>1, Zenon
  <2>4. CASE i = 0 /\ h.kind \in States
    <3>1. Shows(c, 1) /\ Contents(c, 1) \subseteq ed'[c].buf
      BY <1>7a, <1>3b, <2>4, Zenon
    <3>2. Contents(c, 0)' = ed'[c].buf
      BY DEF Contents
    <3>3. 1 \in 0 .. n + 1 /\ i + 1 = 1
      BY <1>2a, <2>4, Zenon
    <3> QED  BY <2>1, <2>2, <2>4, <3>1, <3>2, <3>3, Zenon
  <2>5. CASE i = 0 /\ h.kind \notin States
    <3>1. Shows(c, 0) /\ Contents(c, 0) \subseteq Contents(c, 0)' /\ ed[c].open
      BY <1>3, <2>5, Zenon DEF Shows, Contents, Handles
    <3>2. base[c] \subseteq Contents(c, 0) \/ Replaced(c, 0)
      <4>1. 0 \in 0 .. n + 1
        BY <1>2a, Zenon
      <4> QED  BY <2>1, <3>1, <4>1, Zenon
    <3>3. Replaced(c, 0) => Replaced(c, 0)'
      BY <1>1c, <1>1d, <1>3, <2>5, <3>1, Zenon DEF Replaced, Handles
    <3> QED  BY <2>5, <3>1, <3>2, <3>3
  <2> QED  BY <2>3, <2>4, <2>5, Zenon
<1>11. Heard(c)'
  <2> SUFFICES ASSUME link[c] = "up", br[c].shared, ~ Requested(c),
                      NEW i \in 0 .. n, Shows(c, i)', NEW e \in doc \ Own(c)
               PROVE  \/ e \in Contents(c, i)' \/ OnTheWay(c, e)
                      \/ Carries(back[c], "update", e) \/ Follows(c, i, e)'
    BY <1>1, <1>1d, <1>5, <1>6, Zenon DEF Heard, Own
  <2>1. \A j \in 0 .. n + 1 : Shows(c, j) =>
          \/ e \in Contents(c, j) \/ OnTheWay(c, e) \/ Carries(back[c], "update", e)
          \/ Follows(c, j, e)
    BY <1>1, Zenon DEF Tracked, Heard
  <2>2. Follows(c, i, e)' = Follows(c, i + 1, e)
    BY <1>1b, Zenon DEF Follows
  <2>3. CASE i # 0
    <3>1. i \in 1 .. n /\ i + 1 \in 0 .. n + 1
      BY <1>2b, <2>3, Zenon
    <3> QED  BY <1>7, <2>1, <2>2, <3>1, Zenon
  <2>4. CASE i = 0 /\ h.kind \in States
    <3>1. Shows(c, 1) /\ Contents(c, 1) \subseteq ed'[c].buf
      BY <1>7a, <1>3b, <2>4, Zenon
    <3>2. Contents(c, 0)' = ed'[c].buf
      BY DEF Contents
    <3>3. 1 \in 0 .. n + 1 /\ i + 1 = 1
      BY <1>2a, <2>4, Zenon
    <3> QED  BY <2>1, <2>2, <2>4, <3>1, <3>2, <3>3, Zenon
  <2>5. CASE i = 0 /\ h.kind \notin States
    <3>1. Shows(c, 0) /\ Contents(c, 0) \subseteq Contents(c, 0)' /\ ed[c].open
      BY <1>3, <2>5 DEF Shows, Contents, Handles
    <3>2. \/ e \in Contents(c, 0) \/ OnTheWay(c, e) \/ Carries(back[c], "update", e)
          \/ Follows(c, 0, e)
      <4>1. 0 \in 0 .. n + 1
        BY <1>2a, Zenon
      <4> QED  BY <2>1, <3>1, <4>1, Zenon
    <3>3. Follows(c, 0, e) => Follows(c, 0, e)' \/ e \in Contents(c, 0)'
      BY <1>1c, <1>3, <2>5, <3>1, Zenon DEF Follows, Handles, Contents
    <3> QED  BY <2>5, <3>1, <3>2, <3>3, Zenon
  <2> QED  BY <2>3, <2>4, <2>5, Zenon
<1>12. Answers(c)'
  BY <1>1d, <1>6, AnswersStay, Zenon DEF Tracked, Announced
<1> QED  BY <1>8, <1>9, <1>10, <1>11, <1>12, Zenon DEF Tracked

\* A step that handles an event keeps the invariant if the editor's state is well
\* formed and the event is treated as Handles says.
LEMMA EventKeeps ==
    ASSUME TextInv, NEW c \in Clients, NEW kind, Event(c, kind),
           ed' \in [Clients -> EdState], \A d \in Clients \ {c} : ed'[d] = ed[d],
           Elements(ed'[c].pending) \subseteq Own(c),
           ed'[c].synced => ed'[c].open, ed'[c].offline => ed'[c].open,
           ~ ed'[c].open => ed'[c].buf = {},
           c \notin lossy => Handles(c, Head(evts[c]))
    PROVE  TextInv'
<1>1. /\ evts' \in [Clients -> Seq(Evt)] /\ Len(evts'[c]) <= EvtCap
      /\ \A d \in Clients \ {c} : evts'[d] = evts[d]
      /\ UNCHANGED <<cmds, br, link, base, out, back, doc, serving, queue, delivered, typed, lossy>>
  BY Handled DEF TextInv
<1>2. Known' /\ Fits'
  BY <1>1, Zenon DEF TextInv, Known, Fits, Evt, Msg
<1>3. Proper(c)'
  BY <1>1, Zenon DEF TextInv, Proper
<1>4. c \notin lossy' => Tracked(c)'
  BY <1>1, EventTracked, Zenon DEF TextInv
<1>5. \A d \in Clients \ {c} : Same(d)
  BY <1>1 DEF Same, Kept
<1> QED  BY <1>1, <1>2, <1>3, <1>4, <1>5, OneEditor, Zenon

LEMMA HandleConnectedStep ==
    ASSUME TextInv, NEW c \in Clients, HandleConnected(c) PROVE TextInv'
<1>1. /\ Event(c, "connected")
      /\ ed' = [ed EXCEPT ![c] = [ed[c] EXCEPT !.connected = TRUE,
                                               !.synced = @ \/ ed[c].offline,
                                               !.again = @ \/ ed[c].offline]]
  BY DEF HandleConnected, Edit
<1>2. ed \in [Clients -> EdState] /\ ed[c] \in EdState /\ Proper(c)
  BY DEF TextInv, Known
<1>3. /\ ed' \in [Clients -> EdState] /\ \A d \in Clients \ {c} : ed'[d] = ed[d]
      /\ ed'[c].buf = ed[c].buf /\ ed'[c].pending = ed[c].pending
      /\ ed'[c].open = ed[c].open /\ ed'[c].offline = ed[c].offline
      /\ ed'[c].slot = ed[c].slot
  BY <1>1, <1>2, Zenon DEF EdState
<1>4. ed'[c].synced = (ed[c].synced \/ ed[c].offline) /\ ed'[c].again = (ed[c].again \/ ed[c].offline)
  BY <1>1, <1>2 DEF EdState
<1>5. /\ Head(evts[c]).kind = "connected" /\ evts[c][1] = Head(evts[c])
      /\ 1 \in 1 .. Len(evts[c]) /\ UNCHANGED <<cmds, br>>
  BY <1>1, Handled DEF TextInv
<1>6. Asking(c) => Asking(c)'
  BY <1>3, <1>4, <1>5, Zenon DEF Asking
<1>7. ASSUME c \notin lossy PROVE Handles(c, Head(evts[c]))
  <2>1. ed[c].open => ed[c].offline
    BY <1>5, <1>7, Zenon DEF TextInv, Tracked, Noticed
  <2>2. br[c].force = "due" /\ ed[c].open => Asking(c)'
    BY <1>4, <1>5, <2>1, Zenon DEF Asking
  <2> QED  BY <1>3, <1>5, <1>6, <2>2, Zenon DEF Handles, States
<1>8. ed'[c].synced => ed'[c].open
  BY <1>2, <1>3, <1>4, Zenon DEF Proper
<1> QED  BY <1>1, <1>2, <1>3, <1>7, <1>8, EventKeeps DEF Proper

LEMMA HandleDisconnectedStep ==
    ASSUME TextInv, NEW c \in Clients, HandleDisconnected(c) PROVE TextInv'
<1>1. /\ Event(c, "disconnected")
      /\ ed' = [ed EXCEPT ![c] = [ed[c] EXCEPT !.connected = FALSE, !.synced = FALSE,
                                               !.offline = @ \/ ed[c].open]]
  BY DEF HandleDisconnected, Edit
<1>2. ed \in [Clients -> EdState] /\ ed[c] \in EdState /\ Proper(c)
  BY DEF TextInv, Known
<1>3. /\ ed' \in [Clients -> EdState] /\ \A d \in Clients \ {c} : ed'[d] = ed[d]
      /\ ed'[c].buf = ed[c].buf /\ ed'[c].pending = ed[c].pending
      /\ ed'[c].open = ed[c].open /\ ed'[c].slot = ed[c].slot /\ ed'[c].again = ed[c].again
      /\ ~ ed'[c].synced
  BY <1>1, <1>2, Zenon DEF EdState
<1>4. ed'[c].offline = (ed[c].offline \/ ed[c].open)
  BY <1>1, <1>2 DEF EdState
<1>5. Head(evts[c]).kind = "disconnected" /\ UNCHANGED <<cmds, br>>
  BY <1>1, Handled, Zenon DEF TextInv
<1>6. Asking(c) => Asking(c)'
  BY <1>3, <1>5 DEF Asking
<1>7. Handles(c, Head(evts[c]))
  BY <1>3, <1>4, <1>5, <1>6, Zenon DEF Handles, States
<1>8. ed'[c].offline => ed'[c].open
  BY <1>2, <1>3, <1>4, Zenon DEF Proper
<1> QED  BY <1>1, <1>2, <1>3, <1>7, <1>8, EventKeeps DEF Proper

LEMMA HandleRemoteStep ==
    ASSUME TextInv, NEW c \in Clients, HandleRemote(c) PROVE TextInv'
<1> DEFINE h == Head(evts[c])
<1>1. /\ Event(c, "remote")
      /\ ed' = [ed EXCEPT ![c] = IF ed[c].open
                                 THEN [ed[c] EXCEPT !.buf = @ \cup {h.edit}, !.offline = FALSE]
                                 ELSE ed[c]]
  BY DEF HandleRemote, Edit
<1>2. h \in Evt /\ h.kind = "remote" /\ UNCHANGED <<cmds, br>>
  BY <1>1, Handled, Zenon DEF TextInv
<1> HIDE DEF h
<1>3. h.edit \in doc /\ doc \subseteq Edits
  BY <1>2, EvtFacts DEF TextInv, Known
<1>4. ed \in [Clients -> EdState] /\ ed[c] \in EdState /\ Proper(c)
  BY DEF TextInv, Known
<1>5. ASSUME ed[c].open
      PROVE  /\ ed' \in [Clients -> EdState] /\ \A d \in Clients \ {c} : ed'[d] = ed[d]
             /\ ed'[c].buf = ed[c].buf \cup {h.edit} /\ ed'[c].pending = ed[c].pending
             /\ ed'[c].open = ed[c].open /\ ~ ed'[c].offline
             /\ ed'[c].slot = ed[c].slot /\ ed'[c].again = ed[c].again
             /\ ed'[c].synced = ed[c].synced
  BY <1>1, <1>3, <1>4, <1>5, Zenon DEF EdState
<1>6. ~ ed[c].open => ed' = ed
  BY <1>1, <1>4
<1>7. Asking(c) => Asking(c)'
  BY <1>2, <1>5, <1>6, Zenon DEF Asking
<1>8. Handles(c, h)
  BY <1>2, <1>3, <1>5, <1>6, <1>7, Zenon DEF Handles, States
<1>9. /\ ed' \in [Clients -> EdState] /\ \A d \in Clients \ {c} : ed'[d] = ed[d]
      /\ Elements(ed'[c].pending) \subseteq Own(c)
      /\ ed'[c].synced => ed'[c].open
      /\ ed'[c].offline => ed'[c].open
      /\ ~ ed'[c].open => ed'[c].buf = {}
  BY <1>4, <1>5, <1>6, Zenon DEF Proper
<1> QED  BY <1>1, <1>8, <1>9, EventKeeps DEF h

LEMMA HandleGapStep ==
    ASSUME TextInv, NEW c \in Clients, HandleGap(c) PROVE TextInv'
<1>1. Event(c, "gap") /\ ed' = [ed EXCEPT ![c] = [ed[c] EXCEPT !.slot = "sync"]]
  BY DEF HandleGap, Edit
<1>2. ed \in [Clients -> EdState] /\ ed[c] \in EdState /\ Proper(c)
  BY DEF TextInv, Known
<1>3. /\ ed' \in [Clients -> EdState] /\ \A d \in Clients \ {c} : ed'[d] = ed[d]
      /\ ed'[c].buf = ed[c].buf /\ ed'[c].pending = ed[c].pending
      /\ ed'[c].open = ed[c].open /\ ed'[c].offline = ed[c].offline
      /\ ed'[c].again = ed[c].again /\ ed'[c].synced = ed[c].synced
  BY <1>1, <1>2, Zenon DEF EdState
<1>4. Head(evts[c]).kind = "gap" /\ UNCHANGED <<cmds, br>>
  BY <1>1, Handled DEF TextInv
<1>5. Asking(c) => Asking(c)'
  BY <1>3, <1>4, Zenon DEF Asking
<1>6. Handles(c, Head(evts[c]))
  BY <1>3, <1>4, <1>5 DEF Handles, States
<1> QED  BY <1>1, <1>2, <1>3, <1>6, EventKeeps, Zenon DEF Proper

\* load_sync_state
LEMMA LoadedFacts ==
    ASSUME TextInv, NEW c \in Clients, Head(evts[c]) \in Evt, Edit(c, Loaded(c))
    PROVE  /\ ed' \in [Clients -> EdState] /\ \A d \in Clients \ {c} : ed'[d] = ed[d]
           /\ ed'[c].buf = Head(evts[c]).state /\ ed'[c].pending = <<>> /\ ed'[c].open
           /\ ed'[c].again = ed[c].again
<1> DEFINE h == Head(evts[c])
<1>1. ed' = [ed EXCEPT ![c] = [ed[c] EXCEPT !.open = TRUE, !.buf = h.state, !.pending = <<>>,
                                            !.synced = TRUE]]
  BY DEF Edit, Loaded
<1> HIDE DEF h
<1>2. h.state \subseteq Edits
  BY EvtFacts DEF TextInv, Known, h
<1>3. ed \in [Clients -> EdState] /\ ed[c] \in EdState
  BY DEF TextInv, Known
<1>4. <<>> \in Seq(Edits)
  OBVIOUS
<1>5. /\ ed' \in [Clients -> EdState] /\ \A d \in Clients \ {c} : ed'[d] = ed[d]
      /\ ed'[c].buf = h.state /\ ed'[c].pending = <<>> /\ ed'[c].open
      /\ ed'[c].again = ed[c].again
  BY <1>1, <1>2, <1>3, <1>4, Zenon DEF EdState
<1> QED  BY <1>5 DEF h

LEMMA HandleJoinedStep ==
    ASSUME TextInv, NEW c \in Clients, HandleJoined(c) PROVE TextInv'
<1> DEFINE h == Head(evts[c])
<1>1. Event(c, "joined") /\ Edit(c, IF ed[c].open
                                   THEN [ed[c] EXCEPT !.buf = @ \cup h.state, !.synced = TRUE]
                                   ELSE Loaded(c))
  BY DEF HandleJoined
<1>2. h \in Evt /\ h.kind = "joined" /\ UNCHANGED <<cmds, br>>
  BY <1>1, Handled, Zenon DEF TextInv
<1>3. h.state \subseteq doc /\ doc \subseteq Edits
  BY <1>2, EvtFacts DEF TextInv, Known
<1>4. ed \in [Clients -> EdState] /\ ed[c] \in EdState /\ Proper(c)
  BY DEF TextInv, Known
<1>5. CASE ~ ed[c].open
  <2>1. Edit(c, Loaded(c))
    BY <1>1, <1>5
  <2>2. /\ ed' \in [Clients -> EdState] /\ \A d \in Clients \ {c} : ed'[d] = ed[d]
        /\ ed'[c].buf = h.state /\ ed'[c].pending = <<>> /\ ed'[c].open
        /\ ed'[c].again = ed[c].again
    BY <1>2, <2>1, LoadedFacts
  <2>3. Asking(c) => Asking(c)'
    BY <1>2, <2>2, Zenon DEF Asking
  <2> HIDE DEF h
  <2>4. Handles(c, h)
    BY <1>2, <1>3, <1>5, <2>2, <2>3 DEF Handles, States
  <2>5. Elements(ed'[c].pending) \subseteq Own(c)
    BY <2>2, Empty
  <2> QED  BY <1>1, <2>2, <2>4, <2>5, EventKeeps, Zenon DEF h
<1>6. CASE ed[c].open
  <2>1. ed' = [ed EXCEPT ![c] = [ed[c] EXCEPT !.buf = @ \cup h.state, !.synced = TRUE]]
    BY <1>1, <1>6 DEF Edit
  <2> HIDE DEF h
  <2>2. /\ ed' \in [Clients -> EdState] /\ \A d \in Clients \ {c} : ed'[d] = ed[d]
        /\ ed'[c].buf = ed[c].buf \cup h.state /\ ed'[c].pending = ed[c].pending
        /\ ed'[c].open = ed[c].open /\ ed'[c].offline = ed[c].offline
        /\ ed'[c].again = ed[c].again
    <3>1. ed[c].buf \cup h.state \subseteq Edits
      BY <1>3, <1>4 DEF EdState
    <3> QED  BY <1>4, <2>1, <3>1, Zenon DEF EdState
  <2>3. Asking(c) => Asking(c)'
    BY <1>2, <2>2, Zenon DEF Asking
  <2>4. Handles(c, h)
    BY <1>2, <1>3, <2>2, <2>3 DEF Handles, States
  <2>5. Elements(ed'[c].pending) \subseteq Own(c)
    BY <1>4, <2>2, Zenon DEF Proper
  <2> QED  BY <1>1, <1>6, <2>2, <2>4, <2>5, EventKeeps, Zenon DEF h
<1> QED  BY <1>5, <1>6

LEMMA HandleResyncedStep ==
    ASSUME TextInv, NEW c \in Clients, HandleResynced(c) PROVE TextInv'
<1> DEFINE h == Head(evts[c])
<1>1. Event(c, "resynced") /\ Edit(c, Loaded(c))
  BY DEF HandleResynced
<1>2. h \in Evt /\ h.kind = "resynced" /\ UNCHANGED <<cmds, br>>
  BY <1>1, Handled, Zenon DEF TextInv
<1>3. /\ ed' \in [Clients -> EdState] /\ \A d \in Clients \ {c} : ed'[d] = ed[d]
      /\ ed'[c].buf = h.state /\ ed'[c].pending = <<>> /\ ed'[c].open
      /\ ed'[c].again = ed[c].again
  BY <1>1, <1>2, LoadedFacts
<1>4. Asking(c) => Asking(c)'
  BY <1>2, <1>3, Zenon DEF Asking
<1> HIDE DEF h
<1>5. Handles(c, h)
  BY <1>2, <1>3, <1>4 DEF Handles, States
<1>6. Elements(ed'[c].pending) \subseteq Own(c)
  BY <1>3, Empty
<1> QED  BY <1>1, <1>3, <1>5, <1>6, EventKeeps, Zenon DEF h

--------------------------------------------------------------------------------
(***************************************************************************)
(* The bridge: what the connection brings.                                 *)
(***************************************************************************)

\* What arrives at the events when there is room.
Grows(c, s) ==
    /\ Len(evts[c]) \in Nat /\ Len(evts'[c]) = Len(evts[c]) + Len(s)
    /\ Elements(evts'[c]) = Elements(evts[c]) \cup Elements(s)
    /\ \A i \in 1 .. Len(evts[c]) : evts'[c][i] = evts[c][i]
    /\ \A i \in 0 .. Len(evts[c]) : Rest(evts'[c], i) = Rest(evts[c], i) \cup Elements(s)
    /\ \A i \in Len(evts[c]) + 1 .. Len(evts[c]) + Len(s) :
         evts'[c][i] = s[i - Len(evts[c])]

LEMMA ReportedAll ==
    ASSUME Known, Fits, doc' = doc, NEW c \in Clients, NEW s \in Seq(Evt), Report(c, s)
    PROVE  /\ evts' \in [Clients -> Seq(Evt')] /\ Len(evts'[c]) <= EvtCap
           /\ \A d \in Clients \ {c} : evts'[d] = evts[d]
           /\ lossy \subseteq lossy' /\ lossy' \subseteq lossy \cup {c}
           /\ c \notin lossy' => Grows(c, s)
<1>1. /\ evts' \in [Clients -> Seq(Evt')] /\ Len(evts'[c]) <= EvtCap
      /\ \A d \in Clients \ {c} : evts'[d] = evts[d]
      /\ lossy \subseteq lossy' /\ lossy' \subseteq lossy \cup {c}
      /\ c \notin lossy' => evts'[c] = evts[c] \o s
  BY Reported
<1>2. evts[c] \in Seq(Evt) /\ Len(evts[c]) \in Nat
  BY DEF Known
<1>3. /\ Len(evts[c] \o s) = Len(evts[c]) + Len(s)
      /\ Elements(evts[c] \o s) = Elements(evts[c]) \cup Elements(s)
  <2>1. Len(evts[c] \o s) = Len(evts[c]) + Len(s)
    BY <1>2, Joined, Zenon
  <2>2. Elements(evts[c] \o s) = Elements(evts[c]) \cup Elements(s)
    BY <1>2, Joined
  <2> QED  BY <2>1, <2>2
<1>4. \A i \in 1 .. Len(evts[c]) : (evts[c] \o s)[i] = evts[c][i]
  BY <1>2, Joined, Zenon
<1>5. \A i \in 0 .. Len(evts[c]) : Rest(evts[c] \o s, i) = Rest(evts[c], i) \cup Elements(s)
  BY <1>2, Joined
<1>6. \A i \in Len(evts[c]) + 1 .. Len(evts[c]) + Len(s) :
        (evts[c] \o s)[i] = s[i - Len(evts[c])]
  BY <1>2, Joined, Zenon
<1>7. evts'[c] = evts[c] \o s => Grows(c, s)
  BY <1>2, <1>3, <1>4, <1>5, <1>6, Zenon DEF Grows
<1> QED  BY <1>1, <1>7, Zenon

LEMMA ReportedOne ==
    ASSUME Known, Fits, doc' = doc, NEW c \in Clients, NEW v \in Evt, Report(c, <<v>>)
    PROVE  /\ evts' \in [Clients -> Seq(Evt')] /\ Len(evts'[c]) <= EvtCap
           /\ \A d \in Clients \ {c} : evts'[d] = evts[d]
           /\ lossy \subseteq lossy' /\ lossy' \subseteq lossy \cup {c}
           /\ c \notin lossy' =>
                /\ Len(evts[c]) \in Nat /\ Len(evts'[c]) = Len(evts[c]) + 1
                /\ Elements(evts'[c]) = Elements(evts[c]) \cup {v}
                /\ \A i \in 1 .. Len(evts[c]) : evts'[c][i] = evts[c][i]
                /\ \A i \in 0 .. Len(evts[c]) : Rest(evts'[c], i) = Rest(evts[c], i) \cup {v}
                /\ evts'[c][Len(evts[c]) + 1] = v
<1> DEFINE s == <<v>>
<1>1. s \in Seq(Evt) /\ Len(s) = 1 /\ s[1] = v /\ Elements(s) = {v} /\ Report(c, s)
  BY Single, Zenon
<1> HIDE DEF s
<1>2. /\ evts' \in [Clients -> Seq(Evt')] /\ Len(evts'[c]) <= EvtCap
      /\ \A d \in Clients \ {c} : evts'[d] = evts[d]
      /\ lossy \subseteq lossy' /\ lossy' \subseteq lossy \cup {c}
      /\ c \notin lossy' => Grows(c, s)
  BY <1>1, ReportedAll, Zenon
<1>3. ASSUME Grows(c, s) PROVE evts'[c][Len(evts[c]) + 1] = v
  <2>1. Len(evts[c]) \in Nat /\ Len(evts[c]) + 1 \in Len(evts[c]) + 1 .. Len(evts[c]) + Len(s)
    BY <1>1, <1>3 DEF Grows
  <2>2. evts'[c][Len(evts[c]) + 1] = s[(Len(evts[c]) + 1) - Len(evts[c])]
    BY <1>3, <2>1, Zenon DEF Grows
  <2> QED  BY <1>1, <2>1, <2>2
<1>4. c \notin lossy' => /\ Grows(c, s)
                         /\ evts'[c][Len(evts[c]) + 1] = v
  BY <1>2, <1>3, Zenon
<1> QED  BY <1>1, <1>2, <1>4 DEF Grows

\* The first message is taken from the connection.
LEMMA Received ==
    ASSUME Known, NEW c \in Clients, back[c] # <<>>, back' = [back EXCEPT ![c] = Tail(@)]
    PROVE  /\ Head(back[c]) \in Msg /\ back' \in [Clients -> Seq(Msg)]
           /\ Head(back[c]) = back[c][1] /\ 1 \in 1 .. Len(back[c])
           /\ Elements(back[c]) = Elements(back'[c]) \cup {Head(back[c])}
           /\ Rest(back[c], 1) = Elements(back'[c])
           /\ \A d \in Clients \ {c} : back'[d] = back[d]
<1>1. back \in [Clients -> Seq(Msg)] /\ back[c] \in Seq(Msg)
  BY DEF Known
<1>2. back'[c] = Tail(back[c]) /\ \A d \in Clients \ {c} : back'[d] = back[d]
  BY <1>1
<1>3. /\ Head(back[c]) \in Msg /\ Head(back[c]) = back[c][1] /\ Tail(back[c]) \in Seq(Msg)
      /\ Len(back[c]) \in Nat \ {0} /\ Len(Tail(back[c])) = Len(back[c]) - 1
      /\ \A i \in 0 .. Len(Tail(back[c])) : Rest(Tail(back[c]), i) = Rest(back[c], i + 1)
      /\ Elements(back[c]) = Elements(Tail(back[c])) \cup {Head(back[c])}
  BY <1>1, Popped
<1>4. back' \in [Clients -> Seq(Msg)]
  BY <1>1, <1>3
<1>5. Rest(Tail(back[c]), 0) = Elements(Tail(back[c]))
  BY <1>3, RestOfAll, Zenon
<1>6. 1 \in 1 .. Len(back[c]) /\ 0 \in 0 .. Len(Tail(back[c])) /\ 0 + 1 = 1
  BY <1>3
<1>7. Rest(back[c], 1) = Elements(Tail(back[c]))
  BY <1>3, <1>5, <1>6, Zenon
<1> QED  BY <1>2, <1>3, <1>4, <1>6, <1>7, Zenon

LEMMA AnswersPopped ==
    ASSUME Known, NEW c \in Clients, back[c] # <<>>, back' = [back EXCEPT ![c] = Tail(@)],
           Answers(c), link' = link, doc' = doc, serving' = serving, queue' = queue
    PROVE  Answers(c)'
<1>1. back \in [Clients -> Seq(Msg)] /\ back[c] \in Seq(Msg) /\ back'[c] = Tail(back[c])
  BY Zenon DEF Known
<1>2. /\ Len(back[c]) \in Nat \ {0} /\ Len(Tail(back[c])) = Len(back[c]) - 1
      /\ \A i \in 1 .. Len(Tail(back[c])) : Tail(back[c])[i] = back[c][i + 1]
      /\ \A i \in 0 .. Len(Tail(back[c])) : Rest(Tail(back[c]), i) = Rest(back[c], i + 1)
  BY <1>1, Popped
<1>3. \A e : OnTheWay(c, e)' = OnTheWay(c, e)
  BY Zenon DEF OnTheWay
<1> SUFFICES ASSUME link[c] = "up", NEW i \in 1 .. Len(back'[c]), back'[c][i].kind \in States,
                    NEW e \in doc \ Own(c)
             PROVE  \/ e \in back'[c][i].state \/ OnTheWay(c, e)
                    \/ \E m \in Rest(back'[c], i) : m.kind = "update" /\ m.edit = e
  BY <1>3 DEF Answers, Own
<1>4. /\ i + 1 \in 1 .. Len(back[c]) /\ i \in 0 .. Len(Tail(back[c]))
      /\ i \in 1 .. Len(Tail(back[c]))
  BY <1>1, <1>2
<1>5. back'[c][i] = back[c][i + 1] /\ Rest(back'[c], i) = Rest(back[c], i + 1)
  BY <1>1, <1>2, <1>4
<1> QED  BY <1>4, <1>5 DEF Answers

LEMMA MsgFacts ==
    ASSUME NEW h \in Msg
    PROVE  /\ h.state \subseteq doc /\ (h.kind = "update" => h.edit \in doc)
           /\ h.kind \in States \cup {"update"} /\ h.seq \in Nat
  BY DEF Msg, States

LEMMA ReceiveStateStep ==
    ASSUME TextInv, NEW c \in Clients, ReceiveState(c) PROVE TextInv'
<1> DEFINE h == Head(back[c])
           v == [kind |-> h.kind, edit |-> None, state |-> h.state]
           n == Len(evts[c])
<1>1. /\ back[c] # <<>> /\ h.kind \in States /\ back' = [back EXCEPT ![c] = Tail(@)]
      /\ Report(c, <<v>>)
  <2>1. [Plain(h.kind) EXCEPT !.state = h.state] = v
    BY DEF Plain
  <2> QED  BY <2>1 DEF ReceiveState, States
<1>2. UNCHANGED <<ed, typed, cmds, br, link, base, out, doc, serving, queue, delivered>>
  BY DEF ReceiveState, editorVars, bridgeVars, daemonVars
<1>3. /\ h \in Msg /\ back' \in [Clients -> Seq(Msg)] /\ h = back[c][1] /\ 1 \in 1 .. Len(back[c])
      /\ Elements(back[c]) = Elements(back'[c]) \cup {h} /\ Rest(back[c], 1) = Elements(back'[c])
      /\ \A d \in Clients \ {c} : back'[d] = back[d]
  BY <1>1, Received, Zenon DEF TextInv
<1> HIDE DEF h
<1>4. v \in Evt /\ v.kind = h.kind /\ v.kind \in States /\ v.state = h.state
  BY <1>1, <1>3, MsgFacts DEF Evt
<1> HIDE DEF v
<1>5. /\ evts' \in [Clients -> Seq(Evt')] /\ Len(evts'[c]) <= EvtCap
      /\ \A d \in Clients \ {c} : evts'[d] = evts[d]
      /\ lossy \subseteq lossy' /\ lossy' \subseteq lossy \cup {c}
      /\ c \notin lossy' =>
           /\ n \in Nat /\ Len(evts'[c]) = n + 1
           /\ Elements(evts'[c]) = Elements(evts[c]) \cup {v}
           /\ \A i \in 1 .. n : evts'[c][i] = evts[c][i]
           /\ \A i \in 0 .. n : Rest(evts'[c], i) = Rest(evts[c], i) \cup {v}
           /\ evts'[c][n + 1] = v
  BY <1>1, <1>2, <1>4, ReportedOne, Zenon DEF TextInv
<1>6. Known' /\ Fits'
  <2>1. Msg' = Msg
    BY <1>2, Zenon DEF Msg
  <2> QED  BY <1>2, <1>3, <1>5, <2>1, Zenon DEF TextInv, Known, Fits
<1>7. Proper(c) /\ link[c] # "down" /\ base[c] \subseteq v.state
  BY <1>1, <1>3, <1>4, Zenon DEF TextInv, Proper
<1>8. Proper(c)'
  BY <1>2, <1>3, <1>7, Zenon DEF Proper
<1>9. ASSUME c \notin lossy' PROVE Tracked(c)'
  <2>1. Tracked(c)
    BY <1>5, <1>9, Zenon DEF TextInv
  <2>2. \A e : OnTheWay(c, e)' = OnTheWay(c, e)
    BY <1>2, Zenon DEF OnTheWay
  <2> HIDE DEF n
  <2>3. n = Len(evts[c])
    BY DEF n
  <2>4. Noticed(c)'
    <3> SUFFICES ASSUME NEW i \in 1 .. n + 1, evts'[c][i].kind = "connected"
                 PROVE  IF i = 1 THEN ed[c].open => ed[c].offline
                        ELSE evts'[c][i - 1].kind = "disconnected"
      BY <1>2, <1>5, <1>7, <1>9, Zenon DEF Noticed
    <3>1. i \in 1 .. n
      BY <1>4, <1>5, <1>9, LenEvts, <2>3, LastOrEarlier DEF States
    <3>2. evts'[c][i] = evts[c][i] /\ (i # 1 => evts'[c][i - 1] = evts[c][i - 1])
      BY <1>5, <1>9, <3>1
    <3> QED  BY <2>1, <2>3, <3>1, <3>2, Zenon DEF Tracked, Noticed
  <2>5. Accounted(c)'
    <3>1. h.kind = "resynced" => Has(evts'[c], {"resynced"})
      BY <1>4, <1>5, <1>9, Zenon DEF Has
    <3>2. Replacing(c) => Replacing(c)' \/ h.kind = "resynced"
      BY <1>2, <1>3, Zenon DEF Replacing, Has
    <3>3. Asking(c)' = Asking(c)
      BY <1>2, Zenon DEF Asking
    <3>4. \A k : Has(evts[c], k) => Has(evts'[c], k)
      BY <1>5, <1>9, Zenon DEF Has
    <3> QED  BY <1>2, <2>1, <3>1, <3>2, <3>3, <3>4, Zenon DEF Tracked, Accounted
  <2>6. \A i \in 0 .. n : v \in Rest(evts'[c], i)
    BY <1>5, <1>9, Zenon
  <2>7. CaughtUp(c)'
    <3>1. ASSUME NEW i \in 0 .. n + 1 PROVE base[c] \subseteq Contents(c, i)' \/ Replaced(c, i)'
      <4>1. CASE i = n + 1
        BY <1>5, <1>7, <1>9, <4>1 DEF Contents
      <4>2. CASE i \in 0 .. n
        BY <1>2, <1>4, <1>7, <2>6, <4>2, Zenon DEF Replaced
      <4> QED  BY LenEvts, <2>3, FromZero, <4>1, <4>2, Zenon
    <3> QED  BY <1>2, <1>5, <1>9, <3>1, Zenon DEF CaughtUp
  <2>8. Heard(c)'
    <3> SUFFICES ASSUME link[c] = "up", NEW i \in 0 .. n + 1, NEW e \in doc \ Own(c)
                 PROVE  \/ e \in Contents(c, i)' \/ OnTheWay(c, e)
                        \/ Carries(back'[c], "update", e) \/ Follows(c, i, e)'
      BY <1>2, <1>5, <1>9, <2>2, Zenon DEF Heard, Own
    <3>1. CASE i = n + 1
      <4>1. Contents(c, i)' = h.state
        BY <1>4, <1>5, <1>9, <3>1 DEF Contents
      <4>2. \/ e \in h.state \/ OnTheWay(c, e)
            \/ \E m \in Rest(back[c], 1) : m.kind = "update" /\ m.edit = e
        BY <1>1, <1>3, <2>1, Zenon DEF Tracked, Answers
      <4> QED  BY <1>3, <4>1, <4>2, Zenon DEF Carries
    <3>2. CASE i \in 0 .. n
      BY <1>4, <2>6, <3>2, Zenon DEF Follows
    <3>3. i = n + 1 \/ i \in 0 .. n
      BY <1>5, <1>9
    <3> QED  BY <3>1, <3>2, <3>3, Zenon
  <2>9. Answers(c)'
    BY <1>1, <1>2, <2>1, AnswersPopped, Zenon DEF TextInv, Tracked
  <2> QED  BY <2>4, <2>5, <2>7, <2>8, <2>9 DEF Tracked
<1>10. \A d \in Clients \ {c} : Same(d)
  BY <1>2, <1>3, <1>5, Zenon DEF Same, Kept
<1> QED  BY <1>2, <1>5, <1>6, <1>8, <1>9, <1>10, OneEditor, Zenon

LEMMA ReceiveUpdateStep ==
    ASSUME TextInv, NEW c \in Clients, ReceiveUpdate(c) PROVE TextInv'
<1> DEFINE h == Head(back[c])
           u == [kind |-> "remote", edit |-> h.edit, state |-> {}]
           s == (IF br[c].seq # 0 /\ h.seq > br[c].seq + 1 THEN <<Plain("gap")>> ELSE <<>>) \o <<u>>
           n == Len(evts[c])
<1>1. /\ back[c] # <<>> /\ h.kind = "update" /\ back' = [back EXCEPT ![c] = Tail(@)]
      /\ IF br[c].shared THEN Report(c, s) /\ br' = [br EXCEPT ![c].seq = h.seq]
         ELSE UNCHANGED <<evts, lossy, br>>
  <2>1. [Plain("remote") EXCEPT !.edit = h.edit] = u
    BY DEF Plain
  <2> QED  BY <2>1, Zenon DEF ReceiveUpdate
<1>2. UNCHANGED <<ed, typed, cmds, link, base, out, doc, serving, queue, delivered>>
  BY DEF ReceiveUpdate, editorVars, daemonVars
<1>3. /\ h \in Msg /\ back' \in [Clients -> Seq(Msg)]
      /\ Elements(back[c]) = Elements(back'[c]) \cup {h}
      /\ \A d \in Clients \ {c} : back'[d] = back[d]
  BY <1>1, Received, Zenon DEF TextInv
<1> HIDE DEF h
<1>4. u \in Evt /\ u.kind = "remote" /\ u.edit = h.edit /\ Plain("gap") \in Evt
      /\ Plain("gap").kind = "gap"
  BY <1>1, <1>3, MsgFacts, Zenon DEF Evt, Plain
<1> HIDE DEF u
<1>5. /\ s \in Seq(Evt) /\ u \in Elements(s)
      /\ \A v \in Elements(s) : v.kind \in {"gap", "remote"}
      /\ Len(s) \in Nat /\ \A i \in 1 .. Len(s) : s[i] \in Elements(s)
  <2> DEFINE g == IF br[c].seq # 0 /\ h.seq > br[c].seq + 1 THEN <<Plain("gap")>> ELSE <<>>
  <2>1. g \in Seq(Evt) /\ Elements(g) \subseteq {Plain("gap")}
    BY <1>4, Single, Empty
  <2> DEFINE t == <<u>>
  <2>2. t \in Seq(Evt) /\ Elements(t) = {u} /\ s = g \o t
    BY <1>4, Single, Zenon
  <2> HIDE DEF g, t, s
  <2>3. s \in Seq(Evt) /\ Elements(s) = Elements(g) \cup {u}
    BY <2>1, <2>2, Joined
  <2>4. \A v \in Elements(s) : v = u \/ v = Plain("gap")
    BY <2>1, <2>3, Zenon
  <2>5. Len(s) \in Nat /\ \A i \in 1 .. Len(s) : s[i] \in Elements(s)
    BY <2>3 DEF Elements
  <2> QED  BY <1>4, <2>3, <2>4, <2>5, Zenon
<1> HIDE DEF s
<1>6. br \in [Clients -> BrState] /\ br[c] \in BrState /\ h.seq \in Nat
  BY <1>3, MsgFacts, Zenon DEF TextInv, Known
<1>7. /\ br' \in [Clients -> BrState] /\ br'[c].shared = br[c].shared
      /\ br'[c].force = br[c].force /\ \A d \in Clients \ {c} : br'[d] = br[d]
  BY <1>1, <1>6, Zenon DEF BrState
<1>8. /\ evts' \in [Clients -> Seq(Evt')] /\ Len(evts'[c]) <= EvtCap
      /\ \A d \in Clients \ {c} : evts'[d] = evts[d]
      /\ lossy \subseteq lossy' /\ lossy' \subseteq lossy \cup {c}
      /\ c \notin lossy' => evts' = evts \/ Grows(c, s)
      /\ c \notin lossy' /\ br[c].shared => Grows(c, s)
  <2>1. CASE br[c].shared
    BY <1>1, <1>2, <1>5, <2>1, ReportedAll, Zenon DEF TextInv
  <2>2. CASE ~ br[c].shared
    <3>1. Evt' = Evt
      BY <1>2 DEF Evt
    <3> QED  BY <1>1, <2>2, <3>1, Zenon DEF TextInv, Known, Fits
  <2> QED  BY <2>1, <2>2
<1>9. Known' /\ Fits'
  <2>1. Msg' = Msg
    BY <1>2 DEF Msg
  <2> QED  BY <1>2, <1>3, <1>7, <1>8, <2>1, Zenon DEF TextInv, Known, Fits
<1>10. Proper(c) /\ link[c] # "down"
  BY <1>1, Zenon DEF TextInv, Proper
<1>11. Proper(c)'
  BY <1>2, <1>3, <1>7, <1>10 DEF Proper
<1>12. ASSUME c \notin lossy' PROVE Tracked(c)'
  <2>1. Tracked(c)
    BY <1>8, <1>12, Zenon DEF TextInv
  <2>2. \A e : OnTheWay(c, e)' = OnTheWay(c, e)
    BY <1>2 DEF OnTheWay
  <2>3. Asking(c)' = Asking(c) /\ Requested(c)' = Requested(c) /\ Replacing(c)' = Replacing(c)
    BY <1>1, <1>2, <1>3, <1>7 DEF Asking, Requested, Replacing, Has, States
  <2>4. Answers(c)'
    BY <1>1, <1>2, <2>1, AnswersPopped, Zenon DEF TextInv, Tracked
  <2>5. n \in Nat
    BY LenEvts, Zenon
  <2> HIDE DEF n
  <2>6. n = Len(evts[c])
    BY DEF n
  <2>7. Len(evts'[c]) \in Nat /\ Len(evts'[c]) >= n
    BY <1>5, <1>8, <1>12, <2>5, <2>6 DEF Grows
  <2>8. /\ \A i \in 1 .. n : evts'[c][i] = evts[c][i]
        /\ \A i \in 0 .. n : Rest(evts[c], i) \subseteq Rest(evts'[c], i)
        /\ Elements(evts[c]) \subseteq Elements(evts'[c])
    BY <1>8, <1>12, <2>6, Zenon DEF Grows
  <2>9. \A i \in n + 1 .. Len(evts'[c]) : evts'[c][i].kind \in {"gap", "remote"}
    <3> SUFFICES ASSUME NEW i \in n + 1 .. Len(evts'[c])
                 PROVE  evts'[c][i].kind \in {"gap", "remote"}
      OBVIOUS
    <3>1. Grows(c, s)
      BY <1>8, <1>12, <2>5, <2>6
    <3>2. evts'[c][i] = s[i - n] /\ i - n \in 1 .. Len(s)
      <4>1. /\ Len(evts'[c]) = n + Len(s)
            /\ \A j \in n + 1 .. n + Len(s) : evts'[c][j] = s[j - n]
        BY <2>6, <3>1, Zenon DEF Grows
      <4>2. Len(s) \in Nat
        BY <1>5
      <4> QED  BY <2>5, <4>1, <4>2, Offset, Zenon
    <3> QED  BY <1>5, <3>2, Zenon
  <2>10. \A i \in 0 .. Len(evts'[c]) : Shows(c, i)' =>
           i \in 0 .. n /\ Shows(c, i) /\ Contents(c, i)' = Contents(c, i)
    <3> SUFFICES ASSUME NEW i \in 0 .. Len(evts'[c]), Shows(c, i)'
                 PROVE  i \in 0 .. n /\ Shows(c, i) /\ Contents(c, i)' = Contents(c, i)
      OBVIOUS
    <3>1. CASE i = 0
      BY <1>2, <2>5, <3>1 DEF Shows, Contents
    <3>2. CASE i \in 1 .. n
      <4>1. i # 0 /\ i \in 0 .. n
        BY <2>5, <3>2
      <4> QED  BY <2>8, <3>2, <4>1, Zenon DEF Shows, Contents
    <3>3. CASE i \in n + 1 .. Len(evts'[c])
      <4>1. i # 0
        BY <2>5, <3>3
      <4>2. "gap" \notin States /\ "remote" \notin States
        BY DEF States
      <4> QED  BY <2>9, <3>3, <4>1, <4>2, Zenon DEF Shows
    <3> QED  BY <2>5, <2>7, <3>1, <3>2, <3>3
  <2>11. Noticed(c)'
    <3> SUFFICES ASSUME NEW i \in 1 .. Len(evts'[c]), evts'[c][i].kind = "connected"
                 PROVE  IF i = 1 THEN ed[c].open => ed[c].offline
                        ELSE evts'[c][i - 1].kind = "disconnected"
      BY <1>2, <1>10, Zenon DEF Noticed
    <3>1. i \in 1 .. n
      BY <2>5, <2>7, <2>9, Beyond, Zenon
    <3>2. evts'[c][i] = evts[c][i] /\ (i # 1 => evts'[c][i - 1] = evts[c][i - 1])
      BY <2>5, <2>8, <3>1
    <3> QED  BY <2>1, <2>6, <3>1, <3>2, Zenon DEF Tracked, Noticed
  <2>12. Accounted(c)'
    BY <1>2, <1>7, <2>1, <2>3, <2>8, Zenon DEF Tracked, Accounted, Has
  <2>13. CaughtUp(c)'
    <3> SUFFICES ASSUME link[c] = "up", br[c].force # "skipped", ~ Asking(c), ~ Requested(c),
                        NEW i \in 0 .. Len(evts'[c]), Shows(c, i)'
                 PROVE  base[c] \subseteq Contents(c, i)' \/ Replaced(c, i)'
      BY <1>2, <1>7, <2>3, Zenon DEF CaughtUp
    <3>1. base[c] \subseteq Contents(c, i) \/ Replaced(c, i)
      BY <2>1, <2>6, <2>10, Zenon DEF Tracked, CaughtUp
    <3>2. Replaced(c, i) => Replaced(c, i)'
      BY <1>2, <1>7, <2>8, <2>10, Zenon DEF Replaced
    <3> QED  BY <2>10, <3>1, <3>2, Zenon
  <2>14. Heard(c)'
    <3> SUFFICES ASSUME link[c] = "up", br[c].shared, ~ Requested(c),
                        NEW i \in 0 .. Len(evts'[c]), Shows(c, i)', NEW e \in doc \ Own(c)
                 PROVE  \/ e \in Contents(c, i)' \/ OnTheWay(c, e)
                        \/ Carries(back'[c], "update", e) \/ Follows(c, i, e)'
      BY <1>2, <1>7, <2>2, <2>3 DEF Heard, Own
    <3>1. \/ e \in Contents(c, i) \/ OnTheWay(c, e) \/ Carries(back[c], "update", e)
          \/ Follows(c, i, e)
      BY <2>1, <2>6, <2>10, Zenon DEF Tracked, Heard
    <3>2. Follows(c, i, e) => Follows(c, i, e)'
      BY <2>8, <2>10, Zenon DEF Follows
    <3>3. u \in Rest(evts'[c], i)
      BY <1>5, <1>8, <1>12, <2>6, <2>10, Zenon DEF Grows
    <3>4. Carries(back[c], "update", e) =>
            Carries(back'[c], "update", e) \/ Follows(c, i, e)'
      BY <1>3, <1>4, <3>3, Zenon DEF Carries, Follows
    <3> QED  BY <2>10, <3>1, <3>2, <3>4, Zenon
  <2> QED  BY <2>4, <2>11, <2>12, <2>13, <2>14, Zenon DEF Tracked
<1>13. \A d \in Clients \ {c} : Same(d)
  BY <1>2, <1>3, <1>7, <1>8, Zenon DEF Same, Kept
<1> QED  BY <1>2, <1>8, <1>9, <1>11, <1>12, <1>13, OneEditor, Zenon

LEMMA NoticeBreakStep ==
    ASSUME TextInv, NEW c \in Clients, NoticeBreak(c) PROVE TextInv'
<1> DEFINE v == Plain("disconnected")
           n == Len(evts[c])
<1>1. /\ link' = [link EXCEPT ![c] = "down"]
      /\ br' = [br EXCEPT ![c].shared = FALSE, ![c].seq = 0]
      /\ out' = [out EXCEPT ![c] = <<>>] /\ back' = [back EXCEPT ![c] = <<>>]
      /\ Report(c, <<v>>)
  BY DEF NoticeBreak
<1>2. UNCHANGED <<ed, typed, cmds, base, doc, serving, queue, delivered>>
  BY DEF NoticeBreak, editorVars, daemonVars
<1>3. v \in Evt /\ v.kind = "disconnected"
  BY Zenon DEF Evt, Plain
<1> HIDE DEF v
<1>4. /\ evts' \in [Clients -> Seq(Evt')] /\ Len(evts'[c]) <= EvtCap
      /\ \A d \in Clients \ {c} : evts'[d] = evts[d]
      /\ lossy \subseteq lossy' /\ lossy' \subseteq lossy \cup {c}
      /\ c \notin lossy' =>
           /\ n \in Nat /\ Len(evts'[c]) = n + 1
           /\ \A i \in 1 .. n : evts'[c][i] = evts[c][i]
           /\ evts'[c][n + 1] = v
  BY <1>1, <1>2, <1>3, ReportedOne, Zenon DEF TextInv
<1>5. /\ br \in [Clients -> BrState] /\ br[c] \in BrState
      /\ link \in [Clients -> {"up", "broken", "down"}]
      /\ out \in [Clients -> Seq(Cmd)] /\ back \in [Clients -> Seq(Msg)]
  BY DEF TextInv, Known
<1>6. /\ br' \in [Clients -> BrState] /\ ~ br'[c].shared
      /\ \A d \in Clients \ {c} : br'[d] = br[d]
  BY <1>1, <1>5, Zenon DEF BrState
<1>7. /\ link' \in [Clients -> {"up", "broken", "down"}] /\ link'[c] = "down"
      /\ out' \in [Clients -> Seq(Cmd)] /\ out'[c] = <<>>
      /\ back' \in [Clients -> Seq(Msg)] /\ back'[c] = <<>>
      /\ \A d \in Clients \ {c} : link'[d] = link[d] /\ out'[d] = out[d] /\ back'[d] = back[d]
  BY <1>1, <1>5
<1>8. Known' /\ Fits'
  <2>1. Msg' = Msg
    BY <1>2, Zenon DEF Msg
  <2> QED  BY <1>2, <1>4, <1>6, <1>7, <2>1, Zenon DEF TextInv, Known, Fits
<1>9. Proper(c)'
  BY <1>2, <1>6, <1>7, Empty, Zenon DEF TextInv, Proper
<1>10. ASSUME c \notin lossy' PROVE Tracked(c)'
  <2>1. Tracked(c)
    BY <1>4, <1>10, Zenon DEF TextInv
  <2> HIDE DEF n
  <2>2. n = Len(evts[c])
    BY DEF n
  <2>3. evts'[c] # <<>> /\ evts'[c][Len(evts'[c])].kind = "disconnected"
    BY <1>3, <1>4, <1>10
  <2>4. ASSUME NEW i \in 1 .. Len(evts'[c]), evts'[c][i].kind = "connected"
        PROVE  IF i = 1 THEN ed[c].open => ed[c].offline
               ELSE evts'[c][i - 1].kind = "disconnected"
    <3>1. i \in 1 .. n
      BY <1>3, <1>4, <1>10, <2>4, LenEvts, <2>2, LastOrEarlier, Zenon
    <3>2. evts'[c][i] = evts[c][i] /\ (i # 1 => evts'[c][i - 1] = evts[c][i - 1])
      BY <1>4, <1>10, <3>1, LenEvts, <2>2, Previous, Zenon
    <3> QED  BY <2>1, <2>2, <2>4, <3>1, <3>2, Zenon DEF Tracked, Noticed
  <2>5. Noticed(c)'
    BY <1>2, <2>3, <2>4, Zenon DEF Noticed
  <2> QED  BY <1>7, <2>5, Zenon DEF Tracked, Accounted, CaughtUp, Heard, Answers
<1>11. \A d \in Clients \ {c} : Same(d)
  BY <1>2, <1>4, <1>6, <1>7, Zenon DEF Same, Kept
<1> QED  BY <1>2, <1>4, <1>8, <1>9, <1>10, <1>11, OneEditor, Zenon

LEMMA ReconnectStep ==
    ASSUME TextInv, NEW c \in Clients, Reconnect(c) PROVE TextInv'
<1> DEFINE v == Plain("connected")
           n == Len(evts[c])
<1>1. /\ link[c] = "down" /\ link' = [link EXCEPT ![c] = "up"]
      /\ br' = [br EXCEPT ![c].force = "due"]
      /\ queue' = [queue EXCEPT ![c] = <<>>] /\ delivered' = [delivered EXCEPT ![c] = 0]
      /\ base' = [base EXCEPT ![c] = doc]
      /\ Report(c, <<v>>)
  BY DEF Reconnect
<1>2. UNCHANGED <<ed, typed, cmds, out, back, doc, serving>>
  BY DEF Reconnect, editorVars, wireVars
<1>3. v \in Evt /\ v.kind = "connected"
  BY Zenon DEF Evt, Plain
<1> HIDE DEF v
<1>4. /\ evts' \in [Clients -> Seq(Evt')] /\ Len(evts'[c]) <= EvtCap
      /\ \A d \in Clients \ {c} : evts'[d] = evts[d]
      /\ lossy \subseteq lossy' /\ lossy' \subseteq lossy \cup {c}
      /\ c \notin lossy' =>
           /\ n \in Nat /\ Len(evts'[c]) = n + 1
           /\ Elements(evts'[c]) = Elements(evts[c]) \cup {v}
           /\ \A i \in 1 .. n : evts'[c][i] = evts[c][i]
           /\ \A i \in 0 .. n : Rest(evts'[c], i) = Rest(evts[c], i) \cup {v}
           /\ evts'[c][n + 1] = v
  BY <1>1, <1>2, <1>3, ReportedOne, Zenon DEF TextInv
<1>5. /\ br \in [Clients -> BrState] /\ br[c] \in BrState
      /\ link \in [Clients -> {"up", "broken", "down"}]
      /\ queue \in [Clients -> Seq(doc)] /\ delivered \in [Clients -> Nat]
      /\ base \in [Clients -> SUBSET doc]
  BY DEF TextInv, Known
<1>6. /\ br' \in [Clients -> BrState] /\ br'[c].force = "due" /\ br'[c].shared = br[c].shared
      /\ \A d \in Clients \ {c} : br'[d] = br[d]
  BY <1>1, <1>5, Zenon DEF BrState
<1>7. /\ link' \in [Clients -> {"up", "broken", "down"}] /\ link'[c] = "up"
      /\ queue' \in [Clients -> Seq(doc)] /\ queue'[c] = <<>>
      /\ delivered' \in [Clients -> Nat] /\ base' \in [Clients -> SUBSET doc]
      /\ \A d \in Clients \ {c} : link'[d] = link[d] /\ queue'[d] = queue[d] /\ base'[d] = base[d]
  BY <1>1, <1>5
<1>8. Known' /\ Fits'
  <2>1. Msg' = Msg
    BY <1>2, Zenon DEF Msg
  <2>2. Len(<<>>) <= QueueCap
    BY Caps, Empty
  <2> QED  BY <1>2, <1>4, <1>6, <1>7, <2>1, <2>2, Zenon DEF TextInv, Known, Fits
<1>9. out[c] = <<>> /\ back[c] = <<>> /\ ~ br[c].shared
  BY <1>1 DEF TextInv, Proper
<1>10. Proper(c)'
  BY <1>2, <1>6, <1>7, <1>9, Empty, Zenon DEF TextInv, Proper
<1>11. ASSUME c \notin lossy' PROVE Tracked(c)'
  <2>1. Tracked(c)
    BY <1>4, <1>11, Zenon DEF TextInv
  <2> HIDE DEF n
  <2>2. n = Len(evts[c]) /\ evts[c] \in Seq(Evt)
    BY Zenon DEF n, TextInv, Known
  <2>3. Noticed(c)'
    <3> SUFFICES ASSUME NEW i \in 1 .. n + 1, evts'[c][i].kind = "connected"
                 PROVE  IF i = 1 THEN ed[c].open => ed[c].offline
                        ELSE evts'[c][i - 1].kind = "disconnected"
      BY <1>2, <1>4, <1>7, <1>11, Zenon DEF Noticed
    <3>1. CASE i \in 1 .. n
      <4>1. evts'[c][i] = evts[c][i] /\ (i # 1 => evts'[c][i - 1] = evts[c][i - 1])
        BY <1>4, <1>11, <3>1
      <4> QED  BY <2>1, <2>2, <3>1, <4>1, Zenon DEF Tracked, Noticed
    <3>2. CASE i = n + 1 /\ n = 0
      <4>1. evts[c] = <<>>
        BY <2>2, <3>2, NothingIn, Zenon
      <4> QED  BY <1>1, <2>1, <3>2, <4>1 DEF Tracked, Noticed
    <3>3. CASE i = n + 1 /\ n # 0
      <4>1. evts[c] # <<>> /\ i # 1 /\ i - 1 = n /\ n \in 1 .. n
        BY <1>4, <1>11, <2>2, <3>3
      <4>2. evts[c][n].kind = "disconnected"
        BY <1>1, <2>1, <2>2, <4>1 DEF Tracked, Noticed
      <4> QED  BY <1>4, <1>11, <4>1, <4>2, Zenon
    <3> QED  BY <1>4, <1>11, <3>1, <3>2, <3>3
  <2>4. Accounted(c)'
    BY <1>3, <1>4, <1>6, <1>11, Zenon DEF Accounted, Has
  <2>5. CaughtUp(c)'
    <3> SUFFICES ASSUME NEW i \in 0 .. n + 1, Shows(c, i)' PROVE Replaced(c, i)'
      BY <1>4, <1>11, Zenon DEF CaughtUp
    <3>1. i \in 0 .. n
      BY <1>3, <1>4, <1>11 DEF Shows, States
    <3> QED  BY <1>3, <1>4, <1>6, <1>11, <3>1 DEF Replaced
  <2>6. Heard(c)'
    BY <1>6, <1>9, Zenon DEF Heard
  <2>7. Answers(c)'
    BY <1>2, <1>9, Empty, SMTT(30) DEF Answers
  <2> QED  BY <2>3, <2>4, <2>5, <2>6, <2>7, Zenon DEF Tracked
<1>12. \A d \in Clients \ {c} : Same(d)
  BY <1>2, <1>4, <1>6, <1>7, Zenon DEF Same, Kept
<1> QED  BY <1>2, <1>4, <1>8, <1>10, <1>11, <1>12, OneEditor, Zenon

--------------------------------------------------------------------------------
(***************************************************************************)
(* The daemon.                                                             *)
(***************************************************************************)

\* The first request is taken from the connection.
LEMMA Fetched ==
    ASSUME Known, NEW c \in Clients, NEW kinds, Served(c, kinds)
    PROVE  /\ serving[c] = None /\ out[c] # <<>>
           /\ Head(out[c]) \in Cmd /\ Head(out[c]).kind \in kinds
           /\ out' \in [Clients -> Seq(Cmd)]
           /\ Elements(out[c]) = Elements(out'[c]) \cup {Head(out[c])}
           /\ \A d \in Clients \ {c} : out'[d] = out[d]
           /\ UNCHANGED <<ed, typed, cmds, br, link, base, evts, delivered>>
<1>1. /\ serving[c] = None /\ out[c] # <<>> /\ Head(out[c]).kind \in kinds
      /\ out' = [out EXCEPT ![c] = Tail(@)]
      /\ UNCHANGED <<ed, typed, cmds, br, link, base, evts, delivered>>
  BY DEF Served, editorVars, bridgeVars
<1>2. out \in [Clients -> Seq(Cmd)] /\ out[c] \in Seq(Cmd)
  BY Zenon DEF Known
<1>3. /\ Head(out[c]) \in Cmd /\ Tail(out[c]) \in Seq(Cmd)
      /\ Elements(out[c]) = Elements(Tail(out[c])) \cup {Head(out[c])}
  BY <1>1, <1>2, Popped, Zenon
<1>4. /\ out' \in [Clients -> Seq(Cmd)] /\ out'[c] = Tail(out[c])
      /\ \A d \in Clients \ {c} : out'[d] = out[d]
  BY <1>1, <1>2, <1>3, Zenon
<1> QED  BY <1>1, <1>3, <1>4, Zenon

\* A message is put on the connection.
LEMMA Written ==
    ASSUME Known, NEW c \in Clients, NEW m \in Msg, back' = [back EXCEPT ![c] = Append(@, m)]
    PROVE  /\ back' \in [Clients -> Seq(Msg)] /\ \A d \in Clients \ {c} : back'[d] = back[d]
           /\ Elements(back'[c]) = Elements(back[c]) \cup {m}
           /\ Len(back[c]) \in Nat /\ Len(back'[c]) = Len(back[c]) + 1
           /\ \A i \in 1 .. Len(back[c]) : back'[c][i] = back[c][i]
           /\ \A i \in 1 .. Len(back[c]) : Rest(back'[c], i) = Rest(back[c], i) \cup {m}
           /\ back'[c][Len(back[c]) + 1] = m
<1>1. back \in [Clients -> Seq(Msg)] /\ back[c] \in Seq(Msg) /\ Len(back[c]) \in Nat
  BY DEF Known
<1>2. back'[c] = Append(back[c], m) /\ \A d \in Clients \ {c} : back'[d] = back[d]
  BY <1>1, Zenon
<1>3. /\ Append(back[c], m) \in Seq(Msg) /\ Len(Append(back[c], m)) = Len(back[c]) + 1
      /\ Elements(Append(back[c], m)) = Elements(back[c]) \cup {m}
      /\ Append(back[c], m)[Len(back[c]) + 1] = m
  BY <1>1, Appended
<1>4. \A i \in 1 .. Len(back[c]) : Append(back[c], m)[i] = back[c][i]
  BY <1>1, Appended
<1>5. \A i \in 0 .. Len(back[c]) : Rest(Append(back[c], m), i) = Rest(back[c], i) \cup {m}
  BY <1>1, Appended
<1>6. back' \in [Clients -> Seq(Msg)]
  BY <1>1, <1>3, Zenon
<1>7. \A i \in 1 .. Len(back[c]) : Rest(back'[c], i) = Rest(back[c], i) \cup {m}
  BY <1>1, <1>2, <1>5
<1> QED  BY <1>1, <1>2, <1>3, <1>4, <1>6, <1>7, Zenon

LEMMA ServeStateStep ==
    ASSUME TextInv, NEW c \in Clients, ServeState(c) PROVE TextInv'
<1> DEFINE m == [kind |-> IF Head(out[c]).kind = "join" THEN "joined" ELSE "resynced",
                 edit |-> None, seq |-> 0, state |-> doc]
           n == Len(back[c])
<1>1. /\ back' = IF link[c] = "up" THEN [back EXCEPT ![c] = Append(@, m)] ELSE back
      /\ UNCHANGED <<doc, serving, queue, lossy>> /\ Served(c, {"sync", "join"})
  BY DEF ServeState
<1>2. /\ out[c] # <<>> /\ Head(out[c]).kind \in {"sync", "join"}
      /\ out' \in [Clients -> Seq(Cmd)]
      /\ Elements(out[c]) = Elements(out'[c]) \cup {Head(out[c])}
      /\ \A d \in Clients \ {c} : out'[d] = out[d]
      /\ UNCHANGED <<ed, typed, cmds, br, link, base, evts, delivered>>
  BY <1>1, Fetched, Zenon DEF TextInv
<1>3. /\ m \in Msg /\ m.kind \in States /\ m.state = doc
      /\ Head(out[c]).kind = "sync" => m.kind = "resynced"
  BY DEF Msg, States
<1> HIDE DEF m
<1>4. ASSUME link[c] = "up"
      PROVE  /\ back' \in [Clients -> Seq(Msg)] /\ \A d \in Clients \ {c} : back'[d] = back[d]
             /\ Elements(back'[c]) = Elements(back[c]) \cup {m}
             /\ n \in Nat /\ Len(back'[c]) = n + 1
             /\ \A i \in 1 .. n : back'[c][i] = back[c][i]
             /\ \A i \in 1 .. n : Rest(back'[c], i) = Rest(back[c], i) \cup {m}
             /\ back'[c][n + 1] = m
  BY <1>1, <1>3, <1>4, Written, Zenon DEF TextInv
<1>5. link[c] # "up" => back' = back
  BY <1>1, Zenon
<1>6. back' \in [Clients -> Seq(Msg)] /\ \A d \in Clients \ {c} : back'[d] = back[d]
  BY <1>4, <1>5 DEF TextInv, Known
<1>7. Known' /\ Fits'
  <2>1. Msg' = Msg /\ Evt' = Evt
    BY <1>1, Zenon DEF Msg, Evt
  <2> QED  BY <1>1, <1>2, <1>6, <2>1, Zenon DEF TextInv, Known, Fits
<1>8. Proper(c) /\ link[c] # "down" /\ base[c] \subseteq doc
  BY <1>2, Zenon DEF TextInv, Known, Proper
<1>9. Proper(c)'
  BY <1>1, <1>2, <1>3, <1>4, <1>5, <1>8, Zenon DEF Proper
<1>10. ASSUME c \notin lossy' PROVE Tracked(c)'
  <2>1. Tracked(c)
    BY <1>1, <1>10, Zenon DEF TextInv
  <2>2. Noticed(c)'
    BY <1>2, <2>1 DEF Tracked, Noticed
  <2>3. CASE link[c] # "up"
    BY <1>2, <2>2, <2>3, Zenon DEF Tracked, Accounted, CaughtUp, Heard, Answers
  <2>4. CASE link[c] = "up"
    <3>1. Requested(c)'
      BY <1>3, <1>4, <2>4 DEF Requested, Has
    <3>2. CaughtUp(c)' /\ Heard(c)'
      BY <3>1, Zenon DEF CaughtUp, Heard
    <3>4. Accounted(c)'
      <4>1. Replacing(c) => Replacing(c)'
        BY <1>2, <1>3, <1>4, <2>4 DEF Replacing, Has
      <4>2. Asking(c)' = Asking(c)
        BY <1>2, Zenon DEF Asking
      <4>3. \A e : Carries(out[c], "update", e) => Carries(out'[c], "update", e)
        BY <1>2 DEF Carries
      <4> QED  BY <1>1, <1>2, <2>1, <4>1, <4>2, <4>3, Zenon DEF Tracked, Accounted
    <3>3. Answers(c)'
      <4>1. \A e : OnTheWay(c, e)' = OnTheWay(c, e)
        BY <1>1, Zenon DEF OnTheWay
      <4>0. Len(back'[c]) = n + 1 /\ doc' = doc /\ Own(c)' = Own(c)
        BY <1>1, <1>4, <2>4, Zenon DEF Own
      <4> SUFFICES ASSUME NEW i \in 1 .. n + 1, back'[c][i].kind \in States,
                          NEW e \in doc \ Own(c)
                   PROVE  \/ e \in back'[c][i].state \/ OnTheWay(c, e)
                          \/ \E x \in Rest(back'[c], i) : x.kind = "update" /\ x.edit = e
        BY <4>0, <4>1, Zenon DEF Answers
      <4>2. CASE i = n + 1
        BY <1>3, <1>4, <2>4, <4>2, Zenon
      <4>3. CASE i \in 1 .. n
        <5>1. back'[c][i] = back[c][i] /\ Rest(back'[c], i) = Rest(back[c], i) \cup {m}
          BY <1>4, <2>4, <4>3, Zenon
        <5>2. \/ e \in back[c][i].state \/ OnTheWay(c, e)
              \/ \E x \in Rest(back[c], i) : x.kind = "update" /\ x.edit = e
          BY <2>1, <2>4, <4>3, <5>1, Zenon DEF Tracked, Answers
        <5> QED  BY <5>1, <5>2, Zenon
      <4>4. i = n + 1 \/ i \in 1 .. n
        BY <1>4, <2>4, LastOrEarlier, Zenon
      <4> QED  BY <4>2, <4>3, <4>4, Zenon
    <3> QED  BY <2>2, <3>2, <3>3, <3>4, Zenon DEF Tracked
  <2> QED  BY <2>3, <2>4
<1>11. \A d \in Clients \ {c} : Same(d)
  BY <1>1, <1>2, <1>6, Zenon DEF Same, Kept
<1> QED  BY <1>1, <1>7, <1>9, <1>10, <1>11, OneEditor, Zenon


LEMMA DeliverStep ==
    ASSUME TextInv, NEW c \in Clients, Deliver(c) PROVE TextInv'
<1> DEFINE q == Head(queue[c])
           m == [kind |-> "update", edit |-> q, seq |-> delivered[c] + 1, state |-> {}]
           n == Len(back[c])
<1>1. /\ queue[c] # <<>> /\ link[c] = "up" /\ queue' = [queue EXCEPT ![c] = Tail(@)]
      /\ delivered' = [delivered EXCEPT ![c] = @ + 1]
      /\ back' = [back EXCEPT ![c] = Append(@, m)]
  BY Zenon DEF Deliver
<1>2. UNCHANGED <<ed, typed, cmds, evts, br, link, base, out, doc, serving, lossy>>
  BY Zenon DEF Deliver, editorVars, bridgeVars
<1>3. /\ queue \in [Clients -> Seq(doc)] /\ queue[c] \in Seq(doc) /\ Len(queue[c]) <= QueueCap
      /\ delivered \in [Clients -> Nat] /\ delivered[c] \in Nat
  BY Zenon DEF TextInv, Known, Fits
<1>4. /\ q \in doc /\ Tail(queue[c]) \in Seq(doc) /\ Len(queue[c]) \in Nat
      /\ Len(Tail(queue[c])) = Len(queue[c]) - 1
      /\ Elements(queue[c]) = Elements(Tail(queue[c])) \cup {q}
  BY <1>1, <1>3, Popped
<1> HIDE DEF q
<1>5. m \in Msg /\ m.kind = "update" /\ m.edit = q
  BY <1>3, <1>4, Notification, Zenon
<1> HIDE DEF m
<1>6. /\ back' \in [Clients -> Seq(Msg)] /\ \A d \in Clients \ {c} : back'[d] = back[d]
      /\ Elements(back'[c]) = Elements(back[c]) \cup {m}
      /\ n \in Nat /\ Len(back'[c]) = n + 1
      /\ \A i \in 1 .. n : back'[c][i] = back[c][i]
      /\ \A i \in 1 .. n : Rest(back'[c], i) = Rest(back[c], i) \cup {m}
      /\ back'[c][n + 1] = m
  BY <1>1, <1>5, Written, Zenon DEF TextInv
<1>7. /\ queue' \in [Clients -> Seq(doc)] /\ queue'[c] = Tail(queue[c])
      /\ \A d \in Clients \ {c} : queue'[d] = queue[d]
      /\ delivered' \in [Clients -> Nat]
  BY <1>1, <1>3, <1>4
<1>8. Len(queue'[c]) <= QueueCap
  BY <1>3, <1>4, <1>7, Caps
<1>9. Known' /\ Fits'
  <2>1. Msg' = Msg /\ Evt' = Evt
    BY <1>2 DEF Msg, Evt
  <2> QED  BY <1>2, <1>6, <1>7, <1>8, <2>1, Zenon DEF TextInv, Known, Fits
<1>10. Proper(c)'
  BY <1>1, <1>2, <1>5, <1>6 DEF TextInv, Proper, States
<1>11. ASSUME c \notin lossy' PROVE Tracked(c)'
  <2>1. Tracked(c)
    BY <1>2, <1>11 DEF TextInv
  <2>2. Asking(c)' = Asking(c) /\ Requested(c)' = Requested(c) /\ Replacing(c)' = Replacing(c)
    BY <1>2, <1>5, <1>6 DEF Asking, Requested, Replacing, Has, States
  <2>3. Noticed(c)' /\ Accounted(c)'
    BY <1>2, <2>1, <2>2, Zenon DEF Tracked, Noticed, Accounted
  <2>4. CaughtUp(c)'
    BY <1>2, <2>1, <2>2, CaughtStays, Zenon DEF Tracked, Onward
  <2>5. \A e : OnTheWay(c, e) => OnTheWay(c, e)' \/ e = q
    BY <1>2, <1>4, <1>7 DEF OnTheWay
  <2>6. Heard(c)'
    <3>1. \A e : OnTheWay(c, e) \/ Carries(back[c], "update", e) =>
                   OnTheWay(c, e)' \/ Carries(back'[c], "update", e)
      BY <1>5, <1>6, <2>5, Zenon DEF Carries
    <3> QED  BY <1>2, <2>1, <2>2, <3>1, HeardStays, Zenon DEF Tracked
  <2>7. Answers(c)'
    <3> SUFFICES ASSUME NEW i \in 1 .. n + 1, back'[c][i].kind \in States,
                        NEW e \in doc \ Own(c)
                 PROVE  \/ e \in back'[c][i].state \/ OnTheWay(c, e)'
                        \/ \E x \in Rest(back'[c], i) : x.kind = "update" /\ x.edit = e
      BY <1>2, <1>6, Zenon DEF Answers, Own
    <3>1. i \in 1 .. n
      <4>1. i = n + 1 \/ i \in 1 .. n
        BY <1>6, LastOrEarlier, Zenon
      <4> QED  BY <1>5, <1>6, <4>1 DEF States
    <3>2. \/ e \in back[c][i].state \/ OnTheWay(c, e)
          \/ \E x \in Rest(back[c], i) : x.kind = "update" /\ x.edit = e
      BY <1>1, <1>6, <2>1, <3>1, Zenon DEF Tracked, Answers
    <3> QED  BY <1>5, <1>6, <2>5, <3>1, <3>2, Zenon
  <2> QED  BY <2>3, <2>4, <2>6, <2>7, Zenon DEF Tracked
<1>12. \A d \in Clients \ {c} : Same(d)
  BY <1>2, <1>6, <1>7, Zenon DEF Same, Kept
<1> QED  BY <1>2, <1>9, <1>10, <1>11, <1>12, OneEditor, Zenon

LEMMA DeliverOtherStep ==
    ASSUME TextInv, NEW c \in Clients, DeliverOther(c) PROVE TextInv'
<1>1. /\ delivered' = [delivered EXCEPT ![c] = @ + 1]
      /\ UNCHANGED <<ed, typed, cmds, evts, br, link, base, out, back, doc, serving, queue, lossy>>
  BY Zenon DEF DeliverOther, editorVars, bridgeVars, wireVars
<1>2. delivered' \in [Clients -> Nat]
  BY <1>1, Incremented, Zenon DEF TextInv, Known
<1>3. Known' /\ Fits'
  BY <1>1, <1>2, Zenon DEF TextInv, Known, Fits, Evt, Msg
<1>4. \A d \in Clients : Same(d)
  BY <1>1, Zenon DEF Same, Kept
<1>5. Proper(c)'
  BY <1>1, <1>4, ProperElsewhere, Zenon DEF TextInv, Same
<1>6. c \notin lossy' => Tracked(c)'
  <2>1. Kept(c) /\ Announced(c)
    BY <1>1, <1>4, Zenon DEF Same, Announced, OnTheWay
  <2> QED  BY <1>1, <2>1, TrackedElsewhere, Zenon DEF TextInv
<1> QED  BY <1>1, <1>3, <1>4, <1>5, <1>6, OneEditor, Zenon

LEMMA BreakStep ==
    ASSUME TextInv, NEW c \in Clients, Break(c) PROVE TextInv'
<1>1. /\ link' = [link EXCEPT ![c] = "broken"] /\ queue' = [queue EXCEPT ![c] = <<>>]
      /\ UNCHANGED <<ed, typed, cmds, evts, br, base, out, back, doc, serving, delivered, lossy>>
  BY Zenon DEF Break, editorVars, wireVars
<1>2. link \in [Clients -> {"up", "broken", "down"}] /\ queue \in [Clients -> Seq(doc)]
  BY Zenon DEF TextInv, Known
<1>3. /\ link' \in [Clients -> {"up", "broken", "down"}] /\ link'[c] = "broken"
      /\ queue' \in [Clients -> Seq(doc)] /\ queue'[c] = <<>>
      /\ \A d \in Clients \ {c} : link'[d] = link[d] /\ queue'[d] = queue[d]
  BY <1>1, <1>2, Cleared, Zenon
<1>4. Known' /\ Fits'
  <2>1. Len(<<>>) <= QueueCap
    BY Caps, Empty
  <2>2. Msg' = Msg /\ Evt' = Evt
    BY <1>1, Zenon DEF Msg, Evt
  <2> QED  BY <1>1, <1>3, <2>1, <2>2 DEF TextInv, Known, Fits
<1>5. Proper(c)'
  BY <1>1, <1>3, Zenon DEF TextInv, Proper
<1>6. c \notin lossy' => Tracked(c)'
  <2>1. ~ (link'[c] = "up") /\ ~ (link'[c] = "down")
    BY <1>3
  <2>2. Accounted(c)' /\ CaughtUp(c)' /\ Heard(c)' /\ Answers(c)'
    BY <2>1, Zenon DEF Accounted, CaughtUp, Heard, Answers
  <2>3. Noticed(c) => Noticed(c)'
    BY <1>1, <2>1, Zenon DEF Noticed
  <2> QED  BY <1>1, <2>2, <2>3, Zenon DEF TextInv, Tracked
<1>7. \A d \in Clients \ {c} : Same(d)
  BY <1>1, <1>3, Zenon DEF Same, Kept
<1> QED  BY <1>1, <1>4, <1>5, <1>6, <1>7, OneEditor, Zenon


LEMMA Wider ==
    ASSUME NEW S, NEW T, S \subseteq T, NEW s \in Seq(S) PROVE s \in Seq(T)
  OBVIOUS

LEMMA DocGrows ==
    ASSUME Known, doc \subseteq doc', UNCHANGED <<evts, back, queue, base>>
    PROVE  /\ evts' \in [Clients -> Seq(Evt')] /\ back' \in [Clients -> Seq(Msg')]
           /\ queue' \in [Clients -> Seq(doc')] /\ base' \in [Clients -> SUBSET doc']
<1>1. Evt \subseteq Evt' /\ Msg \subseteq Msg'
  BY Zenon DEF Evt, Msg
<1>2. ASSUME NEW c \in Clients
      PROVE  evts[c] \in Seq(Evt') /\ back[c] \in Seq(Msg') /\ queue[c] \in Seq(doc')
             /\ base[c] \subseteq doc'
  <2>1. evts[c] \in Seq(Evt) /\ back[c] \in Seq(Msg) /\ queue[c] \in Seq(doc)
        /\ base[c] \subseteq doc
    BY Zenon DEF Known
  <2>2. evts[c] \in Seq(Evt')
    BY <1>1, <2>1, Wider
  <2>3. back[c] \in Seq(Msg')
    BY <1>1, <2>1, Wider, Zenon
  <2>4. queue[c] \in Seq(doc')
    BY <2>1, Wider
  <2> QED  BY <2>1, <2>2, <2>3, <2>4, Zenon
<1>3. /\ evts' = [c \in Clients |-> evts[c]] /\ back' = [c \in Clients |-> back[c]]
      /\ queue' = [c \in Clients |-> queue[c]] /\ base' = [c \in Clients |-> base[c]]
  BY DEF Known
<1> QED  BY <1>2, <1>3

LEMMA ServeUpdateStep ==
    ASSUME TextInv, NEW c \in Clients, ServeUpdate(c) PROVE TextInv'
<1> DEFINE m == Head(out[c])
           x == m.edit
<1>1. /\ Served(c, {"update"}) /\ doc' = doc \cup {x}
      /\ serving' = [serving EXCEPT ![c] = x] /\ UNCHANGED <<queue, back, lossy>>
  BY Zenon DEF ServeUpdate
<1>2. /\ serving[c] = None /\ out[c] # <<>> /\ m \in Cmd /\ m.kind = "update"
      /\ out' \in [Clients -> Seq(Cmd)]
      /\ Elements(out[c]) = Elements(out'[c]) \cup {m}
      /\ \A d \in Clients \ {c} : out'[d] = out[d]
      /\ UNCHANGED <<ed, typed, cmds, br, link, base, evts, delivered>>
  <2>1. m.kind \in {"update"} /\ serving[c] = None /\ out[c] # <<>> /\ m \in Cmd
    BY <1>1, Fetched, Zenon DEF TextInv
  <2>2. /\ out' \in [Clients -> Seq(Cmd)]
        /\ Elements(out[c]) = Elements(out'[c]) \cup {m}
        /\ \A d \in Clients \ {c} : out'[d] = out[d]
        /\ UNCHANGED <<ed, typed, cmds, br, link, base, evts, delivered>>
    BY <1>1, Fetched, Zenon DEF TextInv
  <2> QED  BY <2>1, <2>2, Zenon
<1> HIDE DEF m
<1>3. x \in Edits /\ x \in Own(c)
  BY <1>2, Zenon DEF TextInv, Proper, Cmd
<1> HIDE DEF x
<1>4. /\ serving \in [Clients -> doc \cup {None}] /\ doc \subseteq Edits
  BY Zenon DEF TextInv, Known
<1>5. /\ serving' \in [Clients -> doc' \cup {None}] /\ serving'[c] = x /\ doc' \subseteq Edits
      /\ \A d \in Clients \ {c} : serving'[d] = serving[d]
  BY <1>1, <1>3, <1>4, Zenon
<1>6. Known' /\ Fits'
  <2>1. /\ evts' \in [Clients -> Seq(Evt')] /\ back' \in [Clients -> Seq(Msg')]
        /\ queue' \in [Clients -> Seq(doc')] /\ base' \in [Clients -> SUBSET doc']
    BY <1>1, <1>2, DocGrows, Zenon DEF TextInv
  <2> QED  BY <1>1, <1>2, <1>5, <2>1 DEF TextInv, Known, Fits
<1>7. Proper(c)'
  BY <1>1, <1>2, <1>3, <1>5, Zenon DEF TextInv, Proper
<1>8. \A e \in Edits : e # None
  BY TextAssumption, Zenon DEF Edits
<1>9. \A d \in Clients, e \in doc : OnTheWay(d, e) => OnTheWay(d, e)'
  <2> SUFFICES ASSUME NEW d \in Clients, NEW e \in doc, OnTheWay(d, e) PROVE OnTheWay(d, e)'
    OBVIOUS
  <2>1. CASE e \in Elements(queue[d])
    BY <1>1, <2>1, Zenon DEF OnTheWay
  <2>2. CASE \E f \in Clients \ {d} : serving[f] = e
    <3>1. PICK f \in Clients \ {d} : serving[f] = e
      BY <2>2, Zenon
    <3>2. f # c
      BY <1>2, <1>4, <1>8, <3>1, Zenon
    <3> QED  BY <1>5, <3>1, <3>2 DEF OnTheWay
  <2> QED  BY <2>1, <2>2, Zenon DEF OnTheWay
<1>10. Announced(c)
  BY <1>1, <1>3, <1>9, Zenon DEF Announced
<1>11. ASSUME c \notin lossy' PROVE Tracked(c)'
  <2>1. Tracked(c)
    BY <1>1, <1>11, Zenon DEF TextInv
  <2>2. Asking(c)' = Asking(c) /\ Requested(c)' = Requested(c) /\ Replacing(c)' = Replacing(c)
    BY <1>1, <1>2, Zenon DEF Asking, Requested, Replacing, Has
  <2>3. Noticed(c)'
    BY <1>2, <2>1, Zenon DEF Tracked, Noticed
  <2>4. Accounted(c)'
    <3>1. \A e : Carries(out[c], "update", e) => Carries(out'[c], "update", e) \/ e \in doc'
      BY <1>1, <1>2, Zenon DEF Carries, x
    <3> QED  BY <1>1, <1>2, <2>1, <2>2, <3>1, Zenon DEF Tracked, Accounted
  <2>5. CaughtUp(c)'
    BY <1>2, <2>1, <2>2, CaughtStays, Zenon DEF Tracked, Onward
  <2>6. Heard(c)'
    <3> SUFFICES ASSUME link[c] = "up", br[c].shared, ~ Requested(c),
                        NEW i \in 0 .. Len(evts[c]), Shows(c, i), NEW e \in doc \ Own(c)
                 PROVE  \/ e \in Contents(c, i) \/ OnTheWay(c, e)'
                        \/ Carries(back[c], "update", e) \/ Follows(c, i, e)
      <4>1. \A i, e : /\ Shows(c, i)' = Shows(c, i) /\ Contents(c, i)' = Contents(c, i)
                      /\ Follows(c, i, e)' = Follows(c, i, e)
        BY <1>2, Zenon DEF Shows, Contents, Follows
      <4>2. doc' \ Own(c) = doc \ Own(c)
        BY <1>1, <1>3, Zenon
      <4>3. link'[c] = link[c] /\ br'[c] = br[c] /\ back'[c] = back[c] /\ evts'[c] = evts[c]
        BY <1>1, <1>2, Zenon
      <4>4. Own(c)' = Own(c)
        BY DEF Own
      <4> QED  BY <2>2, <4>1, <4>2, <4>3, <4>4, Zenon DEF Heard
    <3>1. \/ e \in Contents(c, i) \/ OnTheWay(c, e)
          \/ Carries(back[c], "update", e) \/ Follows(c, i, e)
      BY <2>1, Zenon DEF Tracked, Heard
    <3> QED  BY <1>9, <3>1, Zenon
  <2>7. Answers(c)'
    BY <1>1, <1>2, <1>10, <2>1, AnswersStay, Zenon DEF Tracked
  <2> QED  BY <2>3, <2>4, <2>5, <2>6, <2>7 DEF Tracked
<1>12. ASSUME NEW d \in Clients \ {c} PROVE Proper(d)' /\ (d \notin lossy' => Tracked(d)')
  <2>1. Kept(d) /\ serving'[d] = serving[d]
    BY Zenon, <1>1, <1>2, <1>5 DEF Kept
  <2>2. \A e : e = x => OnTheWay(d, e)'
    BY <1>5 DEF OnTheWay
  <2>3. Announced(d)
    BY <1>1, <1>9, <2>2 DEF Announced
  <2>4. Proper(d) /\ (d \notin lossy' => Tracked(d))
    BY <1>1 DEF TextInv
  <2> QED  BY <2>1, <2>3, <2>4, ProperElsewhere, TrackedElsewhere, Zenon
<1> QED  BY Zenon, <1>6, <1>7, <1>11, <1>12 DEF TextInv

LEMMA ServeBroadcastStep ==
    ASSUME TextInv, NEW c \in Clients, ServeBroadcast(c) PROVE TextInv'
<1> DEFINE x == serving[c]
           to == {d \in Clients \ {c} : link[d] = "up"}
           full == {d \in to : Len(queue[d]) = QueueCap}
<1>1. /\ x # None /\ serving' = [serving EXCEPT ![c] = None]
      /\ queue' = [d \in Clients |-> IF d \in to \ full THEN Append(queue[d], x) ELSE queue[d]]
      /\ lossy' = lossy \cup full
      /\ UNCHANGED <<ed, typed, cmds, evts, br, link, base, out, back, doc, delivered>>
  BY Zenon DEF ServeBroadcast, Broadcast, editorVars, bridgeVars, wireVars
<1>2. serving \in [Clients -> doc \cup {None}] /\ queue \in [Clients -> Seq(doc)]
  BY DEF TextInv, Known
<1>3. x \in doc
  BY <1>1, <1>2
<1>4. /\ serving' \in [Clients -> doc \cup {None}] /\ serving'[c] = None
      /\ \A d \in Clients \ {c} : serving'[d] = serving[d]
  BY <1>1, <1>2, Zenon
<1>5. ASSUME NEW d \in Clients
      PROVE  /\ queue'[d] \in Seq(doc) /\ Len(queue'[d]) <= QueueCap
             /\ Elements(queue[d]) \subseteq Elements(queue'[d])
             /\ d \in to \ full => x \in Elements(queue'[d])
  <2>1. queue[d] \in Seq(doc) /\ Len(queue[d]) <= QueueCap /\ Len(queue[d]) \in Nat
    BY QueueFits, Zenon
  <2>2. CASE d \in to \ full
    <3>1. queue'[d] = Append(queue[d], x)
      BY <1>1, <2>2, Zenon
    <3>2. /\ Append(queue[d], x) \in Seq(doc) /\ Len(Append(queue[d], x)) = Len(queue[d]) + 1
          /\ Elements(Append(queue[d], x)) = Elements(queue[d]) \cup {x}
      BY <1>3, <2>1, Appended
    <3>3. Len(queue[d]) # QueueCap
      BY <2>2
    <3>4. Len(queue[d]) + 1 <= QueueCap
      BY <2>1, <3>3, Caps, Room, Zenon
    <3> QED  BY <3>1, <3>2, <3>4, Zenon
  <2>3. CASE d \notin to \ full
    BY <1>1, <2>1, <2>3, Zenon
  <2> QED  BY <2>2, <2>3
<1>6. Known' /\ Fits'
  <2>1. queue' \in [Clients -> Seq(doc)]
    <3>1. queue' = [d \in Clients |-> queue'[d]]
      BY <1>1, Zenon
    <3> QED  BY <1>5, <3>1
  <2>2. Msg' = Msg /\ Evt' = Evt
    BY <1>1, Zenon DEF Msg, Evt
  <2> QED  BY <1>1, <1>4, <1>5, <2>1, <2>2, Zenon DEF TextInv, Known, Fits
<1>7. ASSUME NEW d \in Clients PROVE Proper(d)' /\ (d \notin lossy' => Tracked(d)')
  <2>1. Kept(d)
    BY <1>1 DEF Kept
  <2>2. Proper(d)'
    BY <1>1, <1>4, Zenon DEF TextInv, Proper
  <2>3. ASSUME d \notin lossy' PROVE Tracked(d)'
    <3>1. Tracked(d) /\ d \notin full
      BY <1>1, <2>3, Zenon DEF TextInv
    <3>2. ASSUME link[d] = "up", NEW e \in doc, OnTheWay(d, e) PROVE OnTheWay(d, e)'
      <4>1. CASE e \in Elements(queue[d])
        BY <1>5, <4>1 DEF OnTheWay
      <4>2. CASE \E f \in Clients \ {d} : serving[f] = e
        <5>1. PICK f \in Clients \ {d} : serving[f] = e
          BY <4>2
        <5>2. CASE f # c
          BY <1>4, <5>1, <5>2, Zenon DEF OnTheWay
        <5>3. CASE f = c
          <6>1. d \in to \ full /\ x = e
            BY <3>1, <3>2, <5>1, <5>3, Zenon
          <6> QED  BY <1>5, <6>1, Zenon DEF OnTheWay
        <5> QED  BY <5>2, <5>3
      <4> QED  BY <3>2, <4>1, <4>2, Zenon DEF OnTheWay
    <3>3. Announced(d)
      BY <1>1, <3>2 DEF Announced
    <3> QED  BY <2>1, <3>1, <3>3, TrackedElsewhere, Zenon
  <2> QED  BY <2>2, <2>3, Zenon
<1> QED  BY Zenon, <1>6, <1>7 DEF TextInv


--------------------------------------------------------------------------------
(***************************************************************************)
(* The theorems.                                                           *)
(***************************************************************************)
LEMMA TextInvStep == TextInv /\ [Next]_vars => TextInv'
<1> SUFFICES ASSUME TextInv, [Next]_vars PROVE TextInv'
  OBVIOUS
<1>1. CASE UNCHANGED vars
  <2>1. /\ UNCHANGED <<ed, typed, cmds, evts, br, link, base, out, back, doc, serving, queue>>
        /\ UNCHANGED <<delivered, lossy>>
    BY <1>1 DEF vars, editorVars, bridgeVars, wireVars, daemonVars
  <2>2. Known' /\ Fits'
    BY <2>1, Zenon DEF TextInv, Known, Fits, Evt, Msg
  <2>3. ASSUME NEW d \in Clients PROVE Proper(d)' /\ (d \notin lossy' => Tracked(d)')
    <3>1. Kept(d) /\ Announced(d) /\ serving'[d] = serving[d]
      BY <2>1 DEF Kept, Announced, OnTheWay
    <3> QED  BY <2>1, <3>1, ProperElsewhere, TrackedElsewhere, Zenon DEF TextInv
  <2> QED  BY Zenon, <2>2, <2>3 DEF TextInv
<1>2. ASSUME NEW c \in Clients, Type(c) \/ Join(c) \/ AskSync(c) \/ DrainUpdates(c) \/ DrainIntent(c)
      PROVE  TextInv'
  BY <1>2, TypeStep, AskStep, DrainUpdatesStep, DrainIntentStep DEF Join, AskSync
<1>3. ASSUME NEW c \in Clients, HandleEvent(c) PROVE TextInv'
  BY <1>3, HandleConnectedStep, HandleDisconnectedStep, HandleRemoteStep, HandleGapStep, Zenon,
     HandleJoinedStep, HandleResyncedStep DEF HandleEvent
<1>4. ASSUME NEW c \in Clients, BridgeStep(c) \/ Reconnect(c) PROVE TextInv'
  BY <1>4, SendUpdateStep, SendSyncStep, SendJoinStep, ReceiveStateStep, ReceiveUpdateStep, Zenon,
     NoticeBreakStep, ReconnectStep DEF BridgeStep
<1>5. ASSUME NEW c \in Clients, DaemonStep(c) \/ DeliverOther(c) \/ Break(c) PROVE TextInv'
  BY <1>5, ServeUpdateStep, ServeBroadcastStep, ServeStateStep, DeliverStep, DeliverOtherStep,
     BreakStep DEF DaemonStep
<1> QED  BY <1>1, <1>2, <1>3, <1>4, <1>5 DEF Next, EditorStep

LEMMA TextInvHolds == Spec => []TextInv
  BY TextInvInit, TextInvStep, PTL DEF Spec

\* The state is well formed: no channel is above its capacity, and only an open
\* buffer is synced.
THEOREM TextTypeCorrect == Spec => []TextTypeOK
  BY InvTyped, TextInvHolds, PTL

\* What an editor shows once nothing is under way, the others can see: dropped
\* updates and lost connections leave no edit behind that only one editor has,
\* unless the debounce dropped the resync after a reconnect.
THEOREM ShownIsAlwaysShared == Spec => []ShownIsShared
  BY InvShared, TextInvHolds, PTL

\* An editor that listens misses no edit of another: neither one that is applied
\* between its join and the answer, nor one that a resync crosses.
THEOREM RemoteAlwaysArrives == Spec => []RemoteArrives
  BY InvArrives, TextInvHolds, PTL

\* After a lost connection an editor has all that the document held when it
\* connected again: the resync that reconnecting queues is not lost among the
\* intents of the user, and nothing but the debounce drops it.
THEOREM ReconnectAlwaysCatchesUp == Spec => []ReconnectCatchesUp
  BY InvCaughtUp, TextInvHolds, PTL

================================================================================
