--------------------------------- MODULE Outbox ---------------------------------
(***************************************************************************)
(* What ADR-020 promises of the pending queue of KB edits, without the     *)
(* machinery that provides it: an edit that was queued stays queued until  *)
(* the daemon has applied it or has refused it.  The daemon may be handed  *)
(* an edit more than once, and late.  Queueing an edit can fail.           *)
(***************************************************************************)
EXTENDS Naturals

VARIABLES
    last,       \* the last id given to an edit
    queued,     \* the edits that are queued
    applied,    \* the edits the daemon has applied
    refused     \* the edits the daemon has refused

outboxVars == <<last, queued, applied, refused>>

OutboxInit == last = 0 /\ queued = {} /\ applied = {} /\ refused = {}

Queue ==
    /\ last' = last + 1
    /\ queued' = queued \cup {last + 1}
    /\ UNCHANGED <<applied, refused>>

\* An edit that could not be queued takes an id all the same.
Skip == last' = last + 1 /\ UNCHANGED <<queued, applied, refused>>

Apply(e) == applied' = applied \cup {e} /\ UNCHANGED <<last, queued, refused>>

Refuse(e) == refused' = refused \cup {e} /\ UNCHANGED <<last, queued, applied>>

Remove(e) ==
    /\ e \in applied \cup refused
    /\ queued' = queued \ {e}
    /\ UNCHANGED <<last, applied, refused>>

OutboxNext == Queue \/ Skip \/ \E e \in 1 .. last : Apply(e) \/ Refuse(e) \/ Remove(e)

OutboxSpec == OutboxInit /\ [][OutboxNext]_outboxVars

================================================================================
