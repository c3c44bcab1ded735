----------------------------- MODULE AuditTrail -----------------------------
(***************************************************************************)
(* What the audit log promises, without bytes: an append-only sequence of  *)
(* events.  An append whose caller sees no error is durable.  An append    *)
(* that fails or is cut off may leave its event, nothing, or a fragment    *)
(* without a line end; a fragment swallows the one event that is appended  *)
(* after it, and nothing else is ever lost.                                *)
(***************************************************************************)
EXTENDS Naturals, Sequences

CONSTANT Events

VARIABLES trail,         \* the events that can be read, oldest first
          acknowledged,  \* the events whose caller saw no error
          durable,       \* how many of trail a power loss cannot take
          fragment       \* the log ends in a fragment

vars == <<trail, acknowledged, durable, fragment>>

Init == /\ trail = <<>>
        /\ acknowledged = {}
        /\ durable = 0
        /\ fragment = FALSE

Written(e) == IF fragment THEN trail ELSE Append(trail, e)

\* The caller sees success, also when a fragment swallows the event.
Record(e) == /\ trail' = Written(e)
             /\ acknowledged' = acknowledged \cup {e}
             /\ durable' = Len(trail')
             /\ fragment' = FALSE

\* The caller sees an error, or is not there any more: no byte, some bytes or
\* the whole line have been written.
Fail(e) == /\ \/ UNCHANGED <<trail, fragment>>
              \/ fragment' = TRUE /\ UNCHANGED trail
              \/ fragment' = FALSE /\ trail' = Written(e)
           /\ UNCHANGED <<acknowledged, durable>>

\* What was not synced may go, from the end.
PowerLoss == /\ \E n \in durable..Len(trail) :
                  /\ trail' = SubSeq(trail, 1, n)
                  /\ durable' = n
             /\ fragment' \in BOOLEAN
             /\ UNCHANGED acknowledged

Next == \/ \E e \in Events : Record(e) \/ Fail(e)
        \/ PowerLoss

Spec == Init /\ [][Next]_vars
=============================================================================
