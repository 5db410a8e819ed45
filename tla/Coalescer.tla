----------------------------- MODULE Coalescer -----------------------------
(***************************************************************************)
(* What a debouncer promises to those who submit events and to the one who *)
(* closes the publisher after it, with no timer, mutex or counter in       *)
(* sight: every accepted event is handed out at most once; an event is     *)
(* dropped only because a newer one of its instance was accepted or the    *)
(* coalescer was closed; nothing is in anyone's hands once it has drained. *)
(***************************************************************************)
EXTENDS Naturals

CONSTANTS
    Instance,   \* the instance ids
    Status,     \* the statuses an event may carry
    NoEvent,    \* what a slot holds before its event is accepted
    MaxTimers   \* bound: how many events are accepted in a behaviour

VARIABLES
    created,    \* how many events were accepted
    event,      \* event[k]: the k-th accepted event
    fate,       \* fate[k]: what became of it
    closed,     \* nothing is accepted or handed out any more
    drained     \* and nothing handed out is still being worked on

vars == <<created, event, fate, closed, drained>>

Slot == 1..MaxTimers
Event == [InstanceID: Instance, Status: Status]
Fate == {"free", "held", "dropped", "handed", "done"}

Init ==
    /\ created = 0
    /\ event = [k \in Slot |-> NoEvent]
    /\ fate = [k \in Slot |-> "free"]
    /\ closed = FALSE
    /\ drained = FALSE

Held(i) == {k \in 1..created : event[k].InstanceID = i /\ fate[k] = "held"}

\* An event is accepted and held, and may displace held events of its instance.
Accept(e) ==
    /\ ~closed
    /\ created < MaxTimers
    /\ created' = created + 1
    /\ event' = [event EXCEPT ![created + 1] = e]
    /\ \E displaced \in SUBSET Held(e.InstanceID) :
         fate' = [k \in Slot |-> IF k = created + 1 THEN "held"
                                 ELSE IF k \in displaced THEN "dropped"
                                 ELSE fate[k]]
    /\ UNCHANGED <<closed, drained>>

HandOut(k) ==
    /\ ~closed
    /\ fate[k] = "held"
    /\ fate' = [fate EXCEPT ![k] = "handed"]
    /\ UNCHANGED <<created, event, closed, drained>>

Finish(k) ==
    /\ fate[k] = "handed"
    /\ fate' = [fate EXCEPT ![k] = "done"]
    /\ UNCHANGED <<created, event, closed, drained>>

Close ==
    /\ ~closed
    /\ closed' = TRUE
    /\ fate' = [k \in Slot |-> IF fate[k] = "held" THEN "dropped" ELSE fate[k]]
    /\ UNCHANGED <<created, event, drained>>

Drain ==
    /\ closed
    /\ \A k \in Slot : fate[k] # "handed"
    /\ drained' = TRUE
    /\ UNCHANGED <<created, event, fate, closed>>

Next ==
    \/ \E e \in Event : Accept(e)
    \/ \E k \in Slot : HandOut(k) \/ Finish(k)
    \/ Close
    \/ Drain

Spec == Init /\ [][Next]_vars
=============================================================================
