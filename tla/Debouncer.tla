----------------------------- MODULE Debouncer -----------------------------
(***************************************************************************)
(* The debouncer of internal/monitoring/debouncer.go: one time.AfterFunc   *)
(* timer per accepted event, a map from instance to its newest timer, a    *)
(* mutex, a stopped flag and a wait group.  A section of code that holds   *)
(* the mutex is one action: nothing in it blocks and every access to the   *)
(* shared fields is inside one.  What happens between two sections is a    *)
(* step of its own: the runtime starting an elapsed timer's callback, the  *)
(* callback waiting for the mutex, publishFn running outside the mutex.    *)
(*                                                                         *)
(* A timer is named by the position of the event that armed it in the      *)
(* order of accepted events, so t < u says that t's event is the older.    *)
(***************************************************************************)
EXTENDS Naturals, FiniteSets

CONSTANTS
    Instance,   \* the instance ids
    Status,     \* the statuses an event may carry
    NoEvent,    \* what an unused timer carries
    MaxTimers   \* bound: how many events are accepted in a behaviour

Event == [InstanceID: Instance, Status: Status]

ASSUME BoundAssumption == MaxTimers \in Nat
ASSUME NoEventAssumption == NoEvent \notin Event

VARIABLES
    created,    \* how many timers were armed so far
    event,      \* event[t]: the event the callback of timer t closes over
    timer,      \* timer[t]: where timer t and its callback are
    timers,     \* the map Debouncer.timers; NoTimer is an absent key
    stopped,    \* Debouncer.stopped
    wg,         \* the counter of Debouncer.wg
    stopPC,     \* where the caller of Stop is
    replaced    \* history: timers that a Submit found in the map and stopped

vars == <<created, event, timer, timers, stopped, wg, stopPC, replaced>>

Timer == 1..MaxTimers
NoTimer == 0

\* idle: not armed; pending: the window runs; cancelled: t.Stop() was in time;
\* fired: the callback goroutine runs and has not passed the mutex yet;
\* publishing: inside publishFn; skipped: left because of stopped; done.
TimerState == {"idle", "pending", "cancelled", "fired",
               "publishing", "skipped", "done"}

InState(s) == {t \in Timer : timer[t] = s}

\* The timers armed for instance i.
Of(i) == {t \in 1..created : event[t].InstanceID = i}

TypeOK ==
    /\ created \in 0..MaxTimers
    /\ event \in [Timer -> Event \cup {NoEvent}]
    /\ timer \in [Timer -> TimerState]
    /\ timers \in [Instance -> Timer \cup {NoTimer}]
    /\ stopped \in BOOLEAN
    /\ wg \in Nat
    /\ stopPC \in {"running", "waiting", "returned"}
    /\ replaced \in SUBSET Timer

Init ==
    /\ created = 0
    /\ event = [t \in Timer |-> NoEvent]
    /\ timer = [t \in Timer |-> "idle"]
    /\ timers = [i \in Instance |-> NoTimer]
    /\ stopped = FALSE
    /\ wg = 0
    /\ stopPC = "running"
    /\ replaced = {}

\* time.Timer.Stop on an AfterFunc timer: it prevents the callback only while
\* the window still runs; its result is not looked at by the code.
StopTimer(s) == IF s = "pending" THEN "cancelled" ELSE s

-----------------------------------------------------------------------------
\* Submit with its parts: the previous timer of the instance is stopped, and
\* the map entry is overwritten by the new one.
Arm(e, after) ==
    /\ created < MaxTimers
    /\ created' = created + 1
    /\ event' = [event EXCEPT ![created + 1] = e]
    /\ timer' = after
    /\ timers' = [timers EXCEPT ![e.InstanceID] = created + 1]
    /\ replaced' = replaced \cup ({timers[e.InstanceID]} \ {NoTimer})
    /\ UNCHANGED <<stopped, wg, stopPC>>

\* Mutants of Submit: the old timer is left running; the new timer is put in
\* the map before the map's timer is stopped; the stopped flag is not read.
SubmitKeepsOld(e) ==
    ~stopped /\ Arm(e, [timer EXCEPT ![created + 1] = "pending"])

SubmitStopsNew(e) ==
    ~stopped /\ Arm(e, [timer EXCEPT ![created + 1] = StopTimer("pending")])

SubmitAlways(e) ==
    Arm(e, [t \in Timer |-> IF t = created + 1 THEN "pending"
                            ELSE IF t = timers[e.InstanceID]
                                 THEN StopTimer(timer[t]) ELSE timer[t]])

Submit(e) ==
    \/ stopped /\ UNCHANGED vars
    \/ /\ ~stopped
       /\ Arm(e, [t \in Timer |-> IF t = created + 1 THEN "pending"
                                  ELSE IF t = timers[e.InstanceID]
                                       THEN StopTimer(timer[t]) ELSE timer[t]])

\* The window of timer t elapses: the runtime starts its callback.
Elapse(t) ==
    /\ timer[t] = "pending"
    /\ timer' = [timer EXCEPT ![t] = "fired"]
    /\ UNCHANGED <<created, event, timers, stopped, wg, stopPC, replaced>>

\* Mutants of Callback: wg.Add is forgotten; the stopped flag is not read.
CallbackWithoutAdd(t) ==
    /\ timer[t] = "fired" /\ ~stopped
    /\ timer' = [timer EXCEPT ![t] = "publishing"]
    /\ timers' = [timers EXCEPT ![event[t].InstanceID] = NoTimer]
    /\ UNCHANGED <<created, event, stopped, wg, stopPC, replaced>>

CallbackIgnoresStop(t) ==
    /\ timer[t] = "fired"
    /\ timer' = [timer EXCEPT ![t] = "publishing"]
    /\ timers' = [timers EXCEPT ![event[t].InstanceID] = NoTimer]
    /\ wg' = wg + 1
    /\ UNCHANGED <<created, event, stopped, stopPC, replaced>>

\* The callback's section under the mutex.  delete(d.timers, instanceID) takes
\* the entry out whichever timer it names: the entry may be a newer timer's.
Callback(t) ==
    /\ timer[t] = "fired"
    /\ \/ /\ stopped
          /\ timer' = [timer EXCEPT ![t] = "skipped"]
          /\ UNCHANGED <<timers, wg>>
       \/ /\ ~stopped
          /\ timer' = [timer EXCEPT ![t] = "publishing"]
          /\ timers' = [timers EXCEPT ![event[t].InstanceID] = NoTimer]
          /\ wg' = wg + 1
    /\ UNCHANGED <<created, event, stopped, stopPC, replaced>>

\* Mutant of PublishReturn: the deferred wg.Done is forgotten.
PublishReturnNoDone(t) ==
    /\ timer[t] = "publishing"
    /\ timer' = [timer EXCEPT ![t] = "done"]
    /\ UNCHANGED <<created, event, timers, stopped, wg, stopPC, replaced>>

\* publishFn returns and the deferred wg.Done runs.
PublishReturn(t) ==
    /\ timer[t] = "publishing"
    /\ timer' = [timer EXCEPT ![t] = "done"]
    /\ wg' = wg - 1
    /\ UNCHANGED <<created, event, timers, stopped, stopPC, replaced>>

-----------------------------------------------------------------------------
\* Stop's section under the mutex: only timers that are in the map are
\* stopped; one that lost its entry is left to the stopped flag.
StopBegin ==
    /\ stopPC = "running"
    /\ stopPC' = "waiting"
    /\ stopped' = TRUE
    /\ timer' = [t \in Timer |-> IF \E i \in Instance : timers[i] = t
                                 THEN StopTimer(timer[t]) ELSE timer[t]]
    /\ timers' = [i \in Instance |-> NoTimer]
    /\ UNCHANGED <<created, event, wg, replaced>>

\* Mutant of StopEnd: Stop returns without wg.Wait().
StopEndNoWait ==
    /\ stopPC = "waiting"
    /\ stopPC' = "returned"
    /\ UNCHANGED <<created, event, timer, timers, stopped, wg, replaced>>

\* wg.Wait() sees the counter at zero and Stop returns.
StopEnd ==
    /\ stopPC = "waiting"
    /\ wg = 0
    /\ stopPC' = "returned"
    /\ UNCHANGED <<created, event, timer, timers, stopped, wg, replaced>>

Next ==
    \/ \E e \in Event : Submit(e)
    \/ \E t \in Timer : Elapse(t) \/ Callback(t) \/ PublishReturn(t)
    \/ StopBegin
    \/ StopEnd

Spec == Init /\ [][Next]_vars

\* The runtime runs elapsed timers and ready goroutines, and publishFn is
\* bounded (five attempts, finite backoff).  Nobody is obliged to submit or to
\* stop, but a Stop that waits gets to see a counter that stays at zero.
Fairness ==
    /\ \A t \in Timer : WF_vars(Elapse(t) \/ Callback(t) \/ PublishReturn(t))
    /\ WF_vars(StopEnd)

FairSpec == Spec /\ Fairness

-----------------------------------------------------------------------------
\* The newest timer armed for instance i (when there is one).
Latest(i) == CHOOSE t \in Of(i) : \A u \in Of(i) : u <= t

\* A timer that Submit stopped too late: its callback had been started.
Raced(i) == {t \in replaced \cap Of(i) : timer[t] \notin {"pending", "cancelled"}}

Live == {"pending", "fired"}

\* Once Stop has returned, no publish is under way, and none starts later:
\* the publisher may be closed (debouncer.go:56-67, wg and stopped together).
StopDrains ==
    stopPC = "returned" => \A t \in Timer : timer[t] # "publishing"

\* While no stop of a replaced timer came too late, coalescing is exact: the
\* only timer of an instance that may still publish is the one in the map, and
\* it is the newest (debouncer.go:38-42, 48).
CoalescedUnlessRaced ==
    \A i \in Instance :
        Raced(i) = {} =>
            \A t \in Of(i) : timer[t] \in Live /\ ~stopped =>
                t = timers[i] /\ \A u \in Of(i) : u <= t

\* Until Stop, the newest event of an instance is never thrown away, not even
\* when an older callback has taken the newest timer out of the map.
LatestSurvives ==
    ~stopped => \A i \in Instance :
        \A t \in Of(i) : (\A u \in Of(i) : u <= t) =>
            timer[t] \in {"pending", "fired", "publishing", "done"}

\* The debounce contract of Submit's comment (debouncer.go:28-29): when another
\* event arrives within the window the previous one is replaced, so that one
\* window runs per instance at any time.
OneWindowPerInstance ==
    \A i \in Instance : Cardinality({t \in Of(i) : timer[t] = "pending"}) <= 1

\* The debouncer seen as a Coalescer: an event is held while its timer is live
\* and no Stop has begun, and in someone's hands while publishFn works on it.
FateOf(t) ==
    CASE timer[t] = "idle" -> "free"
      [] timer[t] \in Live /\ ~stopped -> "held"
      [] timer[t] = "publishing" -> "handed"
      [] timer[t] = "done" -> "done"
      [] OTHER -> "dropped"

Abstract == INSTANCE Coalescer WITH
    fate <- [t \in Timer |-> FateOf(t)],
    closed <- stopped,
    drained <- (stopPC = "returned")

\* The debouncer does what a Coalescer promises: at most one hand-out per
\* event, drops only for a newer event or a Stop, none in hand after Stop.
ImplementsCoalescer == Abstract!Spec

\* Every accepted event that stays the newest of its instance is handed to
\* publishFn in the end, unless the debouncer is stopped.
LatestPublished ==
    \A t \in Timer : t <= created ~>
        \/ stopped
        \/ timer[t] = "done"
        \/ t <= created /\ \E u \in Of(event[t].InstanceID) : u > t
=============================================================================
