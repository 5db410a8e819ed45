-------------------------- MODULE DebouncerProofs --------------------------
(***************************************************************************)
(* Theorems about Debouncer, for every set of instances and every bound.   *)
(*                                                                         *)
(* The properties rest on one inductive invariant.  Its parts say what the *)
(* shared fields mean to each other: the wait group counts the publishes   *)
(* under way, a map entry names the newest timer of its instance and that  *)
(* timer is live, a timer is cancelled only after a newer one took its     *)
(* place, and while nobody stopped a timer too late every live timer is in *)
(* the map.                                                                *)
(***************************************************************************)
EXTENDS Debouncer, FiniteSetTheorems, TLAPS

\* The slots in use are those up to created.
Slots ==
    /\ \A t \in Timer : timer[t] = "idle" <=> t > created
    /\ \A t \in 1..created : event[t] \in Event

\* The wait group counts the publishes under way; Stop waits for them.
WaitGroup ==
    /\ wg = Cardinality(InState("publishing"))
    /\ stopPC = "running" <=> ~stopped
    /\ stopPC = "returned" => wg = 0

\* An entry of the map is the newest timer of its instance, and live.
Entries ==
    \A i \in Instance : timers[i] # NoTimer =>
        /\ ~stopped
        /\ timers[i] \in Of(i)
        /\ timer[timers[i]] \in Live
        /\ \A u \in Of(i) : u <= timers[i]

\* A timer is replaced by a newer one of its instance, and until Stop only a
\* replaced timer is cancelled and no callback is turned away.
Replacement ==
    /\ \A t \in replaced :
         /\ t \in 1..created
         /\ \E u \in 1..created : u > t /\ event[u].InstanceID = event[t].InstanceID
    /\ ~stopped => \A t \in Timer :
         /\ timer[t] = "cancelled" => t \in replaced
         /\ timer[t] # "skipped"

\* While no stop came too late, the live timer is the one in the map.
Coalescing ==
    ~stopped => \A i \in Instance : Raced(i) = {} =>
        \A t \in Of(i) : timer[t] \in Live => t = timers[i]

IInv == TypeOK /\ Slots /\ WaitGroup /\ Entries /\ Replacement /\ Coalescing

-----------------------------------------------------------------------------
\* Timers are finitely many, and so are those in one state.
LEMMA FiniteStates ==
    ASSUME TypeOK
    PROVE  \A s : IsFiniteSet(InState(s)) /\ Cardinality(InState(s)) \in Nat
  <1>1. IsFiniteSet(Timer)
    BY FS_Interval, BoundAssumption DEF Timer
  <1>2. \A s : InState(s) \subseteq Timer
    BY DEF InState
  <1>. QED  BY <1>1, <1>2, FS_Subset, FS_CardinalityType

\* The timers armed for an instance are timers.
LEMMA OfTimers ==
    ASSUME TypeOK
    PROVE  \A i : Of(i) \subseteq Timer /\ Of(i) \subseteq 1..created
  <1>1. 1..created \subseteq Timer
    BY BoundAssumption DEF TypeOK, Timer
  <1>. QED  BY <1>1 DEF Of

\* A timer that was replaced is in no map entry any more.
LEMMA ReplacedNotInMap ==
    ASSUME IInv, NEW t \in replaced, NEW i \in Instance
    PROVE  timers[i] # t
  <1>. SUFFICES ASSUME timers[i] = t PROVE FALSE
    OBVIOUS
  <1>1. t \in 1..created /\ t # NoTimer
    BY DEF IInv, Replacement, NoTimer
  <1>2. t \in Of(i) /\ \A u \in Of(i) : u <= t
    BY <1>1 DEF IInv, Entries
  <1>3. PICK u \in 1..created : u > t /\ event[u].InstanceID = event[t].InstanceID
    BY DEF IInv, Replacement
  <1>4. event[t].InstanceID = i
    BY <1>2 DEF Of
  <1>. QED  BY <1>1, <1>2, <1>3, <1>4 DEF Of, IInv, TypeOK

LEMMA InitIInv == Init => IInv
  <1>. SUFFICES ASSUME Init PROVE IInv
    OBVIOUS
  <1>. USE DEF Init
  <1>1. TypeOK
    <2>1. created \in 0..MaxTimers /\ wg \in Nat
      BY BoundAssumption
    <2>2. timer \in [Timer -> TimerState] /\ event \in [Timer -> Event \cup {NoEvent}]
      BY DEF TimerState
    <2>3. stopped \in BOOLEAN /\ stopPC \in {"running", "waiting", "returned"}
      OBVIOUS
    <2>. QED  BY <2>1, <2>2, <2>3 DEF TypeOK
  <1>2. Slots
    BY BoundAssumption DEF Slots, Timer
  <1>3. InState("publishing") = {}
    BY DEF InState
  <1>4. WaitGroup
    BY <1>3, FS_EmptySet DEF WaitGroup
  <1>5. Entries
    BY DEF Entries, NoTimer
  <1>6. Replacement
    BY DEF Replacement
  <1>7. Coalescing
    BY DEF Coalescing, Of
  <1>. QED  BY <1>1, <1>2, <1>4, <1>5, <1>6, <1>7 DEF IInv

-----------------------------------------------------------------------------
\* Submit preserves the invariant.
LEMMA SubmitIInv ==
    ASSUME IInv, NEW e \in Event, ~stopped, Submit(e)
    PROVE  IInv'
  <1>. DEFINE i == e.InstanceID
              new == created + 1
              old == timers[i]
  <1>0. /\ TypeOK /\ Slots /\ WaitGroup /\ Entries /\ Replacement /\ Coalescing
        /\ i \in Instance /\ created \in Nat /\ MaxTimers \in Nat
    BY BoundAssumption DEF IInv, TypeOK, Event
  <1>1. /\ created < MaxTimers
        /\ created' = new
        /\ event' = [event EXCEPT ![new] = e]
        /\ timer' = [t \in Timer |-> IF t = new THEN "pending"
                                     ELSE IF t = old THEN StopTimer(timer[t])
                                     ELSE timer[t]]
        /\ timers' = [timers EXCEPT ![i] = new]
        /\ replaced' = replaced \cup ({old} \ {NoTimer})
        /\ UNCHANGED <<stopped, wg, stopPC>>
    BY DEF Submit, Arm, vars
  <1>2. new \in Timer /\ timer[new] = "idle"
    BY <1>0, <1>1 DEF Slots, Timer
  <1>3. TypeOK'
    <2>1. created' \in 0..MaxTimers
      BY <1>0, <1>1
    <2>2. event' \in [Timer -> Event \cup {NoEvent}]
      BY <1>0, <1>1, <1>2 DEF TypeOK
    <2>3. timer' \in [Timer -> TimerState]
      BY <1>0, <1>1, <1>2 DEF TypeOK, StopTimer, TimerState
    <2>4. timers' \in [Instance -> Timer \cup {NoTimer}]
      BY <1>0, <1>1, <1>2 DEF TypeOK
    <2>5. replaced' \in SUBSET Timer
      BY <1>0, <1>1 DEF TypeOK
    <2>. QED  BY <1>0, <1>1, <2>1, <2>2, <2>3, <2>4, <2>5 DEF TypeOK
  <1>4. /\ \A t \in 1..created : event'[t] = event[t] /\ t \in Timer /\ t # new
        /\ event'[new] = e
    BY <1>0, <1>1, <1>2 DEF TypeOK, Timer
  <1>5. \A j \in Instance : Of(j)' = IF j = i THEN Of(j) \cup {new} ELSE Of(j)
    <2>. SUFFICES ASSUME NEW j \in Instance
                  PROVE  Of(j)' = IF j = i THEN Of(j) \cup {new} ELSE Of(j)
      OBVIOUS
    <2>1. 1..created' = (1..created) \cup {new}
      BY <1>0, <1>1
    <2>. QED  BY <1>4, <2>1 DEF Of
  <1>6. \A t \in 1..created : t < new /\ t \in Nat
    BY <1>0
  <1>7. old # NoTimer => /\ old \in Of(i) /\ old \in 1..created
                         /\ timer[old] \in Live /\ \A u \in Of(i) : u <= old
    BY <1>0 DEF Entries, Of
  <1>8. Slots'
    <2>1. \A t \in Timer : timer'[t] = "idle" <=> t > new
      <3>. SUFFICES ASSUME NEW t \in Timer
                    PROVE  timer'[t] = "idle" <=> t > new
        OBVIOUS
      <3>1. CASE t = new
        BY <3>1, <1>0, <1>1
      <3>2. CASE t # new
        <4>1. timer'[t] = IF t = old THEN StopTimer(timer[t]) ELSE timer[t]
          BY <3>2, <1>1
        <4>2. timer'[t] = "idle" <=> timer[t] = "idle"
          BY <4>1 DEF StopTimer
        <4>3. t > created <=> t > new
          BY <3>2, <1>0 DEF Timer
        <4>. QED  BY <4>2, <4>3, <1>0 DEF Slots
      <3>. QED  BY <3>1, <3>2
    <2>2. \A t \in 1..new : event'[t] \in Event
      BY <1>0, <1>4 DEF Slots
    <2>. QED  BY <1>1, <2>1, <2>2 DEF Slots
  <1>9. WaitGroup'
    <2>1. \A t \in Timer : timer'[t] = "publishing" <=> timer[t] = "publishing"
      BY <1>0, <1>1, <1>2, <1>7 DEF StopTimer
    <2>2. InState("publishing")' = InState("publishing")
      BY <2>1 DEF InState
    <2>. QED  BY <1>0, <1>1, <2>2 DEF WaitGroup
  <1>10. Entries'
    <2>. SUFFICES ASSUME NEW j \in Instance, timers'[j] # NoTimer
                  PROVE  /\ ~stopped' /\ timers'[j] \in Of(j)'
                         /\ timer'[timers'[j]] \in Live
                         /\ \A u \in Of(j)' : u <= timers'[j]
      BY DEF Entries
    <2>1. CASE j = i
      <3>1. timers'[j] = new
        BY <2>1, <1>0, <1>1 DEF TypeOK
      <3>2. \A u \in Of(j)' : u <= new
        BY <2>1, <1>0, <1>5, <1>6 DEF Of
      <3>3. timer'[new] = "pending"
        BY <1>1, <1>2
      <3>. QED  BY <2>1, <1>1, <1>5, <3>1, <3>2, <3>3 DEF Live
    <2>2. CASE j # i
      <3>1. timers'[j] = timers[j] /\ Of(j)' = Of(j)
        BY <2>2, <1>0, <1>1, <1>5 DEF TypeOK
      <3>2. timers[j] \in Of(j) /\ timer[timers[j]] \in Live
            /\ \A u \in Of(j) : u <= timers[j]
        BY <3>1, <1>0 DEF Entries
      <3>3. timers[j] # new /\ timers[j] # old /\ timers[j] \in Timer
        BY <3>1, <3>2, <2>2, <1>4, <1>7 DEF Of
      <3>4. timer'[timers[j]] = timer[timers[j]]
        BY <3>3, <1>1
      <3>. QED  BY <3>1, <3>2, <3>4, <1>1
    <2>. QED  BY <2>1, <2>2
  <1>11. Replacement'
    <2>1. ASSUME NEW t \in replaced'
          PROVE  /\ t \in 1..created'
                 /\ \E u \in 1..created' :
                      u > t /\ event'[u].InstanceID = event'[t].InstanceID
      <3>1. CASE t \in replaced
        <4>1. PICK u \in 1..created :
                t \in 1..created /\ u > t /\ event[u].InstanceID = event[t].InstanceID
          BY <3>1, <1>0 DEF Replacement
        <4>. QED  BY <4>1, <1>4, <1>0, <1>1
      <3>2. CASE t \notin replaced
        <4>1. t = old /\ old # NoTimer
          BY <3>2, <1>1
        <4>2. t \in 1..created /\ event[t].InstanceID = i
          BY <4>1, <1>7 DEF Of
        <4>3. new \in 1..created' /\ new > t
          BY <4>2, <1>0, <1>1, <1>6
        <4>. QED  BY <4>2, <4>3, <1>1, <1>4, <1>0
      <3>. QED  BY <3>1, <3>2
    <2>2. \A t \in Timer : /\ timer'[t] = "cancelled" => t \in replaced'
                           /\ timer'[t] # "skipped"
      <3>. SUFFICES ASSUME NEW t \in Timer
                    PROVE  /\ timer'[t] = "cancelled" => t \in replaced'
                           /\ timer'[t] # "skipped"
        OBVIOUS
      <3>1. CASE t = new
        BY <3>1, <1>1
      <3>2. CASE t # new /\ t = old
        BY <3>2, <1>0, <1>1 DEF Replacement, StopTimer, Timer, NoTimer
      <3>3. CASE t # new /\ t # old
        BY <3>3, <1>0, <1>1 DEF Replacement
      <3>. QED  BY <3>1, <3>2, <3>3
    <2>. QED  BY <2>1, <2>2 DEF Replacement
  <1>12. Coalescing'
    <2>. SUFFICES ASSUME NEW j \in Instance, Raced(j)' = {},
                         NEW t \in Of(j)', timer'[t] \in Live
                  PROVE  t = timers'[j]
      BY DEF Coalescing
    <2>1. Raced(j) = {}
      <3>. SUFFICES ASSUME NEW r \in Raced(j) PROVE r \in Raced(j)'
        OBVIOUS
      <3>1. r \in replaced /\ r \in Of(j) /\ timer[r] # "cancelled"
        BY DEF Raced
      <3>2. r # new /\ r # old /\ r \in Timer
        BY <3>1, <1>4, <1>0, ReplacedNotInMap DEF Of
      <3>3. timer'[r] = timer[r]
        BY <3>2, <1>1
      <3>. QED  BY <3>1, <3>3, <1>1, <1>5 DEF Raced
    <2>2. CASE j = i
      <3>1. timers'[j] = new
        BY <2>2, <1>0, <1>1 DEF TypeOK
      <3>. SUFFICES ASSUME t # new PROVE FALSE
        BY <3>1
      <3>2. t \in Of(i) /\ t \in Timer
        BY <2>2, <1>4, <1>5 DEF Of
      <3>3. timer[t] \in Live
        BY <3>2, <1>1 DEF StopTimer, Live
      <3>4. t = old
        BY <2>1, <2>2, <3>2, <3>3, <1>0 DEF Coalescing
      <3>5. timer'[t] = "fired" /\ timer[t] = "fired"
        BY <3>2, <3>3, <3>4, <1>1 DEF StopTimer, Live
      <3>6. t \in replaced'
        BY <3>2, <3>4, <1>1 DEF NoTimer, Timer
      <3>7. t \in Raced(j)'
        BY <2>2, <3>2, <3>5, <3>6, <1>5 DEF Raced
      <3>. QED  BY <3>7
    <2>3. CASE j # i
      <3>1. t \in Of(j) /\ timers'[j] = timers[j]
        BY <2>3, <1>0, <1>1, <1>5 DEF TypeOK
      <3>2. t # new /\ t # old /\ t \in Timer
        BY <2>3, <3>1, <1>4, <1>7 DEF Of, NoTimer
      <3>3. timer'[t] = timer[t]
        BY <3>2, <1>1
      <3>. QED  BY <2>1, <3>1, <3>3, <1>0 DEF Coalescing
    <2>. QED  BY <2>2, <2>3
  <1>. QED  BY <1>3, <1>8, <1>9, <1>10, <1>11, <1>12 DEF IInv

-----------------------------------------------------------------------------
\* A timer that has fired is not counted by the wait group yet.
LEMMA ElapseIInv ==
    ASSUME IInv, NEW t \in Timer, Elapse(t)
    PROVE  IInv'
  <1>0. /\ TypeOK /\ Slots /\ WaitGroup /\ Entries /\ Replacement /\ Coalescing
        /\ timer[t] = "pending" /\ timer' = [timer EXCEPT ![t] = "fired"]
        /\ UNCHANGED <<created, event, timers, stopped, wg, stopPC, replaced>>
    BY DEF IInv, Elapse
  <1>1. \A u \in Timer : timer'[u] = IF u = t THEN "fired" ELSE timer[u]
    BY <1>0 DEF TypeOK
  <1>2. TypeOK'
    BY <1>0 DEF TypeOK, TimerState
  <1>3. Slots'
    BY <1>0, <1>1 DEF Slots
  <1>4. WaitGroup'
    <2>1. InState("publishing")' = InState("publishing")
      BY <1>0, <1>1 DEF InState
    <2>. QED  BY <1>0, <2>1 DEF WaitGroup
  <1>5. \A j \in Instance : Of(j)' = Of(j) /\ Of(j) \subseteq Timer
    BY <1>0, OfTimers DEF Of
  <1>6. Entries'
    BY <1>0, <1>1, <1>5 DEF Entries, Live
  <1>7. Replacement'
    BY <1>0, <1>1 DEF Replacement
  <1>8. Coalescing'
    <2>1. \A j \in Instance : Raced(j) \subseteq Raced(j)'
      BY <1>0, <1>1, <1>5 DEF Raced
    <2>2. \A u \in Timer : timer'[u] \in Live <=> timer[u] \in Live
      BY <1>0, <1>1 DEF Live
    <2>. QED  BY <1>0, <1>5, <2>1, <2>2 DEF Coalescing
  <1>. QED  BY <1>2, <1>3, <1>4, <1>6, <1>7, <1>8 DEF IInv

\* A callback that was started before Stop and gets the mutex after it.
LEMMA SkipIInv ==
    ASSUME IInv, NEW t \in Timer, Callback(t), stopped
    PROVE  IInv'
  <1>0. /\ TypeOK /\ Slots /\ WaitGroup /\ Entries /\ Replacement
        /\ timer[t] = "fired" /\ timer' = [timer EXCEPT ![t] = "skipped"]
        /\ UNCHANGED <<created, event, timers, stopped, wg, stopPC, replaced>>
    BY DEF IInv, Callback
  <1>1. \A u \in Timer : timer'[u] = IF u = t THEN "skipped" ELSE timer[u]
    BY <1>0 DEF TypeOK
  <1>2. TypeOK'
    BY <1>0 DEF TypeOK, TimerState
  <1>3. Slots'
    BY <1>0, <1>1 DEF Slots
  <1>4. WaitGroup'
    <2>1. InState("publishing")' = InState("publishing")
      BY <1>0, <1>1 DEF InState
    <2>. QED  BY <1>0, <2>1 DEF WaitGroup
  <1>5. Entries'
    BY <1>0 DEF Entries
  <1>6. Replacement' /\ Coalescing'
    BY <1>0 DEF Replacement, Coalescing
  <1>. QED  BY <1>2, <1>3, <1>4, <1>5, <1>6 DEF IInv

\* A callback that goes on to publish takes the entry of its instance out of
\* the map, its own or a newer timer's.  In the second case it was stopped too
\* late, and the instance counts as raced from then on.
LEMMA CallbackIInv ==
    ASSUME IInv, NEW t \in Timer, Callback(t), ~stopped
    PROVE  IInv'
  <1>. DEFINE i == event[t].InstanceID
  <1>0. /\ TypeOK /\ Slots /\ WaitGroup /\ Entries /\ Replacement /\ Coalescing
        /\ timer[t] = "fired" /\ timer' = [timer EXCEPT ![t] = "publishing"]
        /\ timers' = [timers EXCEPT ![i] = NoTimer]
        /\ wg' = wg + 1
        /\ UNCHANGED <<created, event, stopped, stopPC, replaced>>
    BY DEF IInv, Callback
  <1>1. \A u \in Timer : timer'[u] = IF u = t THEN "publishing" ELSE timer[u]
    BY <1>0 DEF TypeOK
  <1>2. TypeOK'
    <2>1. timer' \in [Timer -> TimerState]
      BY <1>0 DEF TypeOK, TimerState
    <2>2. timers' \in [Instance -> Timer \cup {NoTimer}]
      <3>1. timers \in [Instance -> Timer \cup {NoTimer}]
        BY <1>0 DEF TypeOK
      <3>. QED  BY <1>0, <3>1
    <2>3. wg' \in Nat
      BY <1>0 DEF TypeOK
    <2>. QED  BY <1>0, <2>1, <2>2, <2>3 DEF TypeOK
  <1>3. t \in 1..created /\ i \in Instance
    <2>1. t \in 1..created
      BY <1>0, BoundAssumption DEF Slots, Timer, TypeOK
    <2>. QED  BY <2>1, <1>0 DEF Slots, Event
  <1>4. Slots'
    BY <1>0, <1>1 DEF Slots
  <1>5. WaitGroup'
    <2>1. InState("publishing")' = InState("publishing") \cup {t}
      BY <1>0, <1>1 DEF InState
    <2>2. t \notin InState("publishing")
      BY <1>0 DEF InState
    <2>3. Cardinality(InState("publishing")') = Cardinality(InState("publishing")) + 1
      BY <1>0, <2>1, <2>2, FiniteStates, FS_AddElement
    <2>. QED  BY <1>0, <2>3 DEF WaitGroup, TypeOK
  <1>6. \A j \in Instance : Of(j)' = Of(j) /\ Of(j) \subseteq Timer
    BY <1>0, OfTimers DEF Of
  <1>7. \A j \in Instance : timers'[j] = IF j = i THEN NoTimer ELSE timers[j]
    BY <1>0, <1>3 DEF TypeOK
  <1>8. Entries'
    <2>. SUFFICES ASSUME NEW j \in Instance, timers'[j] # NoTimer
                  PROVE  /\ ~stopped' /\ timers'[j] \in Of(j)'
                         /\ timer'[timers'[j]] \in Live
                         /\ \A u \in Of(j)' : u <= timers'[j]
      BY DEF Entries
    <2>1. timers'[j] = timers[j] /\ j # i
      BY <1>7
    <2>2. timers[j] \in Of(j) /\ timer[timers[j]] \in Live
          /\ \A u \in Of(j) : u <= timers[j]
      BY <2>1, <1>0 DEF Entries
    <2>3. timers[j] # t /\ timers[j] \in Timer
      BY <2>1, <2>2, <1>6 DEF Of
    <2>. QED  BY <2>1, <2>2, <2>3, <1>0, <1>1, <1>6
  <1>9. Replacement'
    BY <1>0, <1>1 DEF Replacement
  <1>10. Coalescing'
    <2>1. \A j \in Instance : Raced(j) \subseteq Raced(j)'
      BY <1>0, <1>1, <1>6 DEF Raced
    <2>. SUFFICES ASSUME NEW j \in Instance, Raced(j) = {},
                         NEW u \in Of(j), timer'[u] \in Live
                  PROVE  u = timers'[j]
      BY <1>6, <2>1 DEF Coalescing
    <2>2. u \in Timer /\ u # t /\ timer[u] \in Live
      BY <1>1, <1>6 DEF Live
    <2>3. u = timers[j]
      BY <2>2, <1>0 DEF Coalescing
    <2>4. j # i
      <3>. SUFFICES ASSUME j = i PROVE FALSE
        OBVIOUS
      <3>1. t \in Of(j) /\ timer[t] \in Live
        BY <1>0, <1>3 DEF Of, Live
      <3>2. t = timers[j]
        BY <3>1, <1>0 DEF Coalescing
      <3>. QED  BY <3>2, <2>2, <2>3
    <2>. QED  BY <2>3, <2>4, <1>7
  <1>. QED  BY <1>2, <1>4, <1>5, <1>8, <1>9, <1>10 DEF IInv

\* publishFn returns.
LEMMA PublishReturnIInv ==
    ASSUME IInv, NEW t \in Timer, PublishReturn(t)
    PROVE  IInv'
  <1>0. /\ TypeOK /\ Slots /\ WaitGroup /\ Entries /\ Replacement /\ Coalescing
        /\ timer[t] = "publishing" /\ timer' = [timer EXCEPT ![t] = "done"]
        /\ wg' = wg - 1
        /\ UNCHANGED <<created, event, timers, stopped, stopPC, replaced>>
    BY DEF IInv, PublishReturn
  <1>1. \A u \in Timer : timer'[u] = IF u = t THEN "done" ELSE timer[u]
    BY <1>0 DEF TypeOK
  <1>2. t \in InState("publishing")
    BY <1>0 DEF InState
  <1>3. InState("publishing")' = InState("publishing") \ {t}
    BY <1>0, <1>1 DEF InState
  <1>4. /\ Cardinality(InState("publishing")') = Cardinality(InState("publishing")) - 1
        /\ Cardinality(InState("publishing")) # 0
    BY <1>0, <1>2, <1>3, FiniteStates, FS_RemoveElement, FS_EmptySet
  <1>5. wg \in Nat /\ wg # 0 /\ wg' \in Nat
    BY <1>0, <1>4 DEF WaitGroup, TypeOK
  <1>6. TypeOK'
    BY <1>0, <1>5 DEF TypeOK, TimerState
  <1>7. Slots'
    BY <1>0, <1>1 DEF Slots
  <1>8. WaitGroup'
    BY <1>0, <1>4, <1>5 DEF WaitGroup
  <1>9. \A j \in Instance : Of(j)' = Of(j) /\ Of(j) \subseteq Timer
    BY <1>0, OfTimers DEF Of
  <1>10. Entries'
    BY <1>0, <1>1, <1>9 DEF Entries, Live
  <1>11. Replacement'
    BY <1>0, <1>1 DEF Replacement
  <1>12. Coalescing'
    <2>1. \A j \in Instance : Raced(j) \subseteq Raced(j)'
      BY <1>0, <1>1, <1>9 DEF Raced
    <2>2. \A u \in Timer : timer'[u] \in Live => timer[u] \in Live
      BY <1>0, <1>1 DEF Live
    <2>. QED  BY <1>0, <1>9, <2>1, <2>2 DEF Coalescing
  <1>. QED  BY <1>6, <1>7, <1>8, <1>10, <1>11, <1>12 DEF IInv

\* Stop's section under the mutex empties the map.
LEMMA StopBeginIInv ==
    ASSUME IInv, StopBegin
    PROVE  IInv'
  <1>0. /\ TypeOK /\ Slots /\ WaitGroup /\ Replacement
        /\ stopPC = "running" /\ stopPC' = "waiting" /\ stopped' = TRUE
        /\ timer' = [t \in Timer |-> IF \E i \in Instance : timers[i] = t
                                     THEN StopTimer(timer[t]) ELSE timer[t]]
        /\ timers' = [i \in Instance |-> NoTimer]
        /\ UNCHANGED <<created, event, wg, replaced>>
    BY DEF IInv, StopBegin
  <1>1. \A t \in Timer : \/ timer'[t] = timer[t]
                         \/ timer[t] = "pending" /\ timer'[t] = "cancelled"
    BY <1>0 DEF StopTimer
  <1>2. TypeOK'
    <2>1. timer' \in [Timer -> TimerState]
      BY <1>0, <1>1 DEF TypeOK, TimerState
    <2>2. stopped' \in BOOLEAN /\ timers' \in [Instance -> Timer \cup {NoTimer}]
      BY <1>0
    <2>. QED  BY <1>0, <2>1, <2>2 DEF TypeOK
  <1>3. Slots'
    BY <1>0, <1>1 DEF Slots
  <1>4. WaitGroup'
    <2>1. InState("publishing")' = InState("publishing")
      BY <1>0, <1>1 DEF InState
    <2>. QED  BY <1>0, <2>1 DEF WaitGroup
  <1>5. Entries' /\ Coalescing'
    BY <1>0 DEF Entries, Coalescing
  <1>6. Replacement'
    BY <1>0 DEF Replacement
  <1>. QED  BY <1>2, <1>3, <1>4, <1>5, <1>6 DEF IInv

LEMMA StopEndIInv ==
    ASSUME IInv, StopEnd
    PROVE  IInv'
  <1>0. /\ TypeOK /\ Slots /\ WaitGroup /\ Entries /\ Replacement /\ Coalescing
        /\ stopPC = "waiting" /\ wg = 0 /\ stopPC' = "returned"
        /\ UNCHANGED <<created, event, timer, timers, stopped, wg, replaced>>
    BY DEF IInv, StopEnd
  <1>1. TypeOK'
    BY <1>0 DEF TypeOK
  <1>2. InState("publishing")' = InState("publishing")
    BY <1>0 DEF InState
  <1>3. WaitGroup'
    BY <1>0, <1>2 DEF WaitGroup
  <1>4. Slots' /\ Entries' /\ Replacement' /\ Coalescing'
    BY <1>0 DEF Slots, Entries, Replacement, Coalescing, Of, Raced
  <1>. QED  BY <1>1, <1>3, <1>4 DEF IInv

LEMMA StutterIInv ==
    ASSUME IInv, UNCHANGED vars
    PROVE  IInv'
  <1>1. UNCHANGED <<created, event, timer, timers, stopped, wg, stopPC, replaced>>
    BY DEF vars
  <1>2. TypeOK' /\ Slots' /\ WaitGroup'
    BY <1>1 DEF IInv, TypeOK, Slots, WaitGroup, InState
  <1>3. Entries' /\ Replacement' /\ Coalescing'
    BY <1>1 DEF IInv, Entries, Replacement, Coalescing, Of, Raced
  <1>. QED  BY <1>2, <1>3 DEF IInv

\* Every step preserves the invariant: one case per action.
LEMMA NextIInv == IInv /\ [Next]_vars => IInv'
  <1>. SUFFICES ASSUME IInv, [Next]_vars PROVE IInv'
    OBVIOUS
  <1>1. ASSUME NEW e \in Event, Submit(e) PROVE IInv'
    BY <1>1, SubmitIInv, StutterIInv DEF Submit
  <1>2. ASSUME NEW t \in Timer, Elapse(t) PROVE IInv'
    BY <1>2, ElapseIInv
  <1>3. ASSUME NEW t \in Timer, Callback(t) PROVE IInv'
    BY <1>3, SkipIInv, CallbackIInv
  <1>4. ASSUME NEW t \in Timer, PublishReturn(t) PROVE IInv'
    BY <1>4, PublishReturnIInv
  <1>5. CASE StopBegin
    BY <1>5, StopBeginIInv
  <1>6. CASE StopEnd
    BY <1>6, StopEndIInv
  <1>7. CASE UNCHANGED vars
    BY <1>7, StutterIInv
  <1>. QED  BY <1>1, <1>2, <1>3, <1>4, <1>5, <1>6, <1>7 DEF Next

\* The invariant holds in every reachable state, whatever the bounds.
THEOREM Invariance == Spec => []IInv
  <1>. QED  BY InitIInv, NextIInv, PTL DEF Spec

-----------------------------------------------------------------------------
\* Every variable keeps its type; in particular the wait group's counter never
\* goes below zero, which would panic in Go (debouncer.go:49-51).
THEOREM TypeCorrect == Spec => []TypeOK
  <1>1. IInv => TypeOK
    BY DEF IInv
  <1>. QED  BY <1>1, Invariance, PTL

\* Once Stop has returned nothing is being published, so that the publisher can
\* be closed (debouncer.go:58-67).
THEOREM Drained == Spec => []StopDrains
  <1>1. IInv => StopDrains
    <2>. SUFFICES ASSUME IInv, stopPC = "returned", NEW t \in Timer,
                         timer[t] = "publishing"
                  PROVE  FALSE
      BY DEF StopDrains
    <2>1. t \in InState("publishing")
      BY DEF InState
    <2>2. IsFiniteSet(InState("publishing")) /\ Cardinality(InState("publishing")) = 0
      BY FiniteStates DEF IInv, WaitGroup
    <2>. QED  BY <2>1, <2>2, FS_EmptySet
  <1>. QED  BY <1>1, Invariance, PTL

\* As long as no replaced timer had been started already, the only timer of an
\* instance that can still publish is the newest one, and the map names it
\* (debouncer.go:38-42).
THEOREM Coalesced == Spec => []CoalescedUnlessRaced
  <1>1. IInv => CoalescedUnlessRaced
    <2>. SUFFICES ASSUME IInv, NEW i \in Instance, Raced(i) = {},
                         NEW t \in Of(i), timer[t] \in Live, ~stopped
                  PROVE  t = timers[i] /\ \A u \in Of(i) : u <= t
      BY DEF CoalescedUnlessRaced
    <2>1. t = timers[i]
      BY DEF IInv, Coalescing
    <2>2. t # NoTimer
      BY DEF Of, NoTimer, IInv, TypeOK
    <2>. QED  BY <2>1, <2>2 DEF IInv, Entries
  <1>. QED  BY <1>1, Invariance, PTL

\* The newest event of an instance is not thrown away before Stop, races or not
\* (debouncer.go:34-42).
THEOREM NewestSurvives == Spec => []LatestSurvives
  <1>1. IInv => LatestSurvives
    <2>. SUFFICES ASSUME IInv, ~stopped, NEW i \in Instance, NEW t \in Of(i),
                         \A u \in Of(i) : u <= t
                  PROVE  timer[t] \in {"pending", "fired", "publishing", "done"}
      BY DEF LatestSurvives
    <2>1. t \in Timer /\ t \in 1..created /\ created \in Nat /\ event[t].InstanceID = i
      BY OfTimers DEF Of, IInv, TypeOK
    <2>2. timer[t] # "cancelled"
      <3>. SUFFICES ASSUME timer[t] = "cancelled" PROVE FALSE
        OBVIOUS
      <3>1. PICK u \in 1..created : u > t /\ event[u].InstanceID = i
        BY <2>1 DEF IInv, Replacement
      <3>. QED  BY <2>1, <3>1 DEF Of
    <2>3. timer[t] # "idle" /\ timer[t] # "skipped" /\ timer[t] \in TimerState
      BY <2>1 DEF IInv, Slots, Replacement, TypeOK
    <2>. QED  BY <2>2, <2>3 DEF TimerState
  <1>. QED  BY <1>1, Invariance, PTL

-----------------------------------------------------------------------------
(***************************************************************************)
(* The refinement: every step of the debouncer is a step of the Coalescer  *)
(* or changes nothing that the Coalescer shows.                            *)
(***************************************************************************)
fate == [t \in Timer |-> FateOf(t)]

\* What FateOf says, state by state of a timer.
LEMMA Fates ==
    ASSUME NEW t \in Timer
    PROVE  /\ timer[t] = "idle" => fate[t] = "free"
           /\ timer[t] = "publishing" => fate[t] = "handed"
           /\ timer[t] = "done" => fate[t] = "done"
           /\ timer[t] \in {"cancelled", "skipped"} => fate[t] = "dropped"
           /\ timer[t] \in Live /\ ~stopped => fate[t] = "held"
           /\ timer[t] \in Live /\ stopped => fate[t] = "dropped"
  BY DEF fate, FateOf, Live

\* The same in the next state.
LEMMA FatesNext ==
    ASSUME NEW t \in Timer
    PROVE  /\ timer'[t] = "idle" => fate'[t] = "free"
           /\ timer'[t] = "publishing" => fate'[t] = "handed"
           /\ timer'[t] = "done" => fate'[t] = "done"
           /\ timer'[t] \in {"cancelled", "skipped"} => fate'[t] = "dropped"
           /\ timer'[t] \in Live /\ ~stopped' => fate'[t] = "held"
           /\ timer'[t] \in Live /\ stopped' => fate'[t] = "dropped"
  BY DEF fate, FateOf, Live

\* A timer whose state is unchanged keeps its fate while stopped does.
LEMMA SameFate ==
    ASSUME NEW t \in Timer, timer'[t] = timer[t], stopped' = stopped
    PROVE  fate'[t] = fate[t]
  BY DEF fate, FateOf

LEMMA SubmitAccepts ==
    ASSUME IInv, NEW e \in Event, ~stopped, Submit(e)
    PROVE  Abstract!Accept(e)
  <1>. DEFINE i == e.InstanceID
              new == created + 1
              old == timers[i]
              displaced == {t \in {old} : t # NoTimer /\ timer[t] = "pending"}
  <1>1. /\ TypeOK /\ Slots /\ Entries /\ i \in Instance
        /\ created \in Nat /\ MaxTimers \in Nat
    BY BoundAssumption DEF IInv, TypeOK, Event
  <1>2. /\ created < MaxTimers
        /\ created' = new
        /\ event' = [event EXCEPT ![new] = e]
        /\ timer' = [t \in Timer |-> IF t = new THEN "pending"
                                     ELSE IF t = old THEN StopTimer(timer[t])
                                     ELSE timer[t]]
        /\ UNCHANGED <<stopped, stopPC>>
    BY DEF Submit, Arm, vars
  <1>3. old # NoTimer => old \in Timer /\ old \in Of(i)
    BY <1>1, OfTimers DEF Entries
  <1>4. displaced \in SUBSET {k \in 1..created : event[k].InstanceID = i /\ fate[k] = "held"}
    BY <1>3, Fates DEF Of, Live
  <1>5. fate' = [k \in Timer |-> IF k = new THEN "held"
                                ELSE IF k \in displaced THEN "dropped" ELSE fate[k]]
    <2>1. ASSUME NEW k \in Timer
          PROVE  fate'[k] = IF k = new THEN "held"
                            ELSE IF k \in displaced THEN "dropped" ELSE fate[k]
      <3>1. CASE k = new
        BY <3>1, <1>2, FatesNext DEF Live
      <3>2. CASE k # new /\ k \in displaced
        BY <3>2, <1>2, FatesNext DEF StopTimer
      <3>3. CASE k # new /\ k \notin displaced
        <4>1. k # NoTimer
          BY DEF Timer, NoTimer
        <4>2. timer'[k] = timer[k]
          BY <3>3, <4>1, <1>2 DEF StopTimer
        <4>. QED  BY <3>3, <4>2, <1>2, SameFate
      <3>. QED  BY <3>1, <3>2, <3>3
    <2>. QED  BY <2>1 DEF fate
  <1>6. /\ ~stopped /\ created < MaxTimers /\ created' = created + 1
        /\ event' = [event EXCEPT ![created + 1] = e]
        /\ UNCHANGED <<stopped, stopPC = "returned">>
    BY <1>2
  <1>. QED  BY <1>4, <1>5, <1>6 DEF Abstract!Accept, Abstract!Held, Abstract!Slot, fate, Timer

LEMMA CallbackHandsOut ==
    ASSUME IInv, NEW t \in Timer, Callback(t), ~stopped
    PROVE  Abstract!HandOut(t)
  <1>1. /\ timer[t] = "fired" /\ timer' = [timer EXCEPT ![t] = "publishing"]
        /\ UNCHANGED <<created, event, stopped, stopPC>>
        /\ timer \in [Timer -> TimerState]
    BY DEF Callback, IInv, TypeOK
  <1>2. fate' = [fate EXCEPT ![t] = "handed"]
    <2>1. ASSUME NEW k \in Timer
          PROVE  fate'[k] = IF k = t THEN "handed" ELSE fate[k]
      BY <1>1, FatesNext, SameFate
    <2>. QED  BY <2>1 DEF fate
  <1>3. fate[t] = "held"
    BY <1>1, Fates DEF Live
  <1>. QED  BY <1>1, <1>2, <1>3 DEF Abstract!HandOut, fate

LEMMA PublishReturnFinishes ==
    ASSUME IInv, NEW t \in Timer, PublishReturn(t)
    PROVE  Abstract!Finish(t)
  <1>1. /\ timer[t] = "publishing" /\ timer' = [timer EXCEPT ![t] = "done"]
        /\ UNCHANGED <<created, event, stopped, stopPC>>
        /\ timer \in [Timer -> TimerState]
    BY DEF PublishReturn, IInv, TypeOK
  <1>2. fate' = [fate EXCEPT ![t] = "done"]
    <2>1. ASSUME NEW k \in Timer
          PROVE  fate'[k] = IF k = t THEN "done" ELSE fate[k]
      BY <1>1, FatesNext, SameFate
    <2>. QED  BY <2>1 DEF fate
  <1>3. fate[t] = "handed"
    BY <1>1, Fates
  <1>. QED  BY <1>1, <1>2, <1>3 DEF Abstract!Finish, fate

LEMMA StopBeginCloses ==
    ASSUME IInv, StopBegin
    PROVE  Abstract!Close
  <1>1. /\ ~stopped /\ stopped' /\ stopPC = "running" /\ stopPC' = "waiting"
        /\ timer' = [t \in Timer |-> IF \E i \in Instance : timers[i] = t
                                     THEN StopTimer(timer[t]) ELSE timer[t]]
        /\ UNCHANGED <<created, event>>
        /\ timer \in [Timer -> TimerState]
    BY DEF StopBegin, IInv, WaitGroup, TypeOK
  <1>2. fate' = [k \in Timer |-> IF fate[k] = "held" THEN "dropped" ELSE fate[k]]
    <2>1. ASSUME NEW k \in Timer
          PROVE  fate'[k] = IF fate[k] = "held" THEN "dropped" ELSE fate[k]
      <3>1. \/ timer'[k] = timer[k]
            \/ timer[k] = "pending" /\ timer'[k] = "cancelled"
        BY <1>1 DEF StopTimer
      <3>2. timer[k] \in TimerState
        BY <1>1
      <3>. QED  BY <1>1, <3>1, <3>2, Fates, FatesNext DEF TimerState, Live
    <2>. QED  BY <2>1 DEF fate
  <1>. QED  BY <1>1, <1>2 DEF Abstract!Close, Abstract!Slot, fate, Timer

LEMMA StopEndDrains ==
    ASSUME IInv, StopEnd
    PROVE  Abstract!Drain
  <1>1. /\ stopPC = "waiting" /\ wg = 0 /\ stopPC' = "returned" /\ stopped
        /\ UNCHANGED <<created, event, timer, stopped>>
        /\ timer \in [Timer -> TimerState]
    BY DEF StopEnd, IInv, WaitGroup, TypeOK
  <1>2. InState("publishing") = {}
    BY <1>1, FiniteStates, FS_EmptySet DEF IInv, WaitGroup
  <1>3. \A k \in Timer : fate[k] # "handed"
    <2>. SUFFICES ASSUME NEW k \in Timer PROVE fate[k] # "handed"
      OBVIOUS
    <2>1. timer[k] \in TimerState /\ timer[k] # "publishing"
      BY <1>1, <1>2 DEF InState
    <2>. QED  BY <2>1, Fates DEF TimerState, Live
  <1>4. fate' = fate
    BY <1>1 DEF fate, FateOf
  <1>. QED  BY <1>1, <1>3, <1>4 DEF Abstract!Drain, Abstract!Slot, fate, Timer

\* Steps that the Coalescer does not see: a timer's window elapses, a callback
\* is turned away after Stop, an event is submitted after Stop.
LEMMA Invisible ==
    ASSUME IInv,
           \/ \E t \in Timer : Elapse(t)
           \/ stopped /\ \E t \in Timer : Callback(t)
           \/ UNCHANGED vars
    PROVE  UNCHANGED Abstract!vars
  <1>1. /\ UNCHANGED <<created, event, stopped, stopPC>>
        /\ timer \in [Timer -> TimerState]
    BY DEF Elapse, Callback, vars, IInv, TypeOK
  <1>2. ASSUME NEW k \in Timer
        PROVE  \/ timer'[k] = timer[k]
               \/ timer[k] = "pending" /\ timer'[k] = "fired"
               \/ timer[k] = "fired" /\ timer'[k] = "skipped" /\ stopped
    BY <1>1 DEF Elapse, Callback, vars
  <1>3. fate' = fate
    <2>1. ASSUME NEW k \in Timer PROVE fate'[k] = fate[k]
      BY <1>1, <1>2, Fates, FatesNext, SameFate DEF Live
    <2>. QED  BY <2>1 DEF fate
  <1>. QED  BY <1>1, <1>3 DEF Abstract!vars, fate

\* The debouncer implements the Coalescer: at most one hand-out per event, no
\* event dropped but for a newer one of its instance or for Stop, nothing in
\* hand after Stop (debouncer.go as a whole).
THEOREM Refinement == Spec => ImplementsCoalescer
  <1>1. Init => Abstract!Init
    <2>. SUFFICES ASSUME Init PROVE Abstract!Init
      OBVIOUS
    <2>1. ASSUME NEW t \in Timer PROVE FateOf(t) = "free"
      <3>1. timer[t] = "idle"
        BY DEF Init
      <3>. QED  BY <3>1, Fates DEF fate
    <2>2. [t \in Timer |-> FateOf(t)] = [k \in Timer |-> "free"]
      BY <2>1
    <2>3. stopped = FALSE
      BY DEF Init
    <2>4. (stopPC = "returned") = FALSE
      BY DEF Init
    <2>5. Abstract!Slot = Timer
      BY DEF Abstract!Slot, Timer
    <2>. QED  BY <2>2, <2>3, <2>4, <2>5 DEF Init, Abstract!Init
  <1>2. IInv /\ [Next]_vars => [Abstract!Next]_(Abstract!vars)
    <2>. SUFFICES ASSUME IInv, [Next]_vars PROVE [Abstract!Next]_(Abstract!vars)
      OBVIOUS
    <2>0. Abstract!Event = Event /\ Abstract!Slot = Timer
      BY DEF Abstract!Event, Event, Abstract!Slot, Timer
    <2>1. ASSUME NEW e \in Event, Submit(e) PROVE [Abstract!Next]_(Abstract!vars)
      <3>1. CASE stopped
        BY <2>1, <3>1, Invisible DEF Submit
      <3>2. CASE ~stopped
        BY <2>0, <2>1, <3>2, SubmitAccepts DEF Abstract!Next
      <3>. QED  BY <3>1, <3>2
    <2>2. ASSUME NEW t \in Timer, Elapse(t) PROVE [Abstract!Next]_(Abstract!vars)
      BY <2>2, Invisible
    <2>3. ASSUME NEW t \in Timer, Callback(t) PROVE [Abstract!Next]_(Abstract!vars)
      <3>1. CASE stopped
        BY <2>3, <3>1, Invisible
      <3>2. CASE ~stopped
        BY <2>0, <2>3, <3>2, CallbackHandsOut DEF Abstract!Next
      <3>. QED  BY <3>1, <3>2
    <2>4. ASSUME NEW t \in Timer, PublishReturn(t) PROVE [Abstract!Next]_(Abstract!vars)
      BY <2>0, <2>4, PublishReturnFinishes DEF Abstract!Next
    <2>5. CASE StopBegin
      BY <2>5, StopBeginCloses DEF Abstract!Next
    <2>6. CASE StopEnd
      BY <2>6, StopEndDrains DEF Abstract!Next
    <2>7. CASE UNCHANGED vars
      BY <2>7, Invisible
    <2>. QED  BY <2>1, <2>2, <2>3, <2>4, <2>5, <2>6, <2>7 DEF Next
  <1>. QED  BY <1>1, <1>2, Invariance, PTL DEF Spec, ImplementsCoalescer, Abstract!Spec
=============================================================================
