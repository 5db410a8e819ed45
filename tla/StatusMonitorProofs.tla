------------------------ MODULE StatusMonitorProofs ------------------------
(***************************************************************************)
(* Theorems about StatusMonitor, for any instances, Pods, phases and       *)
(* bounds: its types; that Stop leaves nothing that still publishes; that  *)
(* NATS is told the truth in the end, and in order: with retries, outages  *)
(* and restarts around the debouncer.                                      *)
(*                                                                         *)
(* The invariant of DebouncerProofs cannot be taken over: a restart throws *)
(* timers away that no newer event replaced.  IInv keeps the wait group of *)
(* it; TInv follows an instance from the caches over the queues and the    *)
(* handlers to its newest timer and what became of it; GInv orders what    *)
(* was given to NATS.                                                      *)
(***************************************************************************)
EXTENDS StatusMonitor, FiniteSetTheorems, SequenceTheorems, TLAPS

Publishes == {t \in 1..MaxTimers : timer[t] = "publishing"}

\* The slots in use are those up to created, and carry events.
Armed ==
    /\ \A t \in 1..MaxTimers : timer[t] = "idle" <=> t > created
    /\ \A t \in 1..created : event[t] \in Debounce!Event

\* The wait group counts the publishes under way; Stop waits for them.
Counted ==
    /\ wg = Cardinality(Publishes)
    /\ stopPC = "running" <=> ~stopped
    /\ stopPC = "returned" => wg = 0

\* Who has still to publish has an attempt left.
AttemptsLeft ==
    \A t \in 1..MaxTimers :
        timer[t] \in {"idle", "pending", "fired", "publishing"} =>
            attempts[t] < MaxAttempts

IInv == TypeOK /\ Armed /\ Counted /\ AttemptsLeft

-----------------------------------------------------------------------------
LEMMA FinitePublishes == IsFiniteSet(Publishes) /\ Cardinality(Publishes) \in Nat
  <1>1. IsFiniteSet(1..MaxTimers)
    BY FS_Interval, TimersSuffice
  <1>. QED  BY <1>1, FS_Subset, FS_CardinalityType DEF Publishes

\* The outcome of ReconcileStatus is a status, or none, whatever it is asked.
LEMMA StatusOrNone ==
    ASSUME NEW d, NEW p
    PROVE  ReconcileStatus(d, p) \in ContainerStatus \cup {None}
  BY DEF ReconcileStatus, MapPodPhaseToStatus, ContainerStatus, None

LEMMA DecidedHandling ==
    ASSUME NEW i \in Instance, NEW d, NEW p
    PROVE  Decided(i, ReconcileStatus(d, p)) \in Handling
  BY StatusOrNone DEF Decided, Handling, Idle

LEMMA InitIInv == Init => IInv
  <1>. SUFFICES ASSUME Init PROVE IInv
    OBVIOUS
  <1>. USE DEF Init, Debounce!Init
  <1>1. /\ wg = 0 /\ created = 0 /\ timer = [t \in 1..MaxTimers |-> "idle"]
        /\ stopped = FALSE /\ stopPC = "running"
    BY DEF Debounce!Timer
  <1>2. Debounce!TypeOK
    <2>1. created \in 0..MaxTimers /\ wg \in Nat
      BY TimersSuffice
    <2>2. timer \in [1..MaxTimers -> Debounce!TimerState]
      BY <1>1 DEF Debounce!TimerState
    <2>3. event \in [1..MaxTimers -> Debounce!Event \cup {NoEvent}]
      BY DEF Debounce!Timer
    <2>4. stopped \in BOOLEAN /\ stopPC \in {"running", "waiting", "returned"}
      OBVIOUS
    <2>. QED
      BY <2>1, <2>2, <2>3, <2>4 DEF Debounce!TypeOK, Debounce!Timer, Debounce!NoTimer
  <1>3. /\ deployH \in Handling /\ podH \in Handling
        /\ held \in [Instance -> Seq(1..MaxTimers)]
        /\ published \in [Instance -> Seq(1..MaxTimers)]
        /\ attempts \in [1..MaxTimers -> 0..MaxAttempts]
    BY AttemptsAssumption DEF Handling, NothingHeld, NoAttempts
  <1>4. TypeOK
    <2>1. linked \in BOOLEAN /\ ctxDone \in BOOLEAN /\ returned \in BOOLEAN
      BY Zenon
    <2>2. disturbances \in 0..MaxDisturbances /\ earlier \in 0..MaxTimers
      BY TimersSuffice
    <2>. QED  BY <1>2, <1>3, <2>1, <2>2 DEF TypeOK
  <1>5. Armed
    BY <1>1, TimersSuffice DEF Armed
  <1>6. Publishes = {}
    BY <1>1 DEF Publishes
  <1>7. Counted
    BY <1>1, <1>6, FS_EmptySet DEF Counted
  <1>8. AttemptsLeft
    BY AttemptsAssumption DEF AttemptsLeft, NoAttempts
  <1>. QED  BY <1>4, <1>5, <1>7, <1>8 DEF IInv

-----------------------------------------------------------------------------
(* The caches, the queues and the handlers leave the debouncer alone.      *)

LEMMA DebouncerUnchanged ==
    ASSUME IInv, UNCHANGED <<debouncer, attempts>>
    PROVE  Armed' /\ Counted' /\ AttemptsLeft' /\ Debounce!TypeOK'
  BY DEF IInv, TypeOK, debouncer, Armed, Counted, AttemptsLeft, Publishes,
    Debounce!TypeOK, Debounce!Event

LEMMA CachesIInv ==
    ASSUME IInv,
           \/ \E d \in Deployment : DeployChange(d)
           \/ \E i \in Instance : Resync(i)
           \/ \E p \in Pod : PodChange(p)
    PROVE  IInv'
  <1>. /\ UNCHANGED <<deployH, podH, publisher, start, stale, contended, earlier, debouncer>>
       /\ disturbances < MaxDisturbances /\ disturbances' = disturbances + 1
    BY DEF DeployChange, PodChange, Resync, Observe, Disturb
  <1>. USE DEF publisher, nats, start
  <1>1. Armed' /\ Counted' /\ AttemptsLeft' /\ Debounce!TypeOK'
    BY DebouncerUnchanged
  <1>2. disturbances' \in 0..MaxDisturbances
    BY TimersSuffice DEF IInv, TypeOK
  <1>3. /\ deployCache' \in [Deployment -> DeployStates \cup {None}]
        /\ deployQ' \in Seq([id: Instance, deploy: DeployStates \cup {None}])
        /\ podCache' \in [Pod -> PodPhases \cup {None}]
        /\ podQ' \in Seq([id: Instance, pod: PodPhases \cup {None}])
        /\ seen' \in SUBSET Instance
    <2>. USE DEF IInv, TypeOK
    <2>1. CASE \E d \in Deployment : DeployChange(d)
      <3>. PICK d \in Deployment : DeployChange(d)
        BY <2>1
      <3>1. d[1] \in Instance
        BY DEF Deployment
      <3>. QED  BY <3>1 DEF DeployChange
    <2>2. CASE \E i \in Instance : Resync(i)
      <3>. PICK i \in Instance : Resync(i)
        BY <2>2
      <3>1. CASE UNCHANGED podQ /\ \E d \in DeploymentsOf(i) :
                   deployQ' = Append(deployQ, [id |-> i, deploy |-> deployCache[d]])
        BY <3>1 DEF Resync, DeploymentsOf
      <3>2. CASE UNCHANGED deployQ /\ \E p \in PodsOf(i) :
                   podQ' = Append(podQ, [id |-> i, pod |-> podCache[p]])
        BY <3>2 DEF Resync, PodsOf
      <3>. QED  BY <3>1, <3>2, Zenon DEF Resync
    <2>3. CASE \E p \in Pod : PodChange(p)
      <3>. PICK p \in Pod : PodChange(p)
        BY <2>3
      <3>1. PICK f \in NextPhases(podCache[p]) :
              /\ podCache' = [podCache EXCEPT ![p] = f]
              /\ podQ' = Append(podQ, [id |-> p[1], pod |-> f])
        BY DEF PodChange
      <3>2. f \in PodPhases \cup {None} /\ p[1] \in Instance
        BY DEF NextPhases, Pod
      <3>. QED  BY <3>1, <3>2 DEF PodChange
    <2>. QED  BY <2>1, <2>2, <2>3
  <1>. QED  BY <1>1, <1>2, <1>3 DEF IInv, TypeOK

\* Whichever Deployment the index gives, it is in a state the cache may show.
LEMMA LookupType ==
    ASSUME IInv, NEW i \in Instance
    PROVE  lookupDeployByIndex(i) \subseteq DeployStates \cup {None}
  BY DEF IInv, TypeOK, lookupDeployByIndex, DeploymentsOf

LEMMA HandlersIInv ==
    ASSUME IInv, HandleDeploy \/ HandlePod \/ LookupPod
    PROVE  IInv'
  <1>. USE DEF IInv, TypeOK
  <1>. UNCHANGED <<deployCache, podCache, publisher, start, disturbances, history, debouncer>>
    BY DEF HandleDeploy, HandlePod, LookupPod, informers
  <1>. USE DEF publisher, nats, start, history
  <1>1. Armed' /\ Counted' /\ AttemptsLeft' /\ Debounce!TypeOK'
    BY DebouncerUnchanged
  <1>2. /\ deployQ' \in Seq([id: Instance, deploy: DeployStates \cup {None}])
        /\ podQ' \in Seq([id: Instance, pod: PodPhases \cup {None}])
        /\ deployH' \in Handling /\ podH' \in Handling
    <2>1. CASE HandleDeploy
      <3>1. Head(deployQ).id \in Instance /\ Tail(deployQ) \in
              Seq([id: Instance, deploy: DeployStates \cup {None}])
        <4>1. deployQ # <<>>
          BY <2>1 DEF HandleDeploy
        <4>2. Head(deployQ) \in [id: Instance, deploy: DeployStates \cup {None}]
              /\ Tail(deployQ) \in Seq([id: Instance, deploy: DeployStates \cup {None}])
          BY <4>1, HeadTailProperties
        <4>. QED  BY <4>2
      <3>2. deployH' \in Handling
        BY <2>1, <3>1, DecidedHandling DEF HandleDeploy
      <3>. QED  BY <2>1, <3>1, <3>2 DEF HandleDeploy
    <2>2. CASE HandlePod
      <3>1. Head(podQ) \in [id: Instance, pod: PodPhases \cup {None}]
            /\ Tail(podQ) \in Seq([id: Instance, pod: PodPhases \cup {None}])
        <4>1. podQ # <<>>
          BY <2>2 DEF HandlePod
        <4>. QED  BY <4>1, HeadTailProperties
      <3>2. PICK d \in DeployStates \cup {None} :
              podH' = IF Head(podQ).pod = None
                      THEN [at |-> "lookupPod", id |-> Head(podQ).id, deploy |-> d]
                      ELSE Decided(Head(podQ).id, ReconcileStatus(d, Head(podQ).pod))
        <4>1. lookupDeployByIndex(Head(podQ).id) \subseteq DeployStates \cup {None}
          BY <3>1, LookupType
        <4>. QED  BY <2>2, <4>1 DEF HandlePod
      <3>3. podH' \in Handling
        <4>1. CASE Head(podQ).pod = None
          BY <3>1, <3>2, <4>1 DEF Handling
        <4>2. CASE Head(podQ).pod # None
          BY <3>1, <3>2, <4>2, DecidedHandling
        <4>. QED  BY <4>1, <4>2
      <3>. QED  BY <2>2, <3>1, <3>3 DEF HandlePod
    <2>3. CASE LookupPod
      <3>1. podH.id \in Instance
        BY <2>3 DEF LookupPod, Handling, Idle
      <3>2. podH' \in Handling
        BY <2>3, <3>1, DecidedHandling DEF LookupPod
      <3>. QED  BY <2>3, <3>2 DEF LookupPod, informers
    <2>. QED  BY <2>1, <2>2, <2>3
  <1>. QED  BY <1>1, <1>2

-----------------------------------------------------------------------------
(* The debouncer.                                                          *)

\* A new timer takes an idle slot; none that publishes is touched.
LEMMA SubmitDebouncer ==
    ASSUME IInv, NEW e \in Debounce!Event, Debounce!Submit(e), UNCHANGED attempts
    PROVE  Debounce!TypeOK' /\ Armed' /\ Counted' /\ AttemptsLeft'
  <1>1. CASE stopped
    <2>. UNCHANGED debouncer
      BY <1>1 DEF Debounce!Submit, Debounce!vars, debouncer
    <2>. QED  BY DebouncerUnchanged
  <1>2. CASE ~stopped
    <2>. DEFINE new == created + 1
    <2>1. /\ created \in 0..MaxTimers /\ MaxTimers \in Nat /\ created < MaxTimers
          /\ created' = new /\ e.InstanceID \in Instance
          /\ event' = [event EXCEPT ![new] = e]
          /\ timer' = [t \in 1..MaxTimers |->
                 IF t = new THEN "pending"
                 ELSE IF t = timers[e.InstanceID] THEN Debounce!StopTimer(timer[t])
                 ELSE timer[t]]
          /\ timers' = [timers EXCEPT ![e.InstanceID] = new]
          /\ replaced' = replaced \cup ({timers[e.InstanceID]} \ {0})
          /\ UNCHANGED <<stopped, wg, stopPC>>
      BY <1>2, TimersSuffice DEF Debounce!Submit, Debounce!Arm, Debounce!Timer,
        Debounce!NoTimer, Debounce!vars, Debounce!Event, Debounce!TypeOK, IInv, TypeOK
    <2>. USE DEF IInv, TypeOK, Debounce!TypeOK, Debounce!Timer, Debounce!NoTimer
    <2>2. new \in 1..MaxTimers /\ timer[new] = "idle"
      BY <2>1 DEF Armed
    <2>3. \A t \in 1..MaxTimers : t # new =>
            /\ timer'[t] = "publishing" <=> timer[t] = "publishing"
            /\ timer'[t] = "idle" <=> timer[t] = "idle"
            /\ timer'[t] \in {"idle", "pending", "fired", "publishing"} =>
                 timer[t] \in {"idle", "pending", "fired", "publishing"}
      BY <2>1 DEF Debounce!StopTimer
    <2>4. timer'[new] = "pending"
      BY <2>1, <2>2
    <2>5. timer' \in [1..MaxTimers -> Debounce!TimerState]
      BY <2>1 DEF Debounce!StopTimer, Debounce!TimerState
    <2>6. Debounce!TypeOK'
      <3>1. created' \in 0..MaxTimers
        BY <2>1
      <3>2. event' \in [1..MaxTimers -> Debounce!Event \cup {NoEvent}]
        BY <2>1, <2>2
      <3>3. timers' \in [Instance -> (1..MaxTimers) \cup {0}]
        BY <2>1, <2>2
      <3>4. replaced' \in SUBSET (1..MaxTimers)
        BY <2>1
      <3>. QED  BY <2>1, <2>5, <3>1, <3>2, <3>3, <3>4 DEF Debounce!Event
    <2>7. Armed'
      <3>1. \A t \in 1..MaxTimers : timer'[t] = "idle" <=> t > new
        BY <2>1, <2>2, <2>3, <2>4 DEF Armed
      <3>2. \A t \in 1..new : event'[t] \in Debounce!Event
        BY <2>1, <2>2 DEF Armed
      <3>. QED  BY <2>1, <3>1, <3>2 DEF Armed, Debounce!Event
    <2>8. Publishes' = Publishes
      BY <2>2, <2>3, <2>4 DEF Publishes
    <2>9. Counted'
      BY <2>1, <2>8 DEF Counted
    <2>10. AttemptsLeft'
      BY <2>2, <2>3 DEF AttemptsLeft
    <2>. QED  BY <2>6, <2>7, <2>9, <2>10
  <1>. QED  BY <1>1, <1>2

LEMMA SubmitIInv ==
    ASSUME IInv, DeploySubmit \/ PodSubmit
    PROVE  IInv'
  <1>. PICK h \in Handling : SubmitFrom(h) /\ deployH' \in {deployH, Idle}
                             /\ podH' \in {podH, Idle}
    BY DEF DeploySubmit, PodSubmit, IInv, TypeOK
  <1>. USE DEF SubmitFrom, publisher, nats, start, informers
  <1>1. h.id \in Instance /\ h.status \in ContainerStatus
    BY DEF Handling, Idle
  <1>2. [InstanceID |-> h.id, Status |-> h.status] \in Debounce!Event
    BY <1>1 DEF Debounce!Event
  <1>3. Debounce!TypeOK' /\ Armed' /\ Counted' /\ AttemptsLeft'
    BY <1>2, SubmitDebouncer
  <1>4. stale' \in SUBSET Instance
    BY <1>1 DEF IInv, TypeOK
  <1>5. deployH' \in Handling /\ podH' \in Handling
    BY DEF IInv, TypeOK, Handling
  <1>. QED  BY <1>3, <1>4, <1>5 DEF IInv, TypeOK

LEMMA TimerIInv ==
    ASSUME IInv, NEW t \in 1..MaxTimers, Elapse(t) \/ Callback(t)
    PROVE  IInv'
  <1>. USE DEF IInv, TypeOK, Debounce!TypeOK, Debounce!Timer, Debounce!NoTimer
  <1>. UNCHANGED <<informers, deployH, podH, publisher, start, disturbances,
                   seen, stale, earlier, created, event, stopped, stopPC, replaced>>
    BY DEF Elapse, Callback, Debounce!Elapse, Debounce!Callback, history
  <1>. USE DEF publisher, nats, start, informers
  <1>0. event[t].InstanceID \in Instance /\ timer[t] \in {"pending", "fired"}
    <2>1. timer[t] \in {"pending", "fired"}
      BY DEF Elapse, Callback, Debounce!Elapse, Debounce!Callback
    <2>2. t \in 1..created
      BY <2>1, TimersSuffice DEF Armed
    <2>. QED  BY <2>1, <2>2 DEF Armed, Debounce!Event
  <1>1. PICK s \in {"fired", "skipped", "publishing"} : timer' = [timer EXCEPT ![t] = s]
    BY DEF Elapse, Callback, Debounce!Elapse, Debounce!Callback
  <1>2. wg' = wg + (IF timer'[t] = "publishing" THEN 1 ELSE 0)
    BY <1>1 DEF Elapse, Callback, Debounce!Elapse, Debounce!Callback
  <1>3. timers' \in [Instance -> (1..MaxTimers) \cup {0}] /\ contended' \in SUBSET Instance
    BY DEF Elapse, Callback, Debounce!Elapse, Debounce!Callback, history
  <1>4. TypeOK'
    BY <1>1, <1>2, <1>3 DEF Debounce!TimerState, Debounce!Event
  <1>5. Armed' /\ AttemptsLeft'
    BY <1>0, <1>1 DEF Armed, AttemptsLeft, Debounce!Event
  <1>6. Counted'
    <2>1. CASE s = "publishing"
      <3>1. Publishes' = Publishes \cup {t} /\ t \notin Publishes
        BY <1>0, <1>1, <2>1 DEF Publishes
      <3>2. stopPC # "returned"
        BY <1>1, <2>1 DEF Elapse, Callback, Debounce!Elapse, Debounce!Callback, Counted
      <3>. QED  BY <1>1, <1>2, <2>1, <3>1, <3>2, FinitePublishes, FS_AddElement DEF Counted
    <2>2. CASE s # "publishing"
      <3>1. Publishes' = Publishes
        BY <1>0, <1>1, <2>2 DEF Publishes
      <3>. QED  BY <1>1, <1>2, <2>2, <3>1 DEF Counted
    <2>. QED  BY <2>1, <2>2
  <1>. QED  BY <1>4, <1>5, <1>6

\* A publish that returns is one less to wait for.
LEMMA PublishReturnDebouncer ==
    ASSUME IInv, NEW t \in 1..MaxTimers, Debounce!PublishReturn(t),
           \A u \in (1..MaxTimers) \ {t} : attempts'[u] = attempts[u]
    PROVE  /\ Debounce!TypeOK' /\ Armed' /\ Counted' /\ AttemptsLeft'
           /\ event[t].InstanceID \in Instance /\ stopPC # "returned"
  <1>. USE DEF IInv, TypeOK, Debounce!TypeOK, Debounce!Timer, Debounce!NoTimer,
         Debounce!PublishReturn
  <1>1. t \in Publishes
    BY DEF Publishes
  <1>2. Publishes' = Publishes \ {t}
    BY DEF Publishes
  <1>3. Cardinality(Publishes') = Cardinality(Publishes) - 1 /\ Cardinality(Publishes) # 0
    BY <1>1, <1>2, FinitePublishes, FS_RemoveElement, FS_EmptySet
  <1>4. wg' \in Nat /\ wg # 0
    BY <1>2, <1>3, FinitePublishes, FS_Subset, FS_CardinalityType DEF Counted
  <1>5. Debounce!TypeOK'
    BY <1>4 DEF Debounce!TimerState, Debounce!Event
  <1>6. Armed' /\ event[t].InstanceID \in Instance
    <2>1. t \in 1..created
      BY TimersSuffice DEF Armed
    <2>. QED  BY <2>1 DEF Armed, Debounce!Event
  <1>7. Counted' /\ stopPC # "returned"
    BY <1>3, <1>4 DEF Counted
  <1>8. AttemptsLeft'
    BY DEF AttemptsLeft
  <1>. QED  BY <1>5, <1>6, <1>7, <1>8

LEMMA PublishOkIInv ==
    ASSUME IInv, NEW t \in 1..MaxTimers, PublishOk(t)
    PROVE  IInv' /\ stopPC # "returned"
  <1>. USE DEF PublishOk, informers, history, start
  <1>1. /\ Debounce!TypeOK' /\ Armed' /\ Counted' /\ AttemptsLeft'
        /\ event[t].InstanceID \in Instance /\ stopPC # "returned"
    BY PublishReturnDebouncer
  <1>2. held' \in [Instance -> Seq(1..MaxTimers)]
    <2>. DEFINE i == event[t].InstanceID
    <2>1. held \in [Instance -> Seq(1..MaxTimers)] /\ held[i] \in Seq(1..MaxTimers)
      BY <1>1 DEF IInv, TypeOK
    <2>2. Append(held[i], t) \in Seq(1..MaxTimers)
      BY <2>1, AppendProperties
    <2>. QED  BY <2>1, <2>2
  <1>. QED  BY <1>1, <1>2 DEF IInv, TypeOK

LEMMA PublishFailIInv ==
    ASSUME IInv, NEW t \in 1..MaxTimers, PublishFail(t)
    PROVE  IInv'
  <1>. USE DEF PublishFail, Disturb, informers, history, nats, start
  <1>1. attempts[t] < MaxAttempts
    BY DEF IInv, AttemptsLeft
  <1>2. attempts' \in [1..MaxTimers -> 0..MaxAttempts] /\ disturbances' \in 0..MaxDisturbances
    BY <1>1, AttemptsAssumption, TimersSuffice DEF IInv, TypeOK
  <1>3. Debounce!TypeOK' /\ Armed' /\ Counted' /\ AttemptsLeft'
    <2>1. CASE Debounce!PublishReturn(t)
      BY <2>1, PublishReturnDebouncer DEF IInv, TypeOK
    <2>2. CASE attempts[t] + 1 < MaxAttempts /\ UNCHANGED debouncer
      <3>1. Debounce!TypeOK' /\ Armed' /\ Counted'
        BY <2>2 DEF IInv, TypeOK, debouncer, Armed, Counted, Publishes,
          Debounce!TypeOK, Debounce!Event
      <3>2. AttemptsLeft'
        BY <2>2 DEF IInv, TypeOK, debouncer, AttemptsLeft
      <3>. QED  BY <3>1, <3>2
    <2>. QED  BY <2>1, <2>2
  <1>. QED  BY <1>2, <1>3 DEF IInv, TypeOK

-----------------------------------------------------------------------------
(* The connection, the shutdown and a restart.                             *)

\* The head of what is kept goes to NATS.
LEMMA DeliverIInv ==
    ASSUME IInv, NEW i \in Instance, Deliver(i)
    PROVE  IInv'
  <1>. USE DEF Deliver, informers, history, start
  <1>1. Armed' /\ Counted' /\ AttemptsLeft' /\ Debounce!TypeOK'
    BY DebouncerUnchanged
  <1>2. /\ held \in [Instance -> Seq(1..MaxTimers)]
        /\ published \in [Instance -> Seq(1..MaxTimers)]
    BY DEF IInv, TypeOK
  <1>3. /\ Head(held[i]) \in 1..MaxTimers /\ Tail(held[i]) \in Seq(1..MaxTimers)
        /\ Append(published[i], Head(held[i])) \in Seq(1..MaxTimers)
    <2>1. Head(held[i]) \in 1..MaxTimers /\ Tail(held[i]) \in Seq(1..MaxTimers)
      BY <1>2, HeadTailProperties
    <2>. QED  BY <1>2, <2>1, AppendProperties
  <1>4. /\ held' \in [Instance -> Seq(1..MaxTimers)]
        /\ published' \in [Instance -> Seq(1..MaxTimers)]
    BY <1>2, <1>3
  <1>. QED  BY <1>1, <1>4 DEF IInv, TypeOK

\* What a dropped connection leaves is what was not written to it.
LEMMA SuffixKept ==
    ASSUME NEW S, NEW h \in Seq(S), NEW n \in Nat, n <= Len(h)
    PROVE  LET r == SubSeq(h, n + 1, Len(h))
           IN /\ r \in Seq(S) /\ Len(h) \in Nat /\ Len(r) = Len(h) - n
              /\ \A k \in 1..(Len(h) - n) : n + k \in 1..Len(h) /\ r[k] = h[n + k]
  <1>1. Len(h) \in Nat
    BY LenProperties
  <1>2. CASE n < Len(h)
    <2>1. n + 1 \in 1..(Len(h) + 1) /\ Len(h) \in (n + 1 - 1)..Len(h)
      BY <1>1, <1>2
    <2>2. /\ SubSeq(h, n + 1, Len(h)) \in Seq(S)
          /\ Len(SubSeq(h, n + 1, Len(h))) = Len(h) - (n + 1) + 1
          /\ \A k \in 1..(Len(h) - (n + 1) + 1) :
               SubSeq(h, n + 1, Len(h))[k] = h[n + 1 + k - 1]
      BY <2>1, SubSeqProperties
    <2>3. \A k \in 1..(Len(h) - n) : n + k \in 1..Len(h) /\ n + 1 + k - 1 = n + k
      BY <1>1
    <2>4. Len(h) - (n + 1) + 1 = Len(h) - n
      BY <1>1
    <2>. QED  BY <1>1, <2>2, <2>3, <2>4
  <1>3. CASE n = Len(h)
    <2>1. SubSeq(h, n + 1, Len(h)) = <<>>
      BY <1>1, <1>3, SubSeqEmpty
    <2>2. \A k \in 1..(Len(h) - n) : FALSE
      BY <1>1, <1>3
    <2>. QED  BY <1>1, <1>3, <2>1, <2>2
  <1>. QED  BY <1>1, <1>2, <1>3

\* What a step of the connection's loss does to what is kept.
LEMMA Dropped ==
    ASSUME IInv, Disconnect
    PROVE  \E n \in [Instance -> 0..MaxTimers] :
             /\ lost' \subseteq 1..MaxTimers /\ lost \subseteq lost'
             /\ held' \in [Instance -> Seq(1..MaxTimers)]
             /\ \A i \in Instance :
                  /\ n[i] \in Nat /\ Len(held[i]) \in Nat /\ n[i] <= Len(held[i])
                  /\ Len(held'[i]) = Len(held[i]) - n[i]
                  /\ \A k \in 1..(Len(held[i]) - n[i]) :
                       n[i] + k \in 1..Len(held[i]) /\ held'[i][k] = held[i][n[i] + k]
                  /\ \A k \in 1..n[i] : held[i][k] \in lost'
  <1>1. PICK n \in [Instance -> 0..MaxTimers] :
          /\ \A i \in Instance : n[i] <= Len(held[i])
          /\ held' = [i \in Instance |-> SubSeq(held[i], n[i] + 1, Len(held[i]))]
          /\ lost' = lost \cup UNION {{held[i][k] : k \in 1..n[i]} : i \in Instance}
    BY DEF Disconnect
  <1>2. held \in [Instance -> Seq(1..MaxTimers)] /\ lost \subseteq 1..MaxTimers
        /\ MaxTimers \in Nat
    BY TimersSuffice DEF IInv, TypeOK
  <1>3. ASSUME NEW i \in Instance
        PROVE  /\ n[i] \in Nat /\ Len(held[i]) \in Nat /\ n[i] <= Len(held[i])
               /\ Len(held'[i]) = Len(held[i]) - n[i]
               /\ \A k \in 1..(Len(held[i]) - n[i]) :
                    n[i] + k \in 1..Len(held[i]) /\ held'[i][k] = held[i][n[i] + k]
               /\ held'[i] \in Seq(1..MaxTimers)
    <2>1. PICK m \in Nat : m = n[i] /\ m <= Len(held[i])
      BY <1>1, <1>2
    <2>2. held'[i] = SubSeq(held[i], m + 1, Len(held[i])) /\ held[i] \in Seq(1..MaxTimers)
      BY <1>1, <1>2, <2>1
    <2>3. /\ SubSeq(held[i], m + 1, Len(held[i])) \in Seq(1..MaxTimers)
          /\ Len(held[i]) \in Nat
          /\ Len(SubSeq(held[i], m + 1, Len(held[i]))) = Len(held[i]) - m
          /\ \A k \in 1..(Len(held[i]) - m) :
               /\ m + k \in 1..Len(held[i])
               /\ SubSeq(held[i], m + 1, Len(held[i]))[k] = held[i][m + k]
      BY <2>1, <2>2, SuffixKept
    <2>. QED  BY <2>1, <2>2, <2>3
  <1>4. \A i \in Instance : \A k \in 1..n[i] :
          held[i][k] \in lost' /\ held[i][k] \in 1..MaxTimers
    <2>. SUFFICES ASSUME NEW i \in Instance, NEW k \in 1..n[i]
                  PROVE  held[i][k] \in lost' /\ held[i][k] \in 1..MaxTimers
      OBVIOUS
    <2>1. k \in 1..Len(held[i]) /\ held[i] \in Seq(1..MaxTimers)
      BY <1>2, <1>3
    <2>2. held[i][k] \in 1..MaxTimers
      BY <2>1, ElementOfSeq
    <2>. QED  BY <1>1, <2>2
  <1>5. lost' \subseteq 1..MaxTimers /\ lost \subseteq lost'
    <2>. SUFFICES ASSUME NEW t \in lost', t \notin lost PROVE t \in 1..MaxTimers
      BY <1>1, <1>2
    <2>1. PICK i \in Instance : t \in {held[i][k] : k \in 1..n[i]}
      BY <1>1
    <2>. QED  BY <1>4, <2>1
  <1>6. held' \in [Instance -> Seq(1..MaxTimers)]
    BY <1>1, <1>3
  <1>. QED  BY <1>3, <1>4, <1>5, <1>6

LEMMA ConnectionIInv ==
    ASSUME IInv, Disconnect \/ Reconnect \/ CancelContext
    PROVE  IInv'
  <1>. USE DEF Disconnect, Reconnect, CancelContext, Disturb, informers, history,
         publisher, nats, start
  <1>1. Armed' /\ Counted' /\ AttemptsLeft' /\ Debounce!TypeOK'
    BY DebouncerUnchanged
  <1>2. held' \in [Instance -> Seq(1..MaxTimers)] /\ lost' \in SUBSET (1..MaxTimers)
    <2>1. CASE Disconnect
      BY <2>1, Dropped
    <2>2. CASE UNCHANGED <<held, lost>>
      BY <2>2 DEF IInv, TypeOK
    <2>. QED  BY <2>1, <2>2
  <1>3. linked' \in BOOLEAN /\ ctxDone' \in BOOLEAN
    BY Zenon DEF IInv, TypeOK
  <1>4. disturbances' \in 0..MaxDisturbances
    BY TimersSuffice DEF IInv, TypeOK
  <1>. QED  BY <1>1, <1>2, <1>3, <1>4 DEF IInv, TypeOK

LEMMA ShutdownIInv ==
    ASSUME IInv, ShutdownEnd
    PROVE  IInv'
  <1>. USE DEF ShutdownEnd, publisher, nats, history
  <1>1. Armed' /\ Counted' /\ AttemptsLeft' /\ Debounce!TypeOK'
    BY DebouncerUnchanged
  <1>. QED  BY <1>1 DEF IInv, TypeOK

LEMMA StopIInv ==
    ASSUME IInv, StopBegin \/ StopEnd
    PROVE  IInv'
  <1>. UNCHANGED <<informers, deployH, podH, publisher, start, disturbances, history>>
    BY DEF StopBegin, StopEnd
  <1>. USE DEF informers, history, publisher, nats, start, IInv, TypeOK, Debounce!TypeOK,
         Debounce!Timer, Debounce!NoTimer
  <1>1. CASE Debounce!StopEnd
    BY <1>1 DEF Debounce!StopEnd, Armed, Counted, AttemptsLeft, Publishes, Debounce!Event
  <1>2. CASE Debounce!StopBegin
    <2>. USE <1>2 DEF Debounce!StopBegin
    <2>1. timer' \in [1..MaxTimers -> Debounce!TimerState]
      BY DEF Debounce!StopTimer, Debounce!TimerState
    <2>2. \A t \in 1..MaxTimers :
            /\ timer'[t] = "publishing" <=> timer[t] = "publishing"
            /\ timer'[t] = "idle" <=> timer[t] = "idle"
            /\ timer'[t] \in {"idle", "pending", "fired", "publishing"} =>
                 timer[t] \in {"idle", "pending", "fired", "publishing"}
      BY DEF Debounce!StopTimer
    <2>3. Debounce!TypeOK'
      BY <2>1 DEF Debounce!Event
    <2>4. Armed' /\ AttemptsLeft'
      BY <2>2 DEF Armed, AttemptsLeft, Debounce!Event
    <2>5. Publishes' = Publishes
      BY <2>2 DEF Publishes
    <2>6. Counted'
      BY <2>5 DEF Counted
    <2>. QED  BY <2>3, <2>4, <2>6
  <1>. QED  BY <1>1, <1>2 DEF StopBegin, StopEnd

\* Nothing is under way in a new life.
LEMMA RestartIInv ==
    ASSUME IInv, Restart
    PROVE  IInv'
  <1>. USE DEF Restart, Disturb
  <1>1. \A t \in 1..MaxTimers :
          /\ timer'[t] # "publishing"
          /\ timer'[t] = "idle" <=> timer[t] = "idle"
          /\ timer'[t] \in {"idle", "pending", "fired", "publishing"} => timer[t] = "idle"
    OBVIOUS
  <1>2. timer' \in [1..MaxTimers -> Debounce!TimerState]
    BY DEF IInv, TypeOK, Debounce!TypeOK, Debounce!TimerState, Debounce!Timer
  <1>3. Debounce!TypeOK'
    BY <1>2 DEF IInv, TypeOK, Debounce!TypeOK, Debounce!Timer, Debounce!NoTimer,
      Debounce!Event
  <1>4. TypeOK'
    <2>1. /\ deployQ' \in Seq([id: Instance, deploy: DeployStates \cup {None}])
          /\ podQ' \in Seq([id: Instance, pod: PodPhases \cup {None}])
          /\ held' \in [Instance -> Seq(1..MaxTimers)]
          /\ deployH' \in Handling /\ podH' \in Handling
          /\ attempts' \in [1..MaxTimers -> 0..MaxAttempts]
      BY AttemptsAssumption DEF NothingHeld, NoAttempts, Handling
    <2>2. disturbances' \in 0..MaxDisturbances /\ earlier' \in 0..MaxTimers
      BY TimersSuffice DEF IInv, TypeOK, Debounce!TypeOK
    <2>3. linked' \in BOOLEAN /\ ctxDone' \in BOOLEAN /\ returned' \in BOOLEAN
      BY Zenon
    <2>. QED  BY <1>3, <2>1, <2>2, <2>3 DEF IInv, TypeOK
  <1>5. Armed' /\ AttemptsLeft'
    BY <1>1, AttemptsAssumption DEF IInv, Armed, AttemptsLeft, NoAttempts, Debounce!Event
  <1>6. Publishes' = {}
    BY <1>1 DEF Publishes
  <1>7. Counted'
    BY <1>6, FS_EmptySet DEF Counted
  <1>. QED  BY <1>4, <1>5, <1>7 DEF IInv

LEMMA NextIInv == IInv /\ [Next]_vars => IInv'
  <1>. SUFFICES ASSUME IInv, [Next]_vars PROVE IInv'
    OBVIOUS
  <1>1. CASE \/ \E d \in Deployment : DeployChange(d)
             \/ \E i \in Instance : Resync(i)
             \/ \E p \in Pod : PodChange(p)
    BY <1>1, CachesIInv
  <1>2. CASE Handlers
    BY <1>2, HandlersIInv, SubmitIInv DEF Handlers
  <1>3. CASE \E t \in 1..MaxTimers : Elapse(t) \/ Publishing(t)
    BY <1>3, TimerIInv, PublishOkIInv, PublishFailIInv DEF Publishing
  <1>4. CASE Disconnect \/ Reconnect \/ CancelContext
    BY <1>4, ConnectionIInv
  <1>5. CASE StopBegin \/ StopEnd \/ ShutdownEnd
    BY <1>5, StopIInv, ShutdownIInv
  <1>6. CASE Restart
    BY <1>6, RestartIInv
  <1>8. CASE \E i \in Instance : Deliver(i)
    BY <1>8, DeliverIInv
  <1>7. CASE UNCHANGED vars
    <2>. USE <1>7 DEF vars, informers, publisher, nats, start, history
    <2>1. Armed' /\ Counted' /\ AttemptsLeft' /\ Debounce!TypeOK'
      BY DebouncerUnchanged
    <2>. QED  BY <2>1 DEF IInv, TypeOK
  <1>. QED  BY <1>1, <1>2, <1>3, <1>4, <1>5, <1>6, <1>7, <1>8 DEF Next, Waiting

-----------------------------------------------------------------------------
THEOREM Invariance == Spec => []IInv
  BY InitIInv, NextIInv, PTL DEF Spec

\* The variables keep their types: among them that no publish has more than its
\* attempts and that the wait group never goes below zero (monitor.go:190-215).
THEOREM TypeCorrect == Spec => []TypeOK
  BY Invariance, PTL DEF IInv

\* A sequence without its first element.
LEMMA FirstAndRest ==
    ASSUME NEW S, NEW h \in Seq(S), h # <<>>
    PROVE  /\ Len(h) \in Nat \ {0} /\ 1 \in 1..Len(h) /\ Head(h) = h[1] /\ h[1] \in S
           /\ \E r \in Seq(S) :
                /\ r = Tail(h) /\ Len(r) = Len(h) - 1 /\ (r = <<>> <=> Len(h) = 1)
                /\ \A k \in 1..Len(r) : k + 1 \in 1..Len(h) /\ 1 < k + 1 /\ r[k] = h[k + 1]
  <1>1. Len(h) \in Nat /\ Len(h) # 0
    BY LenProperties, EmptySeq
  <1>2. 1 \in 1..Len(h) /\ Head(h) = h[1]
    BY <1>1
  <1>3. h[1] \in S
    BY <1>2, ElementOfSeq
  <1>4. PICK r \in Seq(S) :
          /\ r = Tail(h) /\ Len(r) = Len(h) - 1
          /\ \A k \in 1..Len(r) : r[k] = h[k + 1]
    <2>1. /\ Tail(h) \in Seq(S) /\ Len(Tail(h)) = Len(h) - 1
          /\ \A k \in 1..Len(Tail(h)) : Tail(h)[k] = h[k + 1]
      BY HeadTailProperties
    <2>. QED  BY <2>1
  <1>5. r = <<>> <=> Len(h) = 1
    <2>1. r = <<>> <=> Len(r) = 0
      BY EmptySeq
    <2>. QED  BY <1>1, <1>4, <2>1
  <1>6. \A k \in 1..Len(r) : k + 1 \in 1..Len(h) /\ 1 < k + 1
    BY <1>1, <1>4
  <1>. QED  BY <1>1, <1>2, <1>3, <1>4, <1>5, <1>6

\* A sequence with one element more.
LEMMA OneMore ==
    ASSUME NEW S, NEW s \in Seq(S), NEW t \in S
    PROVE  /\ Len(s) \in Nat /\ Len(Append(s, t)) = Len(s) + 1 /\ Append(s, t) # <<>>
           /\ \A k \in 1..(Len(s) + 1) :
                \/ k \in 1..Len(s) /\ Append(s, t)[k] = s[k]
                \/ k = Len(s) + 1 /\ Append(s, t)[k] = t
           /\ \A k, m \in 1..(Len(s) + 1) :
                k < m => k \in 1..Len(s) /\ Append(s, t)[k] = s[k]
           /\ Append(s, t)[Len(s) + 1] = t
  <1>1. /\ Len(s) \in Nat /\ Len(Append(s, t)) = Len(s) + 1
        /\ \A k \in 1..Len(s) : Append(s, t)[k] = s[k]
        /\ Append(s, t)[Len(s) + 1] = t
    BY AppendProperties, LenProperties
  <1>2. \A k \in 1..(Len(s) + 1) : k = Len(s) + 1 \/ k \in 1..Len(s)
    BY <1>1
  <1>3. \A k, m \in 1..(Len(s) + 1) : k < m => k \in 1..Len(s)
    BY <1>1
  <1>4. Append(s, t) # <<>>
    <2>1. Append(s, t) \in Seq(S) /\ Len(Append(s, t)) # 0
      BY <1>1, AppendProperties
    <2>. QED  BY <2>1, EmptySeq
  <1>. QED  BY <1>1, <1>2, <1>3, <1>4

\* Once Stop has returned nothing reaches NATS's client, whatever handlers, timers,
\* retries, outages and restarts have done before (monitor.go:63-64,
\* debouncer.go:56-67).
THEOREM SilentInTheEnd == Spec => SilentAfterStop
  <1>1. IInv /\ [Next]_vars => [stopPC = "returned" => Given' \subseteq Given]_vars
    <2>. SUFFICES ASSUME IInv, Next, stopPC = "returned" PROVE Given' \subseteq Given
      BY DEF vars
    <2>1. CASE UNCHANGED <<held, published>>
      BY <2>1 DEF Given
    <2>2. CASE \E t \in 1..MaxTimers : PublishOk(t)
      BY <2>2, PublishOkIInv
    <2>3. CASE \E i \in Instance : Deliver(i)
      <3>. PICK i \in Instance : Deliver(i)
        BY <2>3
      <3>1. ASSUME NEW j \in Instance, j # i
            PROVE  held'[j] = held[j] /\ published'[j] = published[j]
        BY <3>1 DEF Deliver, IInv, TypeOK
      <3>2. /\ \A k \in 1..Len(held'[i]) : held'[i][k] \in Given
            /\ \A k \in 1..Len(published'[i]) : published'[i][k] \in Given
        <4>1. PICK h \in Seq(1..MaxTimers), q \in Seq(1..MaxTimers) :
                /\ h = held[i] /\ q = published[i] /\ h # <<>>
                /\ held'[i] = Tail(h) /\ published'[i] = Append(q, Head(h))
          BY DEF Deliver, IInv, TypeOK
        <4>2. /\ \A k \in 1..Len(h) : h[k] \in Given
              /\ \A k \in 1..Len(q) : q[k] \in Given
          <5>1. \A k \in 1..Len(h) : h[k] \in 1..MaxTimers
            BY ElementOfSeq
          <5>2. \A k \in 1..Len(q) : q[k] \in 1..MaxTimers
            BY ElementOfSeq
          <5>. QED  BY <4>1, <5>1, <5>2 DEF Given
        <4>3. h[1] \in Given /\ \A k \in 1..Len(held'[i]) : held'[i][k] \in Given
          BY <4>1, <4>2, FirstAndRest
        <4>4. /\ Len(published'[i]) = Len(q) + 1
              /\ \A k \in 1..(Len(q) + 1) :
                   \/ k \in 1..Len(q) /\ published'[i][k] = q[k]
                   \/ published'[i][k] = h[1]
          <5>1. Head(h) \in 1..MaxTimers /\ Head(h) = h[1]
            BY <4>1, FirstAndRest
          <5>. QED  BY <4>1, <5>1, OneMore
        <4>5. \A k \in 1..Len(published'[i]) : published'[i][k] \in Given
          BY <4>2, <4>3, <4>4
        <4>. QED  BY <4>3, <4>5, Zenon
      <3>3. ASSUME NEW t \in Given' PROVE t \in Given
        <4>1. PICK j \in Instance : \/ \E k \in 1..Len(held'[j]) : held'[j][k] = t
                                   \/ \E k \in 1..Len(published'[j]) : published'[j][k] = t
          BY DEF Given
        <4>2. CASE j = i
          BY <3>2, <4>1, <4>2
        <4>3. CASE j # i
          BY <3>1, <4>1, <4>3 DEF Given
        <4>. QED  BY <4>2, <4>3
      <3>. QED  BY <3>3
    <2>4. CASE Restart
      BY <2>4 DEF Restart, NothingHeld, Given
    <2>5. CASE Disconnect
      <3>1. published' = published
        BY <2>5 DEF Disconnect
      <3>2. ASSUME NEW i \in Instance, NEW k \in 1..Len(held'[i])
            PROVE  \E m \in 1..Len(held[i]) : held'[i][k] = held[i][m]
        BY <2>5, <3>2, Dropped
      <3>. QED  BY <3>1, <3>2 DEF Given
    <2>. QED
      BY <2>1, <2>2, <2>3, <2>4, <2>5 DEF Next, DeployChange, Resync, PodChange, Observe,
        Handlers, HandleDeploy, DeploySubmit, HandlePod, LookupPod, PodSubmit, SubmitFrom,
        Elapse, Publishing, Callback, PublishFail, Reconnect, CancelContext, StopBegin,
        StopEnd, ShutdownEnd, Waiting, publisher, nats, vars
  <1>. QED  BY <1>1, Invariance, PTL DEF Spec, SilentAfterStop

-----------------------------------------------------------------------------
(* What NATS is told last.  The events of one instance are kept apart from *)
(* the rest: who is the newest, and in which order they are published.     *)

\* The map names a timer of the instance; what a Submit replaced is stopped.
Entries ==
    /\ \A i \in Instance :
         timers[i] # 0 => timers[i] <= created /\ event[timers[i]].InstanceID = i
    /\ \A t \in replaced : t <= created /\ timer[t] # "pending"

\* Without a late stop, who has still to publish is in the map, and the newest.
OneLive ==
    \A i \in Instance : ~stopped /\ InTime(i) =>
        \A t \in 1..created : event[t].InstanceID = i /\ timer[t] \in {"pending", "fired"}
            => t = timers[i] /\ Newest(t)

\* When no publishes overlap either, no event is published while an older one is.
InOrder ==
    \A i \in Instance : Orderly(i) =>
        \A t, u \in 1..created :
            t < u /\ event[t].InstanceID = i /\ event[u].InstanceID = i
            /\ timer[t] = "publishing" => timer[u] \notin {"publishing", "done"}

Ordered == Entries /\ OneLive /\ InOrder

\* The debouncer's variables, with their types.
LEMMA TimerTypes ==
    ASSUME IInv
    PROVE  /\ created \in 0..MaxTimers /\ MaxTimers \in Nat
           /\ timer \in [1..MaxTimers -> Debounce!TimerState]
           /\ timers \in [Instance -> (1..MaxTimers) \cup {0}]
           /\ replaced \in SUBSET (1..MaxTimers)
           /\ \A t \in 1..created : t \in 1..MaxTimers /\ timer[t] # "idle"
                                    /\ event[t].InstanceID \in Instance
           /\ \A t \in 1..MaxTimers : timer[t] # "idle" => t \in 1..created
  BY TimersSuffice DEF IInv, TypeOK, Armed, Debounce!TypeOK, Debounce!Timer,
    Debounce!NoTimer, Debounce!Event

LEMMA OrderedUnchanged ==
    ASSUME Ordered, UNCHANGED <<debouncer, contended>>
    PROVE  Ordered'
  <1>. USE DEF debouncer
  <1>1. Entries'
    BY DEF Ordered, Entries
  <1>2. \A i : InTime(i)' <=> InTime(i)
    BY DEF InTime
  <1>3. OneLive'
    BY <1>2 DEF Ordered, OneLive, Newest
  <1>4. InOrder'
    BY <1>2 DEF Ordered, InOrder, Orderly
  <1>. QED  BY <1>1, <1>3, <1>4 DEF Ordered

\* A step of timer t that leaves the window, or its callback, or both.
LEMMA OrderedTimer ==
    ASSUME IInv, Ordered, NEW t \in 1..MaxTimers,
           \/ Elapse(t) \/ Callback(t)
           \/ Debounce!PublishReturn(t) /\ UNCHANGED contended
    PROVE  Ordered' /\ \A i \in Instance : Orderly(i)' => Orderly(i)
  <1>. DEFINE j == event[t].InstanceID
  <1>1. /\ UNCHANGED <<created, event, replaced, stopped>>
        /\ t \in 1..created /\ timer[t] \in {"pending", "fired", "publishing"}
        /\ contended \subseteq contended'
    <2>1. timer[t] \in {"pending", "fired", "publishing"}
      BY DEF Elapse, Callback, Debounce!Elapse, Debounce!Callback, Debounce!PublishReturn
    <2>2. UNCHANGED <<created, event, replaced, stopped>> /\ contended \subseteq contended'
      BY DEF Elapse, Callback, Debounce!Elapse, Debounce!Callback, Debounce!PublishReturn,
        history
    <2>. QED  BY <2>1, <2>2, TimerTypes
  <1>2. PICK s \in {"fired", "skipped", "publishing", "done"} :
          /\ timer' = [timer EXCEPT ![t] = s]
          /\ s = "fired" => timer[t] = "pending" /\ UNCHANGED timers
          /\ s = "skipped" => timer[t] = "fired" /\ UNCHANGED timers
          /\ s = "publishing" => timer[t] = "fired" /\ ~stopped
                /\ timers' = [timers EXCEPT ![j] = 0]
          /\ s = "done" => timer[t] = "publishing" /\ UNCHANGED timers
    BY DEF Elapse, Callback, Debounce!Elapse, Debounce!Callback, Debounce!PublishReturn,
      Debounce!NoTimer
  <1>3. \A i \in Instance : InTime(i)' => InTime(i) /\ (i = j => t \notin replaced)
    BY <1>1, <1>2, TimerTypes DEF InTime
  <1>4. \A i \in Instance : Orderly(i)' => Orderly(i)
    BY <1>1, <1>3 DEF Orderly
  <1>5. Entries'
    <2>1. \A i \in Instance : timers'[i] # 0 => timers'[i] = timers[i]
      BY <1>1, <1>2, TimerTypes
    <2>2. \A i \in Instance :
            timers'[i] # 0 => timers'[i] <= created' /\ event'[timers'[i]].InstanceID = i
      BY <1>1, <2>1 DEF Ordered, Entries
    <2>3. \A u \in replaced' : u <= created' /\ timer'[u] # "pending"
      BY <1>1, <1>2, TimerTypes DEF Ordered, Entries
    <2>. QED  BY <2>2, <2>3 DEF Entries
  <1>6. OneLive'
    <2>. SUFFICES ASSUME NEW i \in Instance, ~stopped, InTime(i)', NEW u \in 1..created,
                         event[u].InstanceID = i, timer'[u] \in {"pending", "fired"}
                  PROVE  u = timers'[i] /\ Newest(u)
      BY <1>1 DEF OneLive, Newest
    <2>1. InTime(i)
      BY <1>3
    <2>2. timer[u] \in {"pending", "fired"} /\ u \in 1..MaxTimers
      BY <1>1, <1>2, TimerTypes
    <2>3. u = timers[i] /\ Newest(u)
      BY <2>1, <2>2 DEF Ordered, OneLive
    <2>4. CASE s = "publishing" /\ i = j
      <3>1. t # u
        BY <1>2, <2>2, <2>4, TimerTypes
      <3>2. t = timers[i]
        BY <1>1, <1>2, <2>1, <2>4 DEF Ordered, OneLive
      <3>. QED  BY <2>3, <2>4, <3>1, <3>2
    <2>5. CASE ~(s = "publishing" /\ i = j)
      BY <1>2, <2>3, <2>5, TimerTypes
    <2>. QED  BY <2>3, <2>4, <2>5
  <1>7. InOrder'
    <2>. SUFFICES ASSUME NEW i \in Instance, Orderly(i)',
                         NEW v \in 1..created, NEW u \in 1..created, v < u,
                         event[v].InstanceID = i, event[u].InstanceID = i,
                         timer'[v] = "publishing", timer'[u] \in {"publishing", "done"}
                  PROVE  FALSE
      BY <1>1 DEF InOrder
    <2>1. u \in 1..MaxTimers /\ v \in 1..MaxTimers
      BY TimerTypes
    <2>2. Orderly(i) /\ InTime(i)
      BY <1>4 DEF Orderly
    <2>3. CASE u # t /\ v # t
      <3>1. timer[v] = "publishing" /\ timer[u] \in {"publishing", "done"}
        BY <1>2, <2>1, <2>3, TimerTypes
      <3>. QED  BY <2>2, <3>1 DEF Ordered, InOrder
    <2>4. CASE v = t
      <3>1. s = "publishing" /\ timer[t] = "fired" /\ ~stopped
        BY <1>2, <2>1, <2>4, TimerTypes
      <3>2. Newest(t)
        BY <1>1, <2>2, <2>4, <3>1 DEF Ordered, OneLive
      <3>. QED  BY <1>1, <2>4, <3>2, TimerTypes DEF Newest
    <2>5. CASE u = t /\ v # t
      <3>1. timer[v] = "publishing"
        BY <1>2, <2>1, <2>5, TimerTypes
      <3>2. CASE s = "publishing"
        <4>1. Callback(t) /\ ~stopped
          BY <1>2, <3>2, TimerTypes DEF Elapse, Callback, Debounce!Elapse,
            Debounce!Callback, Debounce!PublishReturn
        <4>2. v \in InFlight(i)
          BY <3>1 DEF InFlight
        <4>3. i \in contended'
          BY <2>5, <4>1, <4>2 DEF Callback
        <4>. QED  BY <4>3 DEF Orderly
      <3>3. CASE s = "done"
        BY <1>2, <2>2, <2>5, <3>1, <3>3 DEF Ordered, InOrder
      <3>4. s \in {"publishing", "done"}
        BY <1>2, <2>1, <2>5, TimerTypes
      <3>. QED  BY <3>2, <3>3, <3>4
    <2>. QED  BY <2>3, <2>4, <2>5
  <1>. QED  BY <1>4, <1>5, <1>6, <1>7 DEF Ordered

\* What a Submit that is accepted does: a new timer, at most one window stopped.
LEMMA Accepted ==
    ASSUME IInv, Ordered, NEW e \in Debounce!Event, Debounce!Submit(e), ~stopped
    PROVE  /\ created + 1 \in 1..MaxTimers /\ created' = created + 1
           /\ e.InstanceID \in Instance
           /\ event'[created + 1] = e /\ timer'[created + 1] = "pending"
           /\ timers' = [timers EXCEPT ![e.InstanceID] = created + 1]
           /\ replaced' = replaced \cup ({timers[e.InstanceID]} \ {0})
           /\ \A t \in 1..created :
                /\ event'[t] = event[t]
                /\ t # timers[e.InstanceID] => timer'[t] = timer[t]
                /\ t = timers[e.InstanceID] =>
                     /\ event[t].InstanceID = e.InstanceID
                     /\ timer'[t] = IF timer[t] = "pending" THEN "cancelled" ELSE timer[t]
  <1>. DEFINE new == created + 1
  <1>1. /\ created < MaxTimers /\ created' = new
        /\ e.InstanceID \in Instance
        /\ event' = [event EXCEPT ![new] = e]
        /\ timer' = [t \in 1..MaxTimers |->
               IF t = new THEN "pending"
               ELSE IF t = timers[e.InstanceID] THEN Debounce!StopTimer(timer[t])
               ELSE timer[t]]
        /\ timers' = [timers EXCEPT ![e.InstanceID] = new]
        /\ replaced' = replaced \cup ({timers[e.InstanceID]} \ {0})
    BY DEF Debounce!Submit, Debounce!Arm, Debounce!Timer, Debounce!NoTimer,
      Debounce!Event
  <1>2. new \in 1..MaxTimers /\ \A t \in 1..created : t # new /\ t \in 1..MaxTimers
    BY <1>1, TimerTypes
  <1>3. event'[new] = e
    BY <1>1, <1>2 DEF IInv, TypeOK, Debounce!TypeOK, Debounce!Timer
  <1>4. \A t \in 1..created : event'[t] = event[t]
    BY <1>1, <1>2 DEF IInv, TypeOK, Debounce!TypeOK, Debounce!Timer
  <1>5. \A t \in 1..created : t = timers[e.InstanceID] => event[t].InstanceID = e.InstanceID
    BY <1>1, TimerTypes DEF Ordered, Entries
  <1>6. \A t \in 1..created :
          /\ t # timers[e.InstanceID] => timer'[t] = timer[t]
          /\ t = timers[e.InstanceID] =>
               timer'[t] = IF timer[t] = "pending" THEN "cancelled" ELSE timer[t]
    BY <1>1, <1>2 DEF Debounce!StopTimer
  <1>. QED  BY <1>1, <1>2, <1>3, <1>4, <1>5, <1>6

LEMMA OrderedSubmit ==
    ASSUME IInv, Ordered, NEW e \in Debounce!Event, Debounce!Submit(e),
           UNCHANGED contended
    PROVE  Ordered' /\ \A i \in Instance : Orderly(i)' => Orderly(i)
  <1>1. CASE stopped
    <2>. UNCHANGED debouncer
      BY <1>1 DEF Debounce!Submit, Debounce!vars, debouncer
    <2>1. \A i \in Instance : Orderly(i)' => Orderly(i)
      BY DEF Orderly, InTime, debouncer
    <2>. QED  BY <2>1, OrderedUnchanged
  <1>2. CASE ~stopped
    <2>. DEFINE new == created + 1
                j   == e.InstanceID
    <2>1. /\ new \in 1..MaxTimers /\ created' = new /\ j \in Instance
          /\ event'[new] = e /\ timer'[new] = "pending"
          /\ timers' = [timers EXCEPT ![j] = new]
          /\ replaced' = replaced \cup ({timers[j]} \ {0})
          /\ \A t \in 1..created :
               /\ event'[t] = event[t]
               /\ t # timers[j] => timer'[t] = timer[t]
               /\ t = timers[j] =>
                    /\ event[t].InstanceID = j
                    /\ timer'[t] = IF timer[t] = "pending" THEN "cancelled" ELSE timer[t]
      BY <1>2, Accepted
    <2>2. /\ created \in Nat /\ \A t \in 1..new : t = new \/ t \in 1..created
          /\ \A t \in 1..created : t \in 1..new /\ t # new
      BY TimerTypes
    <2>. HIDE DEF new, j
    <2>3. replaced \subseteq 1..created /\ (timers[j] # 0 => timers[j] \in 1..created)
      BY <2>1, TimerTypes DEF Ordered, Entries
    <2>4. \A t \in replaced : timer'[t] = timer[t]
      BY <2>1, <2>3 DEF Ordered, Entries
    <2>5. \A i \in Instance : InTime(i)' =>
            InTime(i) /\ (i = j /\ timers[j] # 0 => timer'[timers[j]] = "cancelled")
      <3>1. \A t \in replaced' : t \in 1..created
        BY <2>1, <2>3
      <3>2. \A t \in replaced' : event'[t] = event[t]
        BY <2>1, <3>1
      <3>3. replaced \subseteq replaced' /\ (timers[j] # 0 => timers[j] \in replaced')
        BY <2>1
      <3>4. timers[j] # 0 => event[timers[j]].InstanceID = j
        BY <2>1, <2>3
      <3>. QED  BY <2>4, <3>2, <3>3, <3>4 DEF InTime
    <2>6. \A i \in Instance : Orderly(i)' => Orderly(i)
      BY <2>5 DEF Orderly
    <2>7. Entries'
      <3>1. \A i \in Instance : timers'[i] # 0 =>
              timers'[i] <= created' /\ event'[timers'[i]].InstanceID = i
        <4>. SUFFICES ASSUME NEW i \in Instance, timers'[i] # 0
                      PROVE  timers'[i] <= created' /\ event'[timers'[i]].InstanceID = i
          OBVIOUS
        <4>1. CASE i = j
          BY <2>1, <2>2, <4>1, TimerTypes DEF j
        <4>2. CASE i # j
          <5>1. timers'[i] = timers[i] /\ timers[i] \in 1..created
                /\ event[timers[i]].InstanceID = i
            BY <2>1, <4>2, TimerTypes DEF Ordered, Entries
          <5>. QED  BY <2>1, <2>2, <5>1
        <4>. QED  BY <4>1, <4>2
      <3>2. \A t \in replaced' : t <= created' /\ timer'[t] # "pending"
        <4>1. \A t \in replaced' : t \in 1..created
          BY <2>1, <2>3
        <4>2. \A t \in replaced' : timer'[t] # "pending"
          BY <2>1, <2>3, <2>4 DEF Ordered, Entries
        <4>3. \A t \in 1..created : t <= new
          BY <2>2 DEF new
        <4>. QED  BY <2>1, <4>1, <4>2, <4>3
      <3>. QED  BY <3>1, <3>2 DEF Entries
    <2>8. OneLive'
      <3>. SUFFICES ASSUME NEW i \in Instance, ~stopped', InTime(i)', NEW u \in 1..new,
                           event'[u].InstanceID = i, timer'[u] \in {"pending", "fired"}
                    PROVE  u = timers'[i] /\ Newest(u)'
        BY <2>1 DEF OneLive
      <3>1. CASE u = new
        <4>1. i = j /\ u = timers'[i]
          BY <2>1, <3>1, TimerTypes DEF j
        <4>2. \A v \in 1..new : v <= u
          BY <3>1, TimerTypes DEF new
        <4>. QED  BY <2>1, <4>1, <4>2 DEF Newest
      <3>2. CASE u # new
        <4>1. u \in 1..created /\ event[u].InstanceID = i
          BY <2>1, <2>2, <3>2
        <4>2. timer[u] \in {"pending", "fired"}
          BY <2>1, <4>1
        <4>3. u = timers[i] /\ Newest(u)
          BY <1>2, <2>5, <4>1, <4>2 DEF Ordered, OneLive
        <4>4. i # j
          <5>1. timers[i] # 0
            BY <4>1, <4>3
          <5>. QED  BY <2>5, <4>3, <5>1
        <4>5. timers'[i] = timers[i]
          BY <2>1, <4>4, TimerTypes
        <4>6. Newest(u)'
          <5>1. event'[new].InstanceID = j
            BY <2>1 DEF j
          <5>. QED  BY <2>1, <2>2, <4>1, <4>3, <4>4, <5>1 DEF Newest
        <4>. QED  BY <4>3, <4>5, <4>6
      <3>. QED  BY <3>1, <3>2
    <2>9. InOrder'
      <3>. SUFFICES ASSUME NEW i \in Instance, Orderly(i)',
                           NEW v \in 1..new, NEW u \in 1..new, v < u,
                           event'[v].InstanceID = i, event'[u].InstanceID = i,
                           timer'[v] = "publishing", timer'[u] \in {"publishing", "done"}
                    PROVE  FALSE
        BY <2>1 DEF InOrder
      <3>1. v # new /\ u # new
        BY <2>1
      <3>2. /\ v \in 1..created /\ event[v].InstanceID = i /\ timer[v] = "publishing"
            /\ u \in 1..created /\ event[u].InstanceID = i
            /\ timer[u] \in {"publishing", "done"}
        BY <2>1, <2>2, <3>1
      <3>. QED  BY <2>6, <3>2 DEF Ordered, InOrder
    <2>. QED  BY <2>6, <2>7, <2>8, <2>9 DEF Ordered
  <1>. QED  BY <1>1, <1>2

LEMMA OrderedStop ==
    ASSUME IInv, Ordered, StopBegin \/ StopEnd
    PROVE  Ordered' /\ \A i \in Instance : Orderly(i)' => Orderly(i)
  <1>1. CASE StopBegin
    <2>1. /\ stopped' /\ UNCHANGED <<created, event, replaced, contended>>
          /\ \A i \in Instance : timers'[i] = 0
          /\ \A t \in 1..MaxTimers :
               timer'[t] # timer[t] => timer[t] = "pending" /\ timer'[t] = "cancelled"
      BY <1>1 DEF StopBegin, Debounce!StopBegin, Debounce!NoTimer, Debounce!Timer,
        Debounce!StopTimer, history
    <2>2. \A t \in replaced : timer'[t] = timer[t]
      BY <2>1, TimerTypes DEF Ordered, Entries
    <2>3. \A i \in Instance : Orderly(i)' => Orderly(i)
      BY <2>1, <2>2 DEF Orderly, InTime
    <2>4. Entries' /\ OneLive'
      BY <2>1, <2>2 DEF Ordered, Entries, OneLive
    <2>5. InOrder'
      <3>. SUFFICES ASSUME NEW i \in Instance, Orderly(i)',
                           NEW v \in 1..created, NEW u \in 1..created, v < u,
                           event[v].InstanceID = i, event[u].InstanceID = i,
                           timer'[v] = "publishing", timer'[u] \in {"publishing", "done"}
                    PROVE  FALSE
        BY <2>1 DEF InOrder
      <3>1. timer[v] = "publishing" /\ timer[u] \in {"publishing", "done"}
        BY <2>1, TimerTypes
      <3>. QED  BY <2>3, <3>1 DEF Ordered, InOrder
    <2>. QED  BY <2>3, <2>4, <2>5 DEF Ordered
  <1>2. CASE StopEnd
    <2>1. UNCHANGED <<created, event, timer, timers, replaced, stopped, contended>>
      BY <1>2 DEF StopEnd, Debounce!StopEnd, history
    <2>2. \A i : (InTime(i)' <=> InTime(i)) /\ (Newest(i)' <=> Newest(i))
      BY <2>1 DEF InTime, Newest
    <2>3. Entries'
      BY <2>1 DEF Ordered, Entries
    <2>4. OneLive'
      BY <2>1, <2>2 DEF Ordered, OneLive
    <2>5. InOrder' /\ \A i \in Instance : Orderly(i)' => Orderly(i)
      BY <2>1, <2>2 DEF Ordered, InOrder, Orderly
    <2>. QED  BY <2>3, <2>4, <2>5 DEF Ordered
  <1>. QED  BY <1>1, <1>2

LEMMA OrderedRestart ==
    ASSUME IInv, Restart
    PROVE  Ordered'
  <1>1. /\ \A i \in Instance : timers'[i] = 0
        /\ replaced' = {} /\ created' = created
        /\ \A t \in 1..created : timer'[t] \notin {"pending", "fired", "publishing"}
    BY TimerTypes DEF Restart, Debounce!NoTimer
  <1>. QED  BY <1>1 DEF Ordered, Entries, OneLive, InOrder

LEMMA OrderedInit == Init => Ordered
  BY DEF Init, Debounce!Init, Debounce!NoTimer, Ordered, Entries, OneLive, InOrder

-----------------------------------------------------------------------------
(* From the caches to the submissions.                                     *)

\* Something of instance i is queued, or in the hands of a handler.
Asks(q, i) == \E k \in 1..Len(q) : q[k].id = i
Holds(h, i) == h.at # "idle" /\ h.id = i
Owed(i) ==
    Asks(deployQ, i) \/ Asks(podQ, i) \/ Holds(deployH, i) \/ Holds(podH, i)

\* A Pod queued as Succeeded still is, or there is more to come of its instance.
SuccessKnown ==
    \A k \in 1..Len(podQ), i \in Instance :
        podQ[k] = [id |-> i, pod |-> "Succeeded"] =>
            \/ ~NoSuccess(i)
            \/ \E m \in 1..Len(podQ) : m > k /\ podQ[m].id = i

\* The last event given to NATS.
LastGiven(i) ==
    IF held[i] # <<>> THEN held[i][Len(held[i])]
    ELSE IF published[i] # <<>> THEN published[i][Len(published[i])] ELSE 0

\* Timer t, of this life, carries what the caches say of i, and has told it or will
\* do so, unless it was given up or lost.
Carried(i, t) ==
    /\ t > earlier /\ event[t].InstanceID = i /\ Newest(t) /\ event[t].Status \in Truths(i)
    /\ \/ timer[t] \in {"pending", "fired", "publishing"}
       \/ /\ timer[t] = "done"
          /\ Orderly(i) /\ attempts[t] < MaxAttempts /\ t \notin lost => LastGiven(i) = t

\* Once nothing is owed, unless the last lookups were out of date.
Honest ==
    \A i \in seen \ stale :
        ~ctxDone /\ ~Owed(i) /\ NoSuccess(i) => \E t \in 1..created : Carried(i, t)

Wayside == (stopped => ctxDone) /\ earlier <= created

TInv == Ordered /\ Wayside /\ SuccessKnown /\ Honest

LEMMA AsksAppend ==
    ASSUME NEW S, NEW q \in Seq(S), NEW e \in S, NEW i
    PROVE  Asks(Append(q, e), i) <=> Asks(q, i) \/ e.id = i
  <1>1. /\ Len(q) \in Nat /\ Len(Append(q, e)) = Len(q) + 1
        /\ \A k \in 1..Len(q) : Append(q, e)[k] = q[k]
        /\ Append(q, e)[Len(q) + 1] = e
    BY AppendProperties, LenProperties
  <1>2. \A k \in 1..(Len(q) + 1) : k = Len(q) + 1 \/ k \in 1..Len(q)
    BY <1>1
  <1>3. Len(q) + 1 \in 1..(Len(q) + 1) /\ \A k \in 1..Len(q) : k \in 1..(Len(q) + 1)
    BY <1>1
  <1>. QED  BY <1>1, <1>2, <1>3 DEF Asks

LEMMA AsksTail ==
    ASSUME NEW S, NEW q \in Seq(S), q # <<>>, NEW i
    PROVE  Asks(q, i) <=> Head(q).id = i \/ Asks(Tail(q), i)
  <1>1. /\ Len(q) \in Nat \ {0} /\ Head(q) = q[1] /\ Len(Tail(q)) = Len(q) - 1
        /\ \A k \in 1..(Len(q) - 1) : Tail(q)[k] = q[k + 1]
    BY HeadTailProperties, LenProperties, EmptySeq
  <1>2. \A k \in 1..Len(q) : k = 1 \/ k - 1 \in 1..(Len(q) - 1)
    BY <1>1
  <1>3. 1 \in 1..Len(q) /\ \A k \in 1..(Len(q) - 1) : k + 1 \in 1..Len(q)
    BY <1>1
  <1>4. \A k \in 1..(Len(q) - 1) : (k + 1) - 1 = k
    OBVIOUS
  <1>5. ASSUME NEW k \in 1..Len(q), q[k].id = i, k # 1 PROVE Asks(Tail(q), i)
    <2>1. k - 1 \in 1..Len(Tail(q)) /\ (k - 1) + 1 = k
      BY <1>1, <1>2, <1>5
    <2>2. Tail(q)[k - 1] = q[k]
      BY <1>1, <2>1
    <2>. QED  BY <1>5, <2>1, <2>2 DEF Asks
  <1>6. ASSUME NEW k \in 1..Len(Tail(q)), Tail(q)[k].id = i PROVE Asks(q, i)
    BY <1>1, <1>3, <1>6 DEF Asks
  <1>. QED  BY <1>1, <1>3, <1>5, <1>6 DEF Asks

\* The queues and caches, with their types.
LEMMA QueueTypes ==
    ASSUME IInv
    PROVE  /\ deployQ \in Seq([id: Instance, deploy: DeployStates \cup {None}])
           /\ podQ \in Seq([id: Instance, pod: PodPhases \cup {None}])
           /\ deployCache \in [Deployment -> DeployStates \cup {None}]
           /\ podCache \in [Pod -> PodPhases \cup {None}]
           /\ deployH \in Handling /\ podH \in Handling
           /\ seen \subseteq Instance
  BY DEF IInv, TypeOK

\* What an instance looks like depends on its own objects only.
LEMMA OwnObjects ==
    ASSUME NEW i \in Instance,
           \A d \in DeploymentsOf(i) : deployCache'[d] = deployCache[d],
           \A p \in PodsOf(i) : podCache'[p] = podCache[p]
    PROVE  Truths(i)' = Truths(i) /\ (NoSuccess(i)' <=> NoSuccess(i))
  <1>1. {p \in PodsOf(i) : podCache'[p] # None} = {p \in PodsOf(i) : podCache[p] # None}
    OBVIOUS
  <1>2. {podCache'[p] : p \in {q \in PodsOf(i) : podCache'[q] # None}}
          = {podCache[p] : p \in {q \in PodsOf(i) : podCache[q] # None}}
    BY <1>1
  <1>3. lookupPodByIndex(i)' = lookupPodByIndex(i)
    BY <1>2 DEF lookupPodByIndex
  <1>4. {deployCache'[d] : d \in DeploymentsOf(i)} = {deployCache[d] : d \in DeploymentsOf(i)}
    OBVIOUS
  <1>5. lookupDeployByIndex(i)' = lookupDeployByIndex(i)
    BY <1>4 DEF lookupDeployByIndex
  <1>6. Truths(i)' = Truths(i)
    BY <1>3, <1>5 DEF Truths
  <1>. QED  BY <1>6 DEF NoSuccess

\* The indexed Pods have a status unless one of them succeeded.
LEMMA StatusOfIndexed ==
    ASSUME IInv, NEW i \in Instance, NEW d,
           ReconcileStatus(d, lookupPodByIndex(i)) = None
    PROVE  ~NoSuccess(i)
  <1>. DEFINE S == {podCache[p] : p \in {q \in PodsOf(i) : podCache[q] # None}}
              w == WorstPhase(S)
  <1>1. lookupPodByIndex(i) = w
    BY DEF lookupPodByIndex
  <1>2. S \subseteq Phase
    BY QueueTypes, PhasesAssumption DEF PodsOf
  <1>. HIDE DEF w
  <1>3. w # None /\ MapPodPhaseToStatus(w) = None
    BY <1>1 DEF ReconcileStatus, None
  <1>4. w \in S
    <2>1. S # {} /\ w = CHOOSE p \in S : \A q \in S : podPhasePriority(q) <= podPhasePriority(p)
      BY <1>3 DEF w, WorstPhase
    <2>. HIDE DEF S
    <2>2. \E p \in S : \A q \in S : podPhasePriority(q) <= podPhasePriority(p)
      <3>1. \A p \in S : p \in {"Pending", "Running", "Succeeded", "Failed", "Unknown"}
        BY <1>2 DEF Phase
      <3>. QED  BY <2>1, <3>1 DEF podPhasePriority
    <2>. QED  BY <2>1, <2>2
  <1>5. w = "Succeeded"
    BY <1>2, <1>3, <1>4 DEF Phase, MapPodPhaseToStatus, None
  <1>. QED  BY <1>4, <1>5 DEF NoSuccess

\* What a handler makes of a lookup in the index: a submission, or nothing to tell.
LEMMA DecidedHolds ==
    ASSUME IInv, NEW i \in Instance, NEW d
    PROVE  \/ Holds(Decided(i, ReconcileStatus(d, lookupPodByIndex(i))), i)
           \/ ~NoSuccess(i)
  BY StatusOfIndexed DEF Decided, Holds

\* A notification more is owed to its instance.
LEMMA AsksMore ==
    ASSUME IInv, NEW i \in Instance
    PROVE  /\ \A d \in DeployStates \cup {None} : \A j :
                Asks(Append(deployQ, [id |-> i, deploy |-> d]), j)
                  <=> Asks(deployQ, j) \/ i = j
           /\ \A f \in PodPhases \cup {None} : \A j :
                Asks(Append(podQ, [id |-> i, pod |-> f]), j) <=> Asks(podQ, j) \/ i = j
  <1>1. ASSUME NEW d \in DeployStates \cup {None}, NEW j
        PROVE  Asks(Append(deployQ, [id |-> i, deploy |-> d]), j)
                 <=> Asks(deployQ, j) \/ i = j
    <2>. DEFINE S == [id: Instance, deploy: DeployStates \cup {None}]
                e == [id |-> i, deploy |-> d]
    <2>1. e \in S /\ e.id = i /\ deployQ \in Seq(S)
      BY QueueTypes
    <2>. HIDE DEF S, e
    <2>2. Asks(Append(deployQ, e), j) <=> Asks(deployQ, j) \/ e.id = j
      BY <2>1, AsksAppend
    <2>. QED  BY <2>1, <2>2 DEF e
  <1>2. ASSUME NEW f \in PodPhases \cup {None}, NEW j
        PROVE  Asks(Append(podQ, [id |-> i, pod |-> f]), j) <=> Asks(podQ, j) \/ i = j
    <2>. DEFINE S == [id: Instance, pod: PodPhases \cup {None}]
                e == [id |-> i, pod |-> f]
    <2>1. e \in S /\ e.id = i /\ podQ \in Seq(S)
      BY QueueTypes
    <2>. HIDE DEF S, e
    <2>2. Asks(Append(podQ, e), j) <=> Asks(podQ, j) \/ e.id = j
      BY <2>1, AsksAppend
    <2>. QED  BY <2>1, <2>2 DEF e
  <1>. QED  BY <1>1, <1>2

\* A notification that is taken was owed to its instance.
LEMMA AsksLess ==
    ASSUME IInv
    PROVE  /\ deployQ # <<>> =>
                \A j : Asks(deployQ, j) <=> Head(deployQ).id = j \/ Asks(Tail(deployQ), j)
           /\ podQ # <<>> =>
                \A j : Asks(podQ, j) <=> Head(podQ).id = j \/ Asks(Tail(podQ), j)
  <1>1. ASSUME NEW S, NEW q \in Seq(S), q # <<>>
        PROVE  \A j : Asks(q, j) <=> Head(q).id = j \/ Asks(Tail(q), j)
    BY <1>1, AsksTail
  <1>2. /\ \E S : deployQ \in Seq(S)
        /\ \E S : podQ \in Seq(S)
    BY QueueTypes
  <1>. QED  BY <1>1, <1>2

\* Nothing that was told or will be is touched: what is owed may only grow, or
\* shrink when a Pod that succeeded leaves nothing to tell.
LEMMA HonestKept ==
    ASSUME IInv, Honest,
           UNCHANGED <<debouncer, attempts, ctxDone, stale, contended, earlier>>,
           seen' \subseteq Instance, lost \subseteq lost',
           \A i \in Instance : LastGiven(i)' = LastGiven(i) \/ LastGiven(i) \in lost',
           \A i \in Instance : ~Owed(i)' /\ NoSuccess(i)' =>
               /\ ~Owed(i) /\ NoSuccess(i) /\ Truths(i)' = Truths(i)
               /\ i \in seen' => i \in seen
    PROVE  Honest'
  <1>. SUFFICES ASSUME NEW i \in seen' \ stale', ~ctxDone', ~Owed(i)', NoSuccess(i)'
                PROVE  \E t \in 1..created' : Carried(i, t)'
    BY DEF Honest
  <1>1. /\ i \in seen \ stale /\ ~ctxDone /\ ~Owed(i) /\ NoSuccess(i)
        /\ Truths(i)' = Truths(i)
        /\ LastGiven(i)' = LastGiven(i) \/ LastGiven(i) \in lost'
    OBVIOUS
  <1>2. PICK t \in 1..created : Carried(i, t)
    BY <1>1 DEF Honest
  <1>3. UNCHANGED <<created, event, timer, replaced, attempts, contended>>
    BY DEF debouncer
  <1>4. (Newest(t)' <=> Newest(t)) /\ (Orderly(i)' <=> Orderly(i))
    BY <1>3 DEF Newest, Orderly, InTime
  <1>5. Carried(i, t)'
    BY <1>1, <1>2, <1>3, <1>4 DEF Carried
  <1>. QED  BY <1>2, <1>3, <1>5

LEMMA HonestQuietly ==
    ASSUME IInv, Honest,
           UNCHANGED <<debouncer, publisher, ctxDone, stale, contended, earlier>>,
           seen' \subseteq Instance,
           \A i \in Instance : ~Owed(i)' /\ NoSuccess(i)' =>
               /\ ~Owed(i) /\ NoSuccess(i) /\ Truths(i)' = Truths(i)
               /\ i \in seen' => i \in seen
    PROVE  Honest'
  <1>1. UNCHANGED <<attempts, lost>> /\ \A i \in Instance : LastGiven(i)' = LastGiven(i)
    BY DEF publisher, nats, LastGiven
  <1>. QED  BY <1>1, HonestKept

\* What the invariant says of the debouncer and of NATS, when nothing happens there.
LEMMA AsideUnchanged ==
    ASSUME Ordered, Wayside, UNCHANGED <<debouncer, ctxDone, contended, earlier>>
    PROVE  Ordered' /\ Wayside'
  <1>1. Ordered'
    BY OrderedUnchanged
  <1>2. Wayside'
    BY DEF Wayside, debouncer
  <1>. QED  BY <1>1, <1>2

LEMMA KnownAppend ==
    ASSUME IInv, SuccessKnown, NEW i \in Instance, NEW f \in PodPhases \cup {None},
           podQ' = Append(podQ, [id |-> i, pod |-> f]),
           f = "Succeeded" => ~NoSuccess(i)',
           \A j \in Instance : j # i => (NoSuccess(j)' <=> NoSuccess(j))
    PROVE  SuccessKnown'
  <1>. DEFINE l == Len(podQ)
              n == [id |-> i, pod |-> f]
  <1>1. n.id = i /\ n.pod = f /\ n \in [id: Instance, pod: PodPhases \cup {None}]
    OBVIOUS
  <1>. HIDE DEF n
  <1>2. /\ l \in Nat /\ Len(podQ') = l + 1 /\ podQ'[l + 1] = n
        /\ \A k \in 1..l : podQ'[k] = podQ[k]
    <2>1. podQ' = Append(podQ, n)
      BY DEF n
    <2>. QED  BY <1>1, <2>1, QueueTypes, AppendProperties, LenProperties
  <1>. HIDE DEF l
  <1>3. \A k \in 1..(l + 1) : k = l + 1 \/ k \in 1..l
    BY <1>2
  <1>4. \A k \in 1..l : k \in 1..(l + 1) /\ l + 1 > k /\ l + 1 \in 1..(l + 1)
    BY <1>2
  <1>. SUFFICES ASSUME NEW k \in 1..(l + 1), NEW j \in Instance,
                       podQ'[k] = [id |-> j, pod |-> "Succeeded"], NoSuccess(j)'
                PROVE  \E m \in 1..(l + 1) : m > k /\ podQ'[m].id = j
    BY <1>2 DEF SuccessKnown
  <1>5. k \in 1..l
    <2>1. CASE k = l + 1
      <3>1. n = [id |-> j, pod |-> "Succeeded"]
        BY <1>2, <2>1
      <3>2. i = j /\ f = "Succeeded"
        BY <1>1, <3>1
      <3>. QED  BY <3>2
    <2>. QED  BY <1>3, <2>1
  <1>6. CASE j = i
    BY <1>1, <1>2, <1>4, <1>5, <1>6
  <1>7. CASE j # i
    <2>1. podQ[k] = [id |-> j, pod |-> "Succeeded"] /\ NoSuccess(j)
      BY <1>2, <1>5, <1>7
    <2>2. PICK m \in 1..l : m > k /\ podQ[m].id = j
      BY <1>5, <2>1 DEF SuccessKnown, l
    <2>3. podQ'[m].id = j /\ m \in 1..(l + 1)
      BY <1>2, <1>4, <2>2
    <2>. QED  BY <2>2, <2>3
  <1>. QED  BY <1>6, <1>7

LEMMA KnownTail ==
    ASSUME IInv, SuccessKnown, podQ # <<>>, podQ' = Tail(podQ), UNCHANGED podCache
    PROVE  SuccessKnown'
  <1>. DEFINE l == Len(podQ)
  <1>1. /\ l \in Nat \ {0} /\ Len(podQ') = l - 1
        /\ \A k \in 1..(l - 1) : podQ'[k] = podQ[k + 1]
    BY QueueTypes, HeadTailProperties, LenProperties, EmptySeq
  <1>2. \A i : NoSuccess(i)' <=> NoSuccess(i)
    BY DEF NoSuccess
  <1>. HIDE DEF l
  <1>3. \A k \in 1..(l - 1) : k + 1 \in 1..l
    BY <1>1
  <1>4. \A k \in 1..(l - 1), m \in 1..l :
          m > k + 1 => m - 1 \in 1..(l - 1) /\ m - 1 > k /\ (m - 1) + 1 = m
    BY <1>1
  <1>. SUFFICES ASSUME NEW k \in 1..(l - 1), NEW j \in Instance,
                       podQ'[k] = [id |-> j, pod |-> "Succeeded"], NoSuccess(j)
                PROVE  \E m \in 1..(l - 1) : m > k /\ podQ'[m].id = j
    BY <1>1, <1>2 DEF SuccessKnown
  <1>5. PICK m \in 1..l : m > k + 1 /\ podQ[m].id = j
    BY <1>1, <1>3 DEF SuccessKnown, l
  <1>6. podQ'[m - 1].id = j
    BY <1>1, <1>4, <1>5
  <1>. QED  BY <1>4, <1>5, <1>6

LEMMA CachesTInv ==
    ASSUME IInv, TInv, IInv',
           \/ \E d \in Deployment : DeployChange(d)
           \/ \E i \in Instance : Resync(i)
           \/ \E p \in Pod : PodChange(p)
    PROVE  TInv'
  <1>. UNCHANGED <<deployH, podH, publisher, start, stale, contended, earlier, debouncer>>
    BY DEF DeployChange, PodChange, Resync, Observe
  <1>. USE DEF TInv
  <1>1. Ordered' /\ Wayside'
    BY AsideUnchanged DEF start
  <1>. UNCHANGED ctxDone
    BY DEF start
  <1>2. seen' \subseteq Instance
    BY DEF IInv, TypeOK
  <1>3. CASE \E d \in Deployment : DeployChange(d)
    <2>. PICK d \in Deployment : DeployChange(d)
      BY <1>3
    <2>0. PICK i \in Instance : i = d[1] /\ \A j \in Instance : j # i => d \notin DeploymentsOf(j)
      BY DEF Deployment, DeploymentsOf
    <2>1. PICK x \in DeployStates \cup {None} :
            /\ deployCache' = [deployCache EXCEPT ![d] = x]
            /\ deployQ' = Append(deployQ, [id |-> i, deploy |-> x])
            /\ seen' = seen \cup {i} /\ UNCHANGED <<podCache, podQ>>
      BY <2>0 DEF DeployChange
    <2>2. SuccessKnown'
      BY <2>1 DEF SuccessKnown, NoSuccess
    <2>3. \A j : Asks(deployQ', j) <=> Asks(deployQ, j) \/ i = j
      BY <2>1, AsksMore
    <2>4. \A j \in Instance : j # i => Truths(j)' = Truths(j) /\ (NoSuccess(j)' <=> NoSuccess(j))
      <3>1. \A j \in Instance : j # i =>
              \A e \in DeploymentsOf(j) : deployCache'[e] = deployCache[e]
        BY <2>0, <2>1, QueueTypes DEF DeploymentsOf
      <3>. QED  BY <2>1, <3>1, OwnObjects
    <2>5. Honest'
      BY <1>2, <2>1, <2>3, <2>4, HonestQuietly DEF Owed
    <2>. QED  BY <1>1, <2>2, <2>5
  <1>4. CASE \E i \in Instance : Resync(i)
    <2>. PICK i \in Instance : Resync(i)
      BY <1>4
    <2>1. UNCHANGED <<deployCache, podCache, seen>>
      BY DEF Resync
    <2>2. \A j \in Instance : Truths(j)' = Truths(j) /\ (NoSuccess(j)' <=> NoSuccess(j))
      BY <2>1, OwnObjects
    <2>3. ASSUME NEW d \in DeploymentsOf(i), UNCHANGED podQ,
                 deployQ' = Append(deployQ, [id |-> i, deploy |-> deployCache[d]])
          PROVE  TInv'
      <3>1. SuccessKnown'
        BY <2>1, <2>3 DEF SuccessKnown, NoSuccess
      <3>2. \A j : Asks(deployQ', j) <=> Asks(deployQ, j) \/ i = j
        <4>1. deployCache[d] \in DeployStates \cup {None}
          BY QueueTypes DEF DeploymentsOf
        <4>. QED  BY <2>3, <4>1, AsksMore
      <3>3. Honest'
        BY <1>2, <2>1, <2>2, <2>3, <3>2, HonestQuietly DEF Owed
      <3>. QED  BY <1>1, <3>1, <3>3
    <2>4. ASSUME NEW p \in PodsOf(i), podQ' = Append(podQ, [id |-> i, pod |-> podCache[p]]),
                 UNCHANGED deployQ
          PROVE  TInv'
      <3>1. p \in Pod /\ podCache[p] \in PodPhases \cup {None}
        BY QueueTypes DEF PodsOf
      <3>2. podCache[p] = "Succeeded" => ~NoSuccess(i)
        BY DEF NoSuccess
      <3>3. SuccessKnown'
        BY <2>2, <2>4, <3>1, <3>2, KnownAppend
      <3>4. \A j : Asks(podQ', j) <=> Asks(podQ, j) \/ i = j
        BY <2>4, <3>1, AsksMore
      <3>5. Honest'
        BY <1>2, <2>1, <2>2, <2>4, <3>4, HonestQuietly DEF Owed
      <3>. QED  BY <1>1, <3>3, <3>5
    <2>. QED  BY <2>3, <2>4, Zenon DEF Resync
  <1>5. CASE \E p \in Pod : PodChange(p)
    <2>. PICK p \in Pod : PodChange(p)
      BY <1>5
    <2>. DEFINE i == p[1]
    <2>1. PICK f \in NextPhases(podCache[p]) :
            /\ podCache' = [podCache EXCEPT ![p] = f]
            /\ podQ' = Append(podQ, [id |-> i, pod |-> f])
            /\ seen' = seen \cup {i} /\ UNCHANGED <<deployCache, deployQ>>
      BY DEF PodChange
    <2>2. f \in PodPhases \cup {None} /\ i \in Instance /\ p \in PodsOf(i)
      BY <2>1 DEF NextPhases, Pod, PodsOf
    <2>3. \A j \in Instance : j # i => p \notin PodsOf(j)
      BY DEF PodsOf
    <2>4. podCache'[p] = f
      BY <2>1, QueueTypes
    <2>. HIDE DEF i
    <2>5. \A j \in Instance : j # i => Truths(j)' = Truths(j) /\ (NoSuccess(j)' <=> NoSuccess(j))
      <3>1. \A j \in Instance : j # i => \A q \in PodsOf(j) : podCache'[q] = podCache[q]
        BY <2>1, <2>3, QueueTypes DEF PodsOf
      <3>. QED  BY <2>1, <3>1, OwnObjects
    <2>6. f = "Succeeded" => ~NoSuccess(i)'
      BY <2>2, <2>4 DEF NoSuccess
    <2>7. SuccessKnown'
      BY <2>1, <2>2, <2>5, <2>6, KnownAppend
    <2>8. \A j : Asks(podQ', j) <=> Asks(podQ, j) \/ i = j
      BY <2>1, <2>2, AsksMore
    <2>9. Honest'
      BY <1>2, <2>1, <2>5, <2>8, HonestQuietly DEF Owed
    <2>. QED  BY <1>1, <2>7, <2>9
  <1>. QED  BY <1>3, <1>4, <1>5

\* What handlePodEvent makes of the notification it takes: something to submit, or
\* a Pod that succeeded, or one of which more is queued.
LEMMA TakenFromPodQ ==
    ASSUME IInv, SuccessKnown, podQ # <<>>, NEW i \in Instance, Head(podQ).id = i,
           NEW d, Head(podQ).pod # None
    PROVE  \/ Holds(Decided(i, ReconcileStatus(d, Head(podQ).pod)), i)
           \/ ~NoSuccess(i)
           \/ Asks(Tail(podQ), i)
  <1>. DEFINE l == Len(podQ)
  <1>1. /\ l \in Nat \ {0} /\ Head(podQ) = podQ[1] /\ Len(Tail(podQ)) = l - 1
        /\ \A k \in 1..(l - 1) : Tail(podQ)[k] = podQ[k + 1]
    BY QueueTypes, HeadTailProperties, LenProperties, EmptySeq
  <1>2. Head(podQ) \in [id: Instance, pod: PodPhases \cup {None}]
    BY QueueTypes, HeadTailProperties
  <1>. HIDE DEF l
  <1>3. \A m \in 1..l : m > 1 => m - 1 \in 1..(l - 1) /\ (m - 1) + 1 = m
    BY <1>1
  <1>4. CASE Head(podQ).pod = "Succeeded"
    <2>1. podQ[1] = [id |-> i, pod |-> "Succeeded"] /\ 1 \in 1..l
      BY <1>1, <1>2, <1>4
    <2>2. CASE NoSuccess(i)
      <3>1. PICK m \in 1..l : m > 1 /\ podQ[m].id = i
        BY <2>1, <2>2 DEF SuccessKnown, l
      <3>2. Tail(podQ)[m - 1] = podQ[m] /\ m - 1 \in 1..Len(Tail(podQ))
        BY <1>1, <1>3, <3>1
      <3>. QED  BY <3>1, <3>2 DEF Asks
    <2>. QED  BY <2>2
  <1>5. CASE Head(podQ).pod # "Succeeded"
    <2>1. Head(podQ).pod \in {"Pending", "Running", "Failed", "Unknown"}
      BY <1>2, <1>5, PhasesAssumption DEF Phase
    <2>2. ReconcileStatus(d, Head(podQ).pod) # None
      BY <2>1 DEF ReconcileStatus, MapPodPhaseToStatus, None
    <2>. QED  BY <2>2 DEF Decided, Holds
  <1>. QED  BY <1>4, <1>5

LEMMA HandlersTInv ==
    ASSUME IInv, TInv, HandleDeploy \/ HandlePod \/ LookupPod
    PROVE  TInv'
  <1>. UNCHANGED <<deployCache, podCache, publisher, start, history, debouncer>>
    BY DEF HandleDeploy, HandlePod, LookupPod, informers
  <1>. USE DEF TInv
  <1>0. UNCHANGED <<seen, stale, contended, earlier, ctxDone>> /\ seen \subseteq Instance
    BY QueueTypes DEF history, start
  <1>1. Ordered' /\ Wayside'
    BY <1>0, AsideUnchanged
  <1>2. \A j \in Instance : Truths(j)' = Truths(j) /\ (NoSuccess(j)' <=> NoSuccess(j))
    BY OwnObjects
  <1>3. CASE HandleDeploy
    <2>1. deployH = Idle /\ deployQ # <<>> /\ deployQ' = Tail(deployQ) /\ UNCHANGED <<podQ, podH>>
      BY <1>3 DEF HandleDeploy
    <2>2. PICK i \in Instance : i = Head(deployQ).id
      <3>1. Head(deployQ) \in [id: Instance, deploy: DeployStates \cup {None}]
        BY <2>1, QueueTypes, HeadTailProperties
      <3>. QED  BY <3>1
    <2>3. \A j : Asks(deployQ, j) <=> i = j \/ Asks(deployQ', j)
      BY <2>1, <2>2, AsksLess
    <2>4. Holds(deployH', i) \/ ~NoSuccess(i)
      BY <1>3, <2>2, DecidedHolds DEF HandleDeploy
    <2>5. \A j : ~Holds(deployH, j)
      BY <2>1 DEF Holds, Idle
    <2>6. Honest'
      BY <1>0, <1>2, <2>1, <2>3, <2>4, <2>5, HonestQuietly DEF Owed
    <2>7. SuccessKnown'
      BY <1>2, <2>1 DEF SuccessKnown
    <2>. QED  BY <1>1, <2>6, <2>7
  <1>4. CASE HandlePod
    <2>1. podH = Idle /\ podQ # <<>> /\ podQ' = Tail(podQ) /\ UNCHANGED <<deployQ, deployH>>
      BY <1>4 DEF HandlePod
    <2>2. PICK i \in Instance : i = Head(podQ).id
      <3>1. Head(podQ) \in [id: Instance, pod: PodPhases \cup {None}]
        BY <2>1, QueueTypes, HeadTailProperties
      <3>. QED  BY <3>1
    <2>3. \A j : Asks(podQ, j) <=> i = j \/ Asks(podQ', j)
      BY <2>1, <2>2, AsksLess
    <2>4. Holds(podH', i) \/ ~NoSuccess(i) \/ Asks(podQ', i)
      <3>1. CASE Head(podQ).pod = None
        BY <1>4, <2>2, <3>1 DEF HandlePod, Holds
      <3>2. CASE Head(podQ).pod # None
        <4>1. PICK d : podH' = Decided(i, ReconcileStatus(d, Head(podQ).pod))
          BY <1>4, <2>2, <3>2 DEF HandlePod
        <4>. QED  BY <2>1, <2>2, <3>2, <4>1, TakenFromPodQ
      <3>. QED  BY <3>1, <3>2
    <2>5. \A j : ~Holds(podH, j)
      BY <2>1 DEF Holds, Idle
    <2>6. Honest'
      BY <1>0, <1>2, <2>1, <2>3, <2>4, <2>5, HonestQuietly DEF Owed
    <2>7. SuccessKnown'
      BY <2>1, KnownTail
    <2>. QED  BY <1>1, <2>6, <2>7
  <1>5. CASE LookupPod
    <2>1. podH.at = "lookupPod" /\ UNCHANGED <<deployQ, podQ, deployH>>
      BY <1>5 DEF LookupPod, informers
    <2>2. PICK i \in Instance : i = podH.id
      BY <2>1, QueueTypes DEF Handling, Idle
    <2>3. \A j : Holds(podH, j) => j = i
      BY <2>2 DEF Holds
    <2>4. Holds(podH', i) \/ ~NoSuccess(i)
      BY <1>5, <2>2, DecidedHolds DEF LookupPod
    <2>5. Honest'
      BY <1>0, <1>2, <2>1, <2>3, <2>4, HonestQuietly DEF Owed
    <2>6. SuccessKnown'
      BY <1>2, <2>1 DEF SuccessKnown
    <2>. QED  BY <1>1, <2>5, <2>6
  <1>. QED  BY <1>3, <1>4, <1>5

-----------------------------------------------------------------------------
(* From the submissions to NATS.                                           *)

LEMMA SubmitTInv ==
    ASSUME IInv, TInv, DeploySubmit \/ PodSubmit
    PROVE  TInv'
  <1>. USE DEF TInv
  <1>1. PICK h \in Handling :
          /\ SubmitFrom(h)
          /\ \/ deployH = h /\ deployH' = Idle /\ UNCHANGED podH
             \/ podH = h /\ podH' = Idle /\ UNCHANGED deployH
    BY QueueTypes DEF DeploySubmit, PodSubmit
  <1>2. PICK i \in Instance, e \in Debounce!Event :
          /\ h.id = i /\ e.InstanceID = i /\ e.Status = h.status
          /\ Debounce!Submit(e)
          /\ stale' = IF h.status \in Truths(i) THEN stale \ {i} ELSE stale \cup {i}
    <2>1. h.id \in Instance /\ h.status \in ContainerStatus
      BY <1>1 DEF SubmitFrom, Handling, Idle
    <2>. QED  BY <1>1, <2>1 DEF SubmitFrom, Debounce!Event
  <1>3. /\ UNCHANGED <<informers, publisher, ctxDone, seen, contended, earlier, stopped>>
        /\ UNCHANGED <<deployCache, podCache, deployQ, podQ, attempts, published, held, lost>>
    BY <1>1, <1>2 DEF SubmitFrom, Debounce!Submit, Debounce!Arm, Debounce!vars, informers,
      publisher, nats, start
  <1>4. Ordered' /\ \A j \in Instance : Orderly(j)' => Orderly(j)
    BY <1>2, <1>3, OrderedSubmit
  <1>5. Wayside' /\ SuccessKnown'
    <2>1. created' \in {created, created + 1} /\ created \in Nat
      BY <1>2, TimerTypes DEF Debounce!Submit, Debounce!Arm, Debounce!vars
    <2>2. earlier \in Nat
      BY TimerTypes DEF IInv, TypeOK
    <2>3. earlier' <= created'
      BY <1>3, <2>1, <2>2 DEF Wayside
    <2>. QED  BY <1>3, <2>3 DEF Wayside, SuccessKnown, NoSuccess
  <1>6. \A j \in Instance : Truths(j)' = Truths(j) /\ (NoSuccess(j)' <=> NoSuccess(j))
    BY <1>3, OwnObjects
  <1>7. \A j \in Instance : j # i /\ Owed(j) => Owed(j)'
    BY <1>1, <1>2, <1>3 DEF Owed, Holds
  <1>8. Honest'
    <2>. SUFFICES ASSUME NEW j \in seen' \ stale', ~ctxDone', ~Owed(j)', NoSuccess(j)'
                  PROVE  \E t \in 1..created' : Carried(j, t)'
      BY DEF Honest
    <2>1. j \in Instance /\ j \in seen /\ ~ctxDone /\ ~stopped
      BY <1>3, QueueTypes DEF Wayside
    <2>2. PICK new \in 1..MaxTimers :
          /\ new = created + 1 /\ created' = new
          /\ event'[new] = e /\ timer'[new] = "pending"
          /\ \A t \in 1..created :
               /\ event'[t] = event[t]
               /\ t # timers[i] => timer'[t] = timer[t]
               /\ t = timers[i] => event[t].InstanceID = i
      BY <1>2, <2>1, Accepted
    <2>3. \A t \in 1..new : t <= new /\ (t = new \/ t \in 1..created)
      BY <2>2, TimerTypes
    <2>4. new \in 1..new /\ \A t \in 1..created : t \in 1..new
      BY <2>2, TimerTypes
    <2>5. CASE j = i
      <3>1. h.status \in Truths(i)
        BY <1>2, <2>5
      <3>2. Newest(new)' /\ new > earlier'
        <4>1. earlier \in Nat /\ created \in Nat
          BY TimerTypes DEF IInv, TypeOK
        <4>. QED  BY <1>3, <2>2, <2>3, <4>1 DEF Newest, Wayside
      <3>3. Carried(j, new)'
        BY <1>2, <1>6, <2>1, <2>2, <2>5, <3>1, <3>2 DEF Carried
      <3>. QED  BY <2>2, <2>4, <3>3
    <2>6. CASE j # i
      <3>1. PICK t \in 1..created : Carried(j, t)
        <4>1. j \notin stale
          BY <1>2, <2>6
        <4>2. ~Owed(j) /\ NoSuccess(j)
          BY <1>6, <1>7, <2>1, <2>6
        <4>. QED  BY <2>1, <4>1, <4>2 DEF Honest
      <3>2. event[t].InstanceID = j /\ t # timers[i] /\ event'[t] = event[t]
            /\ timer'[t] = timer[t]
        BY <2>2, <2>6, <3>1 DEF Carried
      <3>3. Newest(t)'
        <4>1. \A u \in 1..new : event'[u].InstanceID = j => u \in 1..created
                                                           /\ event[u].InstanceID = j
          BY <1>2, <2>2, <2>3, <2>6
        <4>2. Newest(t)
          BY <3>1 DEF Carried
        <4>. QED  BY <2>2, <3>2, <4>1, <4>2 DEF Newest
      <3>4. LastGiven(j)' = LastGiven(j)
        BY <1>3 DEF LastGiven
      <3>5. Carried(j, t)'
        BY <1>3, <1>4, <1>6, <2>1, <3>1, <3>2, <3>3, <3>4 DEF Carried
      <3>. QED  BY <2>2, <2>4, <3>5
    <2>. QED  BY <2>5, <2>6
  <1>. QED  BY <1>4, <1>5, <1>8

LEMMA TimerTInv ==
    ASSUME IInv, TInv, NEW t \in 1..MaxTimers, Elapse(t) \/ Callback(t)
    PROVE  TInv'
  <1>. USE DEF TInv
  <1>1. Ordered' /\ \A i \in Instance : Orderly(i)' => Orderly(i)
    BY OrderedTimer
  <1>2. UNCHANGED <<deployCache, podCache, deployQ, podQ, deployH, podH, attempts, published,
                    held, lost, ctxDone, seen, stale, earlier, created, event, stopped>>
    BY DEF Elapse, Callback, Debounce!Elapse, Debounce!Callback, informers, publisher, nats,
      history, start
  <1>3. Wayside' /\ SuccessKnown'
    BY <1>2 DEF Wayside, SuccessKnown, NoSuccess
  <1>4. \A i \in Instance : Truths(i)' = Truths(i) /\ (NoSuccess(i)' <=> NoSuccess(i))
    BY <1>2, OwnObjects
  <1>5. Honest'
    <2>. SUFFICES ASSUME NEW i \in seen \ stale, ~ctxDone, ~Owed(i)', NoSuccess(i)'
                  PROVE  \E u \in 1..created : Carried(i, u)'
      BY <1>2 DEF Honest
    <2>1. i \in Instance /\ ~stopped
      BY QueueTypes DEF Wayside
    <2>2. ~Owed(i) /\ NoSuccess(i)
      BY <1>2, <1>4, <2>1 DEF Owed
    <2>3. PICK u \in 1..created : Carried(i, u)
      BY <2>2 DEF Honest
    <2>4. u \in 1..MaxTimers /\ (Newest(u)' <=> Newest(u)) /\ LastGiven(i)' = LastGiven(i)
      BY <1>2, TimerTypes DEF Newest, LastGiven
    <2>5. \/ timer'[u] = timer[u]
          \/ timer'[u] \in {"pending", "fired", "publishing"}
      BY <2>1, <2>4, TimerTypes DEF Elapse, Callback, Debounce!Elapse, Debounce!Callback
    <2>6. Carried(i, u)'
      BY <1>1, <1>2, <1>4, <2>1, <2>3, <2>4, <2>5 DEF Carried
    <2>. QED  BY <2>6
  <1>. QED  BY <1>1, <1>3, <1>5

\* The event that goes to NATS becomes the last one given, and nothing else moves.
LEMMA GivenLast ==
    ASSUME IInv, NEW t \in 1..MaxTimers, PublishOk(t), NEW i \in Instance
    PROVE  LastGiven(i)' = IF event[t].InstanceID = i THEN t ELSE LastGiven(i)
  <1>. DEFINE j == event[t].InstanceID
  <1>1. PICK h \in Seq(1..MaxTimers) : h = held[i]
    BY DEF IInv, TypeOK
  <1>2. held' = [held EXCEPT ![j] = Append(held[j], t)] /\ UNCHANGED published
    BY DEF PublishOk
  <1>. HIDE DEF j
  <1>3. held'[i] = IF i = j THEN Append(h, t) ELSE h
    BY <1>1, <1>2 DEF IInv, TypeOK
  <1>4. Append(h, t) # <<>> /\ Append(h, t)[Len(Append(h, t))] = t
    BY OneMore
  <1>5. CASE i = j
    <2>1. PICK r : r = Append(h, t) /\ r # <<>> /\ r[Len(r)] = t /\ held'[i] = r
      BY <1>3, <1>4, <1>5
    <2>. QED  BY <1>5, <2>1 DEF LastGiven, j
  <1>6. CASE i # j
    BY <1>1, <1>2, <1>3, <1>6 DEF LastGiven, j
  <1>. QED  BY <1>5, <1>6

LEMMA PublishOkTInv ==
    ASSUME IInv, TInv, NEW t \in 1..MaxTimers, PublishOk(t)
    PROVE  TInv'
  <1>. USE DEF TInv
  <1>1. /\ UNCHANGED <<deployCache, podCache, deployQ, podQ, deployH, podH, attempts, lost,
                       ctxDone, seen, stale, contended, earlier, created, event, stopped>>
        /\ timer[t] = "publishing" /\ timer' = [timer EXCEPT ![t] = "done"]
        /\ Debounce!PublishReturn(t)
    BY DEF PublishOk, Debounce!PublishReturn, informers, history, start
  <1>2. Ordered' /\ \A i \in Instance : Orderly(i)' => Orderly(i)
    BY <1>1, OrderedTimer
  <1>3. Wayside' /\ SuccessKnown'
    BY <1>1 DEF Wayside, SuccessKnown, NoSuccess
  <1>4. \A i \in Instance : Truths(i)' = Truths(i) /\ (NoSuccess(i)' <=> NoSuccess(i))
    BY <1>1, OwnObjects
  <1>5. Honest'
    <2>. SUFFICES ASSUME NEW i \in seen \ stale, ~ctxDone, ~Owed(i)', NoSuccess(i)'
                  PROVE  \E u \in 1..created : Carried(i, u)'
      BY <1>1 DEF Honest
    <2>1. i \in Instance
      BY QueueTypes
    <2>2. ~Owed(i) /\ NoSuccess(i)
      BY <1>1, <1>4, <2>1 DEF Owed
    <2>3. PICK u \in 1..created : Carried(i, u)
      BY <2>2 DEF Honest
    <2>4. u \in 1..MaxTimers /\ (Newest(u)' <=> Newest(u))
          /\ LastGiven(i)' = IF event[t].InstanceID = i THEN t ELSE LastGiven(i)
      BY <1>1, <2>1, TimerTypes, GivenLast DEF Newest
    <2>5. timer'[u] = (IF u = t THEN "done" ELSE timer[u])
      BY <1>1, <2>4, TimerTypes
    <2>6. CASE u = t
      <3>1. event[t].InstanceID = i
        BY <2>3, <2>6 DEF Carried
      <3>. QED  BY <1>1, <1>4, <2>1, <2>3, <2>4, <2>5, <2>6, <3>1 DEF Carried
    <2>7. CASE u # t /\ event[t].InstanceID # i
      BY <1>1, <1>2, <1>4, <2>1, <2>3, <2>4, <2>5, <2>7 DEF Carried
    <2>8. CASE u # t /\ event[t].InstanceID = i
      <3>1. t \in 1..created /\ t < u /\ event[u].InstanceID = i
        BY <1>1, <2>3, <2>8, TimerTypes DEF Carried, Newest
      <3>2. Orderly(i)' => timer[u] # "done"
        BY <1>1, <1>2, <2>1, <2>8, <3>1 DEF Ordered, InOrder
      <3>. QED  BY <1>1, <1>4, <2>1, <2>3, <2>4, <2>5, <2>8, <3>2 DEF Carried
    <2>. QED  BY <2>6, <2>7, <2>8
  <1>. QED  BY <1>2, <1>3, <1>5

LEMMA PublishFailTInv ==
    ASSUME IInv, TInv, NEW t \in 1..MaxTimers, PublishFail(t)
    PROVE  TInv'
  <1>. USE DEF TInv
  <1>1. /\ UNCHANGED <<deployCache, podCache, deployQ, podQ, deployH, podH, published, held,
                       lost, ctxDone, seen, stale, contended, earlier, created, event, stopped>>
        /\ timer[t] = "publishing" /\ attempts' = [attempts EXCEPT ![t] = @ + 1]
        /\ \/ UNCHANGED debouncer
           \/ /\ Debounce!PublishReturn(t)
              /\ attempts[t] + 1 = MaxAttempts \/ ctxDone
    BY DEF PublishFail, Debounce!PublishReturn, informers, history, nats, start, debouncer
  <1>2. Ordered'
    BY <1>1, OrderedTimer, OrderedUnchanged
  <1>3. Wayside' /\ SuccessKnown'
    BY <1>1 DEF Wayside, SuccessKnown, NoSuccess
  <1>4. \A i \in Instance : Truths(i)' = Truths(i) /\ (NoSuccess(i)' <=> NoSuccess(i))
    BY <1>1, OwnObjects
  <1>5. ~ctxDone => UNCHANGED debouncer \/ ~(attempts'[t] < MaxAttempts)
    <2>1. attempts \in [1..MaxTimers -> 0..MaxAttempts] /\ MaxAttempts \in Nat
      BY AttemptsAssumption DEF IInv, TypeOK
    <2>2. attempts[t] \in Nat /\ attempts'[t] = attempts[t] + 1
      BY <1>1, <2>1
    <2>. QED  BY <1>1, <2>1, <2>2
  <1>6. Honest'
    <2>. SUFFICES ASSUME NEW i \in seen \ stale, ~ctxDone, ~Owed(i)', NoSuccess(i)'
                  PROVE  \E u \in 1..created : Carried(i, u)'
      BY <1>1 DEF Honest
    <2>1. i \in Instance
      BY QueueTypes
    <2>2. ~Owed(i) /\ NoSuccess(i)
      BY <1>1, <1>4, <2>1 DEF Owed
    <2>3. PICK u \in 1..created : Carried(i, u)
      BY <2>2 DEF Honest
    <2>4. u \in 1..MaxTimers /\ (Newest(u)' <=> Newest(u)) /\ LastGiven(i)' = LastGiven(i)
      BY <1>1, TimerTypes DEF Newest, LastGiven
    <2>5. \A v \in 1..MaxTimers : v # t => timer'[v] = timer[v] /\ attempts'[v] = attempts[v]
      BY <1>1, TimerTypes DEF Debounce!PublishReturn, debouncer, IInv, TypeOK
    <2>6. Orderly(i)' => Orderly(i)
      BY <1>1, OrderedTimer, <2>1 DEF Orderly, InTime, debouncer
    <2>7. CASE u # t
      BY <1>1, <1>4, <2>1, <2>3, <2>4, <2>5, <2>6, <2>7 DEF Carried
    <2>8. CASE u = t
      <3>1. timer'[t] \in {"publishing", "done"}
        BY <1>1, TimerTypes DEF Debounce!PublishReturn, debouncer
      <3>2. timer'[t] = "publishing" \/ ~(attempts'[t] < MaxAttempts)
        BY <1>1, <1>5 DEF debouncer
      <3>. QED  BY <1>1, <1>4, <2>1, <2>3, <2>4, <2>8, <3>1, <3>2 DEF Carried
    <2>. QED  BY <2>7, <2>8
  <1>. QED  BY <1>2, <1>3, <1>6

-----------------------------------------------------------------------------
(* The connection, the shutdown and a restart.                             *)

\* The first of what is kept goes to NATS: the last stays the last.
LEMMA DeliverLast ==
    ASSUME IInv, NEW j \in Instance, Deliver(j), NEW i \in Instance
    PROVE  LastGiven(i)' = LastGiven(i)
  <1>1. CASE i # j
    <2>1. held'[i] = held[i] /\ published'[i] = published[i]
      BY <1>1 DEF Deliver, IInv, TypeOK
    <2>. QED  BY <2>1 DEF LastGiven
  <1>2. CASE i = j
    <2>1. PICK h \in Seq(1..MaxTimers), q \in Seq(1..MaxTimers) :
            /\ h = held[i] /\ q = published[i] /\ h # <<>>
            /\ held'[i] = Tail(h) /\ published'[i] = Append(q, Head(h))
      BY <1>2 DEF Deliver, IInv, TypeOK
    <2>2. /\ Len(h) \in Nat \ {0} /\ Head(h) = h[1] /\ h[1] \in 1..MaxTimers
      BY <2>1, FirstAndRest
    <2>3. PICK r \in Seq(1..MaxTimers) :
            /\ r = Tail(h) /\ Len(r) = Len(h) - 1 /\ (r = <<>> <=> Len(h) = 1)
            /\ \A k \in 1..Len(r) : k + 1 \in 1..Len(h) /\ 1 < k + 1 /\ r[k] = h[k + 1]
      <3>1. h # <<>>
        BY <2>1
      <3>. QED  BY <3>1, FirstAndRest
    <2>4. PICK v : v = Append(q, h[1]) /\ v # <<>> /\ v[Len(v)] = h[1]
      <3>1. /\ Len(Append(q, h[1])) = Len(q) + 1 /\ Append(q, h[1]) # <<>>
            /\ Append(q, h[1])[Len(q) + 1] = h[1]
        BY <2>2, OneMore
      <3>. QED  BY <3>1, Zenon
    <2>5. held'[i] = r /\ published'[i] = v
      BY <2>1, <2>2, <2>3, <2>4
    <2>6. CASE Len(h) = 1
      BY <2>1, <2>2, <2>3, <2>4, <2>5, <2>6 DEF LastGiven
    <2>7. CASE Len(h) # 1
      <3>1. Len(r) \in 1..Len(r) /\ Len(r) + 1 = Len(h)
        BY <2>2, <2>3, <2>7
      <3>2. r # <<>> /\ r[Len(r)] = h[Len(h)]
        BY <2>3, <2>7, <3>1
      <3>. QED  BY <2>1, <2>5, <3>2 DEF LastGiven
    <2>. QED  BY <2>6, <2>7
  <1>. QED  BY <1>1, <1>2

\* What a dropped connection leaves of an instance ends as before, or the last is lost.
LEMMA DisconnectLast ==
    ASSUME IInv, Disconnect, NEW i \in Instance
    PROVE  LastGiven(i)' = LastGiven(i) \/ LastGiven(i) \in lost'
  <1>1. PICK n \in Nat :
          /\ held'[i] \in Seq(1..MaxTimers)
          /\ Len(held[i]) \in Nat /\ n <= Len(held[i])
          /\ Len(held'[i]) = Len(held[i]) - n
          /\ \A k \in 1..(Len(held[i]) - n) : held'[i][k] = held[i][n + k]
          /\ \A k \in 1..n : held[i][k] \in lost'
    BY Dropped
  <1>2. published'[i] = published[i] /\ held[i] \in Seq(1..MaxTimers)
    BY DEF Disconnect, IInv, TypeOK
  <1>3. CASE Len(held[i]) = 0
    <2>1. held[i] = <<>> /\ held'[i] = <<>>
      BY <1>1, <1>2, <1>3, EmptySeq
    <2>. QED  BY <1>2, <2>1 DEF LastGiven
  <1>4. CASE Len(held[i]) # 0 /\ n = Len(held[i])
    <2>1. held[i] # <<>> /\ held[i][Len(held[i])] \in lost'
      BY <1>1, <1>2, <1>4, EmptySeq
    <2>. QED  BY <2>1 DEF LastGiven
  <1>5. CASE n < Len(held[i])
    <2>1. held[i] # <<>> /\ held'[i] # <<>>
      <3>1. Len(held[i]) # 0 /\ Len(held'[i]) # 0
        BY <1>1, <1>5
      <3>. QED  BY <3>1
    <2>2. held'[i][Len(held'[i])] = held[i][Len(held[i])]
      <3>1. Len(held[i]) - n \in 1..(Len(held[i]) - n) /\ n + (Len(held[i]) - n) = Len(held[i])
        BY <1>1, <1>5
      <3>. QED  BY <1>1, <3>1
    <2>. QED  BY <2>1, <2>2 DEF LastGiven
  <1>. QED  BY <1>1, <1>3, <1>4, <1>5

LEMMA ConnectionTInv ==
    ASSUME IInv, TInv, Disconnect \/ Reconnect \/ \E i \in Instance : Deliver(i)
    PROVE  TInv'
  <1>. USE DEF TInv
  <1>1. /\ UNCHANGED <<deployCache, podCache, deployQ, podQ, deployH, podH, attempts, ctxDone,
                       seen, stale, contended, earlier>>
        /\ UNCHANGED debouncer
    BY DEF Disconnect, Reconnect, Deliver, informers, history, start
  <1>2. Ordered' /\ Wayside'
    BY <1>1, AsideUnchanged
  <1>3. SuccessKnown'
    BY <1>1 DEF SuccessKnown, NoSuccess
  <1>4. \A i \in Instance : Truths(i)' = Truths(i) /\ (NoSuccess(i)' <=> NoSuccess(i))
    BY <1>1, OwnObjects
  <1>5. /\ lost \subseteq lost'
        /\ \A i \in Instance : LastGiven(i)' = LastGiven(i) \/ LastGiven(i) \in lost'
    <2>1. CASE Disconnect
      BY <2>1, Dropped, DisconnectLast
    <2>2. CASE Reconnect
      BY <2>2 DEF Reconnect, LastGiven
    <2>3. CASE \E i \in Instance : Deliver(i)
      BY <2>3, DeliverLast DEF Deliver
    <2>. QED  BY <2>1, <2>2, <2>3
  <1>6. Honest'
    BY <1>1, <1>4, <1>5, HonestKept, QueueTypes DEF Owed
  <1>. QED  BY <1>2, <1>3, <1>6

LEMMA ShutdownTInv ==
    ASSUME IInv, TInv, CancelContext \/ StopBegin \/ StopEnd \/ ShutdownEnd
    PROVE  TInv'
  <1>. USE DEF TInv
  <1>1. UNCHANGED <<podCache, earlier, created>>
    BY DEF CancelContext, StopBegin, StopEnd, ShutdownEnd, informers, history, debouncer,
      Debounce!StopBegin, Debounce!StopEnd
  <1>2. ctxDone'
    BY DEF CancelContext, StopBegin, StopEnd, ShutdownEnd, start, Debounce!StopEnd, IInv,
      Counted, Wayside
  <1>3. Ordered'
    <2>1. CASE CancelContext \/ ShutdownEnd
      BY <1>2, <2>1, OrderedUnchanged DEF CancelContext, ShutdownEnd, history
    <2>. QED  BY <2>1, OrderedStop
  <1>4. Wayside'
    BY <1>1, <1>2 DEF Wayside
  <1>5. SuccessKnown'
    <2>1. podQ' = podQ \/ podQ' = <<>>
      BY DEF CancelContext, StopBegin, StopEnd, ShutdownEnd, informers
    <2>. QED  BY <1>1, <2>1 DEF SuccessKnown, NoSuccess
  <1>6. Honest'
    BY <1>2 DEF Honest
  <1>. QED  BY <1>3, <1>4, <1>5, <1>6

LEMMA RestartTInv ==
    ASSUME IInv, Restart
    PROVE  TInv'
  <1>1. Ordered'
    BY OrderedRestart
  <1>2. podQ' = <<>> /\ ~stopped' /\ seen' = {} /\ earlier' <= created'
    BY TimerTypes DEF Restart
  <1>3. SuccessKnown' /\ Wayside' /\ Honest'
    BY <1>2 DEF SuccessKnown, Wayside, Honest
  <1>. QED  BY <1>1, <1>3 DEF TInv

LEMMA InitTInv == Init => TInv
  <1>. SUFFICES ASSUME Init PROVE TInv
    OBVIOUS
  <1>1. podQ = <<>> /\ ~stopped /\ seen = {} /\ earlier <= created
    BY DEF Init, Debounce!Init
  <1>2. SuccessKnown /\ Wayside /\ Honest
    BY <1>1 DEF SuccessKnown, Wayside, Honest
  <1>. QED  BY <1>2, OrderedInit DEF TInv

LEMMA NextTInv == IInv /\ TInv /\ [Next]_vars => TInv'
  <1>. SUFFICES ASSUME IInv, TInv, [Next]_vars PROVE TInv'
    OBVIOUS
  <1>1. CASE \/ \E d \in Deployment : DeployChange(d)
             \/ \E i \in Instance : Resync(i)
             \/ \E p \in Pod : PodChange(p)
    BY <1>1, CachesTInv, CachesIInv
  <1>2. CASE Handlers
    BY <1>2, HandlersTInv, SubmitTInv DEF Handlers
  <1>3. CASE \E t \in 1..MaxTimers : Elapse(t) \/ Publishing(t)
    BY <1>3, TimerTInv, PublishOkTInv, PublishFailTInv DEF Publishing
  <1>4. CASE Disconnect \/ Reconnect \/ \E i \in Instance : Deliver(i)
    BY <1>4, ConnectionTInv
  <1>5. CASE CancelContext \/ StopBegin \/ StopEnd \/ ShutdownEnd
    BY <1>5, ShutdownTInv
  <1>6. CASE Restart
    BY <1>6, RestartTInv
  <1>7. CASE UNCHANGED vars
    <2>1. UNCHANGED <<deployCache, podCache, deployQ, podQ, deployH, podH, publisher, ctxDone,
                      seen, stale, contended, earlier, debouncer>>
      BY <1>7 DEF vars, informers, history, start
    <2>2. \A i \in Instance : Truths(i)' = Truths(i) /\ (NoSuccess(i)' <=> NoSuccess(i))
      BY <2>1, OwnObjects
    <2>3. Ordered' /\ Wayside'
      BY <2>1, AsideUnchanged DEF TInv
    <2>4. SuccessKnown'
      BY <2>1 DEF TInv, SuccessKnown, NoSuccess
    <2>5. Honest'
      BY <2>1, <2>2, HonestQuietly, QueueTypes DEF TInv, Owed
    <2>. QED  BY <2>3, <2>4, <2>5 DEF TInv
  <1>. QED  BY <1>1, <1>2, <1>3, <1>4, <1>5, <1>6, <1>7 DEF Next, Waiting

THEOREM TInvariance == Spec => []TInv
  BY Invariance, InitTInv, NextTInv, PTL DEF Spec

\* What NATS was told last of an instance is what the caches say, once everything of
\* it has settled and nothing came in its way: from an event in either informer over
\* the lookups, the debouncer and the retries to NATS's client nothing is overtaken,
\* and the last word is lost only when its own attempts are used up or with a
\* connection that drops (monitor.go:103-215, debouncer.go:28-54, publisher.go:65).
THEOREM ToldInTheEnd == Spec => []ToldTheTruth
  <1>1. IInv /\ TInv => ToldTheTruth
    <2>. SUFFICES ASSUME IInv, TInv, NEW i \in seen \ stale, Settled(i), Undisturbed(i), NoSuccess(i)
                  PROVE  LastPublished(i) \in Truths(i)
      BY DEF ToldTheTruth
    <2>1. ~ctxDone /\ Orderly(i) /\ ~Failed(i)
      BY DEF Undisturbed
    <2>2. ~Owed(i)
      BY DEF Settled, Owed, Asks, Holds, Idle
    <2>3. PICK t \in 1..created : Carried(i, t)
      BY <2>1, <2>2 DEF TInv, Honest
    <2>4. attempts[t] < MaxAttempts /\ t \notin lost
      <3>1. attempts[t] # MaxAttempts /\ t \notin lost
        BY <2>1, <2>3 DEF Carried, Failed
      <3>2. attempts[t] \in 0..MaxAttempts
        BY TimerTypes DEF IInv, TypeOK
      <3>. QED  BY <3>1, <3>2, AttemptsAssumption
    <2>5. event[t].InstanceID = i /\ event[t].Status \in Truths(i) /\ LastGiven(i) = t
      BY <2>1, <2>3, <2>4 DEF Carried, Settled
    <2>6. held[i] = <<>> /\ t # 0
      BY DEF Settled
    <2>. QED  BY <2>5, <2>6 DEF LastGiven, LastPublished
  <1>. QED  BY <1>1, Invariance, TInvariance, PTL

-----------------------------------------------------------------------------
(* In which order NATS is told.                                            *)

\* The event of timer t was given to NATS for instance i.
HasGone(i, t) == t \in 1..created /\ event[t].InstanceID = i /\ timer[t] = "done"

Gone ==
    \A i \in Instance, t \in 1..MaxTimers :
        (\E k \in 1..Len(published[i]) : published[i][k] = t)
        \/ (\E k \in 1..Len(held[i]) : held[i][k] = t)
            => HasGone(i, t)

\* What is kept is in order, and behind what is published.
Kept ==
    \A i \in Instance : Orderly(i) =>
        /\ \A k, m \in 1..Len(held[i]) : k < m => held[i][k] < held[i][m]
        /\ \A k \in 1..Len(published[i]), m \in 1..Len(held[i]) :
             published[i][k] < held[i][m]

GInv == Gone /\ Kept

LEMMA DoneStays ==
    ASSUME IInv, TInv, [Next]_vars
    PROVE  \A t \in 1..created :
             /\ t \in 1..created' /\ event'[t] = event[t]
             /\ timer[t] = "done" => timer'[t] = "done"
  <1>. DEFINE Stays ==
         \A t \in 1..created :
             /\ t \in 1..created' /\ event'[t] = event[t]
             /\ timer[t] = "done" => timer'[t] = "done"
  <1>1. CASE UNCHANGED debouncer
    BY <1>1 DEF debouncer
  <1>2. CASE DeploySubmit \/ PodSubmit
    <2>1. PICK h \in Handling : SubmitFrom(h)
      BY <1>2, QueueTypes DEF DeploySubmit, PodSubmit
    <2>2. PICK e \in Debounce!Event : Debounce!Submit(e)
      BY <2>1 DEF SubmitFrom, Handling, Idle, Debounce!Event
    <2>3. CASE stopped
      <3>1. UNCHANGED debouncer
        BY <2>2, <2>3 DEF Debounce!Submit, Debounce!vars, debouncer
      <3>. QED  BY <1>1, <3>1
    <2>4. CASE ~stopped
      <3>1. /\ created' = created + 1
            /\ \A t \in 1..created :
                 event'[t] = event[t] /\ (timer[t] = "done" => timer'[t] = "done")
        BY <2>2, <2>4, Accepted DEF TInv
      <3>2. \A t \in 1..created : t \in 1..(created + 1)
        BY TimerTypes
      <3>. QED  BY <3>1, <3>2
    <2>. QED  BY <2>3, <2>4
  <1>3. ASSUME NEW u \in 1..MaxTimers, Elapse(u) \/ Callback(u) \/ Debounce!PublishReturn(u)
        PROVE  Stays
    BY <1>3, TimerTypes DEF Elapse, Callback, Debounce!Elapse, Debounce!Callback,
      Debounce!PublishReturn
  <1>4. CASE StopBegin \/ StopEnd \/ Restart
    BY <1>4, TimerTypes DEF StopBegin, StopEnd, Restart, Debounce!StopBegin,
      Debounce!StopEnd, Debounce!Timer, Debounce!StopTimer
  <1>. QED
    BY <1>1, <1>2, <1>3, <1>4, Zenon DEF Next, DeployChange, Resync, PodChange, Observe, Handlers,
      HandleDeploy, HandlePod, LookupPod, Publishing, PublishOk, PublishFail, Disconnect,
      Reconnect, Deliver, CancelContext, ShutdownEnd, Waiting, vars

\* In one life what was not orderly stays so.
LEMMA OrderlyBefore ==
    ASSUME IInv, TInv, [Next]_vars, ~Restart, NEW i \in Instance, Orderly(i)'
    PROVE  Orderly(i)
  <1>1. CASE UNCHANGED <<debouncer, contended>>
    BY <1>1 DEF Orderly, InTime, debouncer
  <1>2. CASE DeploySubmit \/ PodSubmit
    <2>1. PICK h \in Handling : SubmitFrom(h)
      BY <1>2, QueueTypes DEF DeploySubmit, PodSubmit
    <2>2. UNCHANGED contended /\ \E e \in Debounce!Event : Debounce!Submit(e)
      BY <2>1 DEF SubmitFrom, Handling, Idle, Debounce!Event
    <2>. QED  BY <2>2, OrderedSubmit DEF TInv
  <1>3. CASE \E t \in 1..MaxTimers :
               \/ Elapse(t) \/ Callback(t)
               \/ Debounce!PublishReturn(t) /\ UNCHANGED contended
    BY <1>3, OrderedTimer DEF TInv
  <1>4. CASE StopBegin \/ StopEnd
    BY <1>4, OrderedStop DEF TInv
  <1>. QED
    BY <1>1, <1>2, <1>3, <1>4, Zenon DEF Next, DeployChange, Resync, PodChange, Observe, Handlers,
      HandleDeploy, HandlePod, LookupPod, Publishing, PublishOk, PublishFail, Disconnect,
      Reconnect, Deliver, CancelContext, ShutdownEnd, Waiting, vars, history

\* The published events of i grow in order, by what the step says of Orderly before it.
Onward(i) ==
    Orderly(i) =>
        \A k, m \in 1..Len(published'[i]) :
            k < m /\ m > Len(published[i]) => published'[i][k] < published'[i][m]

LEMMA OnwardOthers ==
    ASSUME IInv, TInv, GInv, [Next]_vars, UNCHANGED <<published, held>>
    PROVE  GInv' /\ \A i \in Instance : Onward(i)
  <1>1. Gone'
    <2>1. \A i, t : HasGone(i, t) => HasGone(i, t)'
      BY DoneStays DEF HasGone
    <2>. QED  BY <2>1 DEF GInv, Gone
  <1>2. Kept'
    <2>1. CASE Restart
      BY <2>1 DEF Restart, NothingHeld, Kept
    <2>2. CASE ~Restart
      BY <2>2, OrderlyBefore DEF GInv, Kept
    <2>. QED  BY <2>1, <2>2
  <1>3. \A i \in Instance : Onward(i)
    <2>. SUFFICES ASSUME NEW i \in Instance, NEW m \in 1..Len(published[i]),
                         m > Len(published[i])
                  PROVE  FALSE
      BY DEF Onward
    <2>1. Len(published[i]) \in Nat
      BY LenProperties DEF IInv, TypeOK
    <2>. QED  BY <2>1
  <1>. QED  BY <1>1, <1>2, <1>3 DEF GInv

LEMMA GoneGiven ==
    ASSUME IInv, Gone, NEW i \in Instance
    PROVE  /\ \A k \in 1..Len(published[i]) :
                published[i][k] \in 1..MaxTimers /\ HasGone(i, published[i][k])
           /\ \A k \in 1..Len(held[i]) :
                held[i][k] \in 1..MaxTimers /\ HasGone(i, held[i][k])
  <1>1. published[i] \in Seq(1..MaxTimers) /\ held[i] \in Seq(1..MaxTimers)
    BY DEF IInv, TypeOK
  <1>2. ASSUME NEW k \in 1..Len(published[i])
        PROVE  published[i][k] \in 1..MaxTimers /\ HasGone(i, published[i][k])
    <2>1. PICK u \in 1..MaxTimers : u = published[i][k]
      BY <1>1, ElementOfSeq
    <2>2. HasGone(i, u)
      BY <2>1, Zenon DEF Gone
    <2>. QED  BY <2>1, <2>2
  <1>3. ASSUME NEW k \in 1..Len(held[i])
        PROVE  held[i][k] \in 1..MaxTimers /\ HasGone(i, held[i][k])
    <2>1. PICK u \in 1..MaxTimers : u = held[i][k]
      BY <1>1, ElementOfSeq
    <2>2. HasGone(i, u)
      BY <2>1, Zenon DEF Gone
    <2>. QED  BY <2>1, <2>2
  <1>. QED  BY <1>2, <1>3

LEMMA OnwardOk ==
    ASSUME IInv, TInv, GInv, NEW t \in 1..MaxTimers, PublishOk(t)
    PROVE  GInv' /\ \A i \in Instance : Onward(i)
  <1>. USE DEF GInv
  <1>0. [Next]_vars /\ ~Restart
    <2>1. Next
      BY DEF Next, Publishing
    <2>2. timer[t] = "publishing" /\ timer'[t] = "done"
      BY TimerTypes DEF PublishOk, Debounce!PublishReturn
    <2>3. Restart => timer'[t] = "cancelled"
      BY <2>2 DEF Restart
    <2>. QED  BY <2>1, <2>2, <2>3
  <1>1. PICK j \in Instance : j = event[t].InstanceID /\ t \in 1..created
    BY TimerTypes DEF PublishOk, Debounce!PublishReturn
  <1>2. /\ timer[t] = "publishing" /\ timer'[t] = "done"
        /\ UNCHANGED <<created, event>>
    BY TimerTypes DEF PublishOk, Debounce!PublishReturn
  <1>3. /\ published \in [Instance -> Seq(1..MaxTimers)]
        /\ held \in [Instance -> Seq(1..MaxTimers)]
    BY DEF IInv, TypeOK
  <1>4. held' = [held EXCEPT ![j] = Append(held[j], t)] /\ published' = published
    BY <1>1 DEF PublishOk
  <1>5. \A i \in Instance : \A u : HasGone(i, u) => HasGone(i, u)'
    BY <1>0, DoneStays DEF HasGone
  <1>6. HasGone(j, t)'
    BY <1>1, <1>2 DEF HasGone
  <1>7. Orderly(j) => \A u : HasGone(j, u) => u < t
    <2>. SUFFICES ASSUME Orderly(j), NEW u, HasGone(j, u) PROVE u < t
      OBVIOUS
    <2>1. u \in 1..created /\ event[u].InstanceID = j /\ timer[u] = "done"
      BY DEF HasGone
    <2>2. ~(t < u)
      BY <1>1, <1>2, <2>1 DEF TInv, Ordered, InOrder
    <2>3. u # t
      BY <1>2, <2>1
    <2>. QED  BY <1>1, <2>1, <2>2, <2>3
  <1>8. \A i \in Instance : Orderly(i)' => Orderly(i)
    BY <1>0, OrderlyBefore
  <1>9. published' = published /\ held'[j] = Append(held[j], t)
        /\ \A i \in Instance : i # j => held'[i] = held[i]
    BY <1>3, <1>4
  <1>10. PICK s \in Seq(1..MaxTimers) : s = held[j] /\ held'[j] = Append(s, t)
    BY <1>3, <1>9
  <1>11. /\ Len(s) \in Nat /\ Len(held'[j]) = Len(s) + 1
         /\ \A k \in 1..(Len(s) + 1) :
              \/ k \in 1..Len(s) /\ held'[j][k] = s[k]
              \/ k = Len(s) + 1 /\ held'[j][k] = t
         /\ \A k, m \in 1..(Len(s) + 1) :
              k < m => k \in 1..Len(s) /\ held'[j][k] = s[k]
    BY <1>10, OneMore
  <1>12. \A k \in 1..Len(s) : s[k] \in 1..MaxTimers /\ HasGone(j, s[k])
    BY <1>10, GoneGiven
  <1>13. \A k \in 1..Len(published[j]) :
          published[j][k] \in 1..MaxTimers /\ HasGone(j, published[j][k])
    BY GoneGiven
  <1>14. Gone'
    <2>. SUFFICES ASSUME NEW i \in Instance, NEW u \in 1..MaxTimers,
                         \/ \E k \in 1..Len(published'[i]) : published'[i][k] = u
                         \/ \E k \in 1..Len(held'[i]) : held'[i][k] = u
                  PROVE  HasGone(i, u)'
      BY DEF Gone, HasGone
    <2>1. CASE i # j \/ \E k \in 1..Len(published'[i]) : published'[i][k] = u
      BY <1>5, <1>9, <2>1 DEF Gone, HasGone
    <2>2. CASE i = j /\ \E k \in 1..Len(held'[i]) : held'[i][k] = u
      <3>1. PICK k \in 1..(Len(s) + 1) : held'[j][k] = u
        BY <1>11, <2>2
      <3>2. u = t \/ HasGone(j, u)
        BY <1>11, <1>12, <3>1
      <3>. QED  BY <1>5, <1>6, <2>2, <3>2
    <2>. QED  BY <2>1, <2>2
  <1>15. Kept'
    <2>. SUFFICES ASSUME NEW i \in Instance, Orderly(i)'
                  PROVE  /\ \A k, m \in 1..Len(held'[i]) : k < m => held'[i][k] < held'[i][m]
                         /\ \A k \in 1..Len(published'[i]), m \in 1..Len(held'[i]) :
                              published'[i][k] < held'[i][m]
      BY DEF Kept
    <2>0. Orderly(i)
      BY <1>8
    <2>1. CASE i # j
      BY <1>9, <2>0, <2>1 DEF Kept
    <2>2. CASE i = j
      <3>1. ASSUME NEW k \in 1..(Len(s) + 1), NEW m \in 1..(Len(s) + 1), k < m
            PROVE  held'[j][k] < held'[j][m]
        <4>1. k \in 1..Len(s) /\ held'[j][k] = s[k]
          BY <1>11, <3>1
        <4>2. CASE m \in 1..Len(s) /\ held'[j][m] = s[m]
          BY <1>10, <2>0, <2>2, <3>1, <4>1, <4>2 DEF Kept
        <4>3. CASE held'[j][m] = t
          BY <1>7, <1>12, <2>0, <2>2, <4>1, <4>3
        <4>. QED  BY <1>11, <4>2, <4>3
      <3>2. ASSUME NEW k \in 1..Len(published[j]), NEW m \in 1..(Len(s) + 1)
            PROVE  published[j][k] < held'[j][m]
        <4>1. CASE m \in 1..Len(s) /\ held'[j][m] = s[m]
          BY <1>10, <2>0, <2>2, <4>1 DEF Kept
        <4>2. CASE held'[j][m] = t
          BY <1>7, <1>13, <2>0, <2>2, <4>2
        <4>. QED  BY <1>11, <4>1, <4>2
      <3>. QED  BY <1>9, <1>11, <2>2, <3>1, <3>2
    <2>. QED  BY <2>1, <2>2
  <1>16. ASSUME NEW i \in Instance PROVE Onward(i)
    <2>1. \A m \in 1..Len(published[i]) : ~(m > Len(published[i]))
      BY <1>3, LenProperties
    <2>. QED  BY <1>9, <2>1 DEF Onward
  <1>. QED  BY <1>14, <1>15, <1>16

\* The first of what is kept goes behind what is published.
LEMMA OnwardDeliver ==
    ASSUME IInv, TInv, GInv, NEW j \in Instance, Deliver(j)
    PROVE  GInv' /\ \A i \in Instance : Onward(i)
  <1>. USE DEF GInv
  <1>1. UNCHANGED <<created, event, timer, replaced, contended>>
    BY DEF Deliver, debouncer, history
  <1>2. \A i, t : (HasGone(i, t)' <=> HasGone(i, t)) /\ (Orderly(i)' <=> Orderly(i))
    BY <1>1 DEF HasGone, Orderly, InTime
  <1>3. PICK h \in Seq(1..MaxTimers), q \in Seq(1..MaxTimers) :
          /\ h = held[j] /\ q = published[j] /\ h # <<>>
          /\ held'[j] = Tail(h) /\ published'[j] = Append(q, Head(h))
    BY DEF Deliver, IInv, TypeOK
  <1>4. \A i \in Instance : i # j => held'[i] = held[i] /\ published'[i] = published[i]
    BY DEF Deliver, IInv, TypeOK
  <1>5. Len(h) \in Nat \ {0} /\ 1 \in 1..Len(h) /\ Head(h) = h[1] /\ h[1] \in 1..MaxTimers
    BY <1>3, FirstAndRest
  <1>6. /\ Len(q) \in Nat /\ Len(published'[j]) = Len(q) + 1
        /\ \A k \in 1..(Len(q) + 1) :
             \/ k \in 1..Len(q) /\ published'[j][k] = q[k]
             \/ k = Len(q) + 1 /\ published'[j][k] = h[1]
        /\ \A k, m \in 1..(Len(q) + 1) :
             k < m => k \in 1..Len(q) /\ published'[j][k] = q[k]
    BY <1>3, <1>5, OneMore
  <1>7. /\ Len(held'[j]) = Len(h) - 1
        /\ \A k \in 1..(Len(h) - 1) :
             k + 1 \in 1..Len(h) /\ 1 < k + 1 /\ held'[j][k] = h[k + 1]
    BY <1>3, FirstAndRest
  <1>8. Len(held'[j]) = Len(h) - 1
    BY <1>7
  <1>9. /\ \A k \in 1..Len(q) : q[k] \in 1..MaxTimers /\ HasGone(j, q[k])
        /\ \A k \in 1..Len(h) : h[k] \in 1..MaxTimers /\ HasGone(j, h[k])
    BY <1>3, GoneGiven
  <1>10. Orderly(j) =>
           /\ \A k, m \in 1..Len(h) : k < m => h[k] < h[m]
           /\ \A k \in 1..Len(q), m \in 1..Len(h) : q[k] < h[m]
    BY <1>3 DEF Kept
  <1>11. Gone'
    <2>. SUFFICES ASSUME NEW i \in Instance, NEW u \in 1..MaxTimers,
                         \/ \E k \in 1..Len(published'[i]) : published'[i][k] = u
                         \/ \E k \in 1..Len(held'[i]) : held'[i][k] = u
                  PROVE  HasGone(i, u)
      BY <1>2 DEF Gone
    <2>1. CASE i # j
      BY <1>4, <2>1 DEF Gone
    <2>2. CASE i = j
      <3>1. \A k \in 1..(Len(q) + 1) : HasGone(j, published'[j][k])
        BY <1>5, <1>6, <1>9
      <3>2. \A k \in 1..(Len(h) - 1) : HasGone(j, held'[j][k])
        BY <1>7, <1>9
      <3>. QED  BY <1>6, <1>8, <2>2, <3>1, <3>2
    <2>. QED  BY <2>1, <2>2
  <1>12. Kept'
    <2>. SUFFICES ASSUME NEW i \in Instance, Orderly(i)
                  PROVE  /\ \A k, m \in 1..Len(held'[i]) : k < m => held'[i][k] < held'[i][m]
                         /\ \A k \in 1..Len(published'[i]), m \in 1..Len(held'[i]) :
                              published'[i][k] < held'[i][m]
      BY <1>2 DEF Kept
    <2>1. CASE i # j
      BY <1>4, <2>1 DEF Kept
    <2>2. CASE i = j
      <3>1. ASSUME NEW k \in 1..(Len(h) - 1), NEW m \in 1..(Len(h) - 1), k < m
            PROVE  held'[j][k] < held'[j][m]
        <4>1. k + 1 < m + 1
          BY <1>5, <3>1
        <4>. QED  BY <1>7, <1>10, <2>2, <4>1
      <3>2. ASSUME NEW k \in 1..(Len(q) + 1), NEW m \in 1..(Len(h) - 1)
            PROVE  published'[j][k] < held'[j][m]
        <4>1. CASE k \in 1..Len(q) /\ published'[j][k] = q[k]
          BY <1>7, <1>10, <2>2, <4>1
        <4>2. CASE published'[j][k] = h[1]
          BY <1>5, <1>7, <1>10, <2>2, <4>2
        <4>. QED  BY <1>6, <4>1, <4>2
      <3>. QED  BY <1>6, <1>8, <2>2, <3>1, <3>2
    <2>. QED  BY <2>1, <2>2
  <1>13. ASSUME NEW i \in Instance PROVE Onward(i)
    <2>1. CASE i # j
      <3>1. \A m \in 1..Len(published[i]) : ~(m > Len(published[i]))
        BY LenProperties DEF IInv, TypeOK
      <3>. QED  BY <1>4, <2>1, <3>1 DEF Onward
    <2>2. CASE i = j
      <3>. SUFFICES ASSUME Orderly(j), NEW k \in 1..(Len(q) + 1), NEW m \in 1..(Len(q) + 1),
                           k < m, m > Len(q)
                    PROVE  published'[j][k] < published'[j][m]
        BY <1>3, <1>6, <2>2 DEF Onward
      <3>1. published'[j][m] = h[1]
        BY <1>6
      <3>2. k \in 1..Len(q) /\ published'[j][k] = q[k]
        BY <1>6
      <3>. QED  BY <1>5, <1>10, <3>1, <3>2
    <2>. QED  BY <2>1, <2>2
  <1>. QED  BY <1>11, <1>12, <1>13

\* A dropped connection leaves a part of what was kept, in its order.
LEMMA OnwardDisconnect ==
    ASSUME IInv, TInv, GInv, Disconnect
    PROVE  GInv' /\ \A i \in Instance : Onward(i)
  <1>. USE DEF GInv
  <1>1. UNCHANGED <<published, created, event, timer, replaced, contended>>
    BY DEF Disconnect, debouncer, history
  <1>2. \A i, t : (HasGone(i, t)' <=> HasGone(i, t)) /\ (Orderly(i)' <=> Orderly(i))
    BY <1>1 DEF HasGone, Orderly, InTime
  <1>3. PICK n \in [Instance -> 0..MaxTimers] :
          \A i \in Instance :
             /\ n[i] \in Nat /\ Len(held[i]) \in Nat /\ n[i] <= Len(held[i])
             /\ Len(held'[i]) = Len(held[i]) - n[i]
             /\ \A k \in 1..(Len(held[i]) - n[i]) :
                  n[i] + k \in 1..Len(held[i]) /\ held'[i][k] = held[i][n[i] + k]
    BY Dropped
  <1>4. Gone'
    BY <1>1, <1>2, <1>3 DEF Gone
  <1>5. Kept'
    <2>. SUFFICES ASSUME NEW i \in Instance, Orderly(i)
                  PROVE  /\ \A k, m \in 1..Len(held'[i]) : k < m => held'[i][k] < held'[i][m]
                         /\ \A k \in 1..Len(published'[i]), m \in 1..Len(held'[i]) :
                              published'[i][k] < held'[i][m]
      BY <1>2 DEF Kept
    <2>1. ASSUME NEW k \in 1..Len(held'[i]), NEW m \in 1..Len(held'[i]), k < m
          PROVE  held'[i][k] < held'[i][m]
      <3>1. /\ n[i] + k < n[i] + m
            /\ n[i] + k \in 1..Len(held[i]) /\ held'[i][k] = held[i][n[i] + k]
            /\ n[i] + m \in 1..Len(held[i]) /\ held'[i][m] = held[i][n[i] + m]
        BY <1>3, <2>1
      <3>. QED  BY <3>1 DEF Kept
    <2>2. ASSUME NEW k \in 1..Len(published'[i]), NEW m \in 1..Len(held'[i])
          PROVE  published'[i][k] < held'[i][m]
      <3>1. n[i] + m \in 1..Len(held[i]) /\ held'[i][m] = held[i][n[i] + m]
        BY <1>3
      <3>. QED  BY <1>1, <3>1 DEF Kept
    <2>. QED  BY <2>1, <2>2
  <1>6. \A i \in Instance : Onward(i)
    <2>1. \A i \in Instance : \A m \in 1..Len(published[i]) : ~(m > Len(published[i]))
      BY LenProperties DEF IInv, TypeOK
    <2>. QED  BY <1>1, <2>1 DEF Onward
  <1>. QED  BY <1>4, <1>5, <1>6

LEMMA NextOnward ==
    ASSUME IInv, TInv, GInv, [Next]_vars
    PROVE  GInv' /\ \A i \in Instance : Onward(i)
  <1>1. CASE \E t \in 1..MaxTimers : PublishOk(t)
    BY <1>1, OnwardOk
  <1>2. CASE Disconnect \/ \E i \in Instance : Deliver(i)
    BY <1>2, OnwardDisconnect, OnwardDeliver
  <1>3. CASE UNCHANGED <<published, held>>
    BY <1>3, OnwardOthers
  <1>4. CASE Restart
    <2>1. UNCHANGED published /\ \A i \in Instance : Len(held'[i]) = 0
      BY <1>4 DEF Restart, NothingHeld
    <2>2. Gone'
      <3>1. \A i, t : HasGone(i, t) => HasGone(i, t)'
        BY DoneStays DEF HasGone
      <3>. QED  BY <2>1, <3>1 DEF GInv, Gone
    <2>3. Kept'
      BY <2>1 DEF Kept
    <2>4. \A i \in Instance : Onward(i)
      <3>1. \A i \in Instance : \A m \in 1..Len(published[i]) : ~(m > Len(published[i]))
        BY LenProperties DEF IInv, TypeOK
      <3>. QED  BY <2>1, <3>1 DEF Onward
    <2>. QED  BY <2>2, <2>3, <2>4 DEF GInv
  <1>. QED
    BY <1>1, <1>2, <1>3, <1>4 DEF Next, DeployChange, Resync, PodChange, Observe, Handlers,
      HandleDeploy, DeploySubmit, HandlePod, LookupPod, PodSubmit, SubmitFrom, Elapse,
      Publishing, Callback, PublishFail, Reconnect, CancelContext, StopBegin, StopEnd,
      ShutdownEnd, Waiting, publisher, nats, vars

\* NATS is given the events of an instance once each, in the order in which the
\* debouncer accepted them, whatever attempts fail, outages and restarts come between,
\* unless a timer was stopped too late or two publishes overlapped
\* (debouncer.go:38-54, monitor.go:190-215).
THEOREM ToldInOrder == Spec => DeliveredInOrder
  <1>1. Init => GInv
    BY DEF Init, NothingHeld, GInv, Gone, Kept
  <1>2. IInv /\ TInv /\ GInv /\ [Next]_vars => GInv'
    BY NextOnward
  <1>3. IInv /\ TInv /\ GInv /\ [Next]_vars => [\A i \in Instance : Onward(i)]_vars
    BY NextOnward
  <1>4. [\A i \in Instance : Onward(i)]_vars
          => [\A i \in Instance : Orderly(i) =>
                \A k, m \in 1..Len(published'[i]) :
                  k < m /\ m > Len(published[i]) => published'[i][k] < published'[i][m]]_vars
    BY DEF Onward
  <1>. QED
    BY <1>1, <1>2, <1>3, <1>4, Invariance, TInvariance, PTL DEF Spec, DeliveredInOrder
=============================================================================
