--------------------------- MODULE StatusMonitor ---------------------------
(***************************************************************************)
(* The status monitor (internal/monitoring): a Deployment informer and a   *)
(* Pod informer, each with an indexed cache, a queue of notifications and  *)
(* one goroutine that runs the handlers; the debouncer they submit to; and *)
(* the publish callback with its retries, up to the NATS connection.       *)
(*                                                                         *)
(* The cluster itself is not a variable: each informer sees the changes of *)
(* its kind in order, with a lag of its own, so the changes are the steps  *)
(* in which they reach a cache, and the two kinds interleave at will.  A   *)
(* change that reaches a cache is queued for the handler in the same step  *)
(* (client-go updates the indexer and then distributes).                   *)
(*                                                                         *)
(* The service may die at any moment and be started again: it begins with  *)
(* empty caches, and what exists then is added to them.  The cluster goes  *)
(* on while it is down.  The subscribers keep what they were told.         *)
(*                                                                         *)
(* NATS's client takes an event into a buffer and writes it to the         *)
(* connection later (nats.go; publisher.go:65 neither flushes nor waits    *)
(* for an answer): what was written to a connection that then drops may    *)
(* be lost, and nobody learns of it.                                       *)
(***************************************************************************)
EXTENDS StatusMapping, Sequences

CONSTANTS
    Instance,       \* instance ids
    Copy,           \* names that tell the Deployments of one instance apart:
                    \* overlapping Creates leave several (ContainerStore)
    Replica,        \* names that tell the Pods of one instance apart
    PodPhases,      \* the phases Pods go through in a behaviour
    DeployStates,   \* the states Deployments go through
    NoEvent,        \* what an unused timer carries
    MaxAttempts,    \* maxAttempts of publishWithRetry
    MaxTimers,      \* bound: events the debouncer accepts
    MaxDisturbances \* bound: changes and resyncs that reach a cache, attempts to
                    \* publish that fail, outages of NATS, restarts and shutdowns,
                    \* together

ASSUME PhasesAssumption == PodPhases \subseteq Phase
ASSUME StatesAssumption == DeployStates \subseteq DeployState
ASSUME AttemptsAssumption == MaxAttempts \in Nat \ {0}
\* Every change makes at most one submission: the bound on the debouncer's
\* timers never holds a handler up.
ASSUME TimersSuffice ==
    MaxTimers \in Nat /\ MaxDisturbances \in Nat /\ MaxDisturbances <= MaxTimers

VARIABLES
    deployCache,    \* deployCache[d]: Deployment d in the Deployment indexer
    podCache,       \* podCache[p]: Pod p in the Pod indexer
    deployQ,        \* notifications for the Deployment handlers
    podQ,           \* notifications for the Pod handlers
    deployH,        \* the Deployment handler goroutine
    podH,           \* the Pod handler goroutine
    attempts,       \* attempts[t]: attempts to publish timer t's event that
                    \* failed in this life
    published,      \* published[i]: the timers whose events went to NATS
    linked,         \* the NATS connection is up
    held,           \* held[i]: the timers whose events NATS's client took and
                    \* NATS has not got yet
    ctxDone,        \* the context of Start is cancelled
    returned,       \* Start has returned
    disturbances,   \* how much of MaxDisturbances is used up
    seen,           \* history: instances of which this life had an object
    stale,          \* history: instances whose last submission did not say
                    \* what the caches said at that moment
    contended,      \* history: instances with two publishes under way at once
    lost,           \* history: timers whose events a dropped connection lost
                    \* in this life
    earlier         \* history: how many events earlier lives of the service
                    \* accepted

VARIABLES created, event, timer, timers, stopped, wg, stopPC, replaced

informers == <<deployCache, podCache, deployQ, podQ>>
debouncer == <<created, event, timer, timers, stopped, wg, stopPC, replaced>>
nats == <<published, linked, held, lost>>
publisher == <<attempts, nats>>
start == <<ctxDone, returned>>
history == <<seen, stale, contended, earlier>>
vars == <<informers, deployH, podH, publisher, start, disturbances, history,
          debouncer>>

Debounce == INSTANCE Debouncer WITH Status <- ContainerStatus

Deployment == Instance \X Copy
DeploymentsOf(i) == {d \in Deployment : d[1] = i}

Pod == Instance \X Replica
PodsOf(i) == {p \in Pod : p[1] = i}

Idle == [at |-> "idle"]

\* What a handler goroutine may be doing: idle; after the Deployment lookup of
\* handlePodDelete; or about to submit a status.
Handling ==
    {Idle}
    \cup [at: {"lookupPod"}, id: Instance, deploy: DeployStates \cup {None}]
    \cup [at: {"submit"}, id: Instance, status: ContainerStatus]

TypeOK ==
    /\ deployCache \in [Deployment -> DeployStates \cup {None}]
    /\ podCache \in [Pod -> PodPhases \cup {None}]
    /\ deployQ \in Seq([id: Instance, deploy: DeployStates \cup {None}])
    /\ podQ \in Seq([id: Instance, pod: PodPhases \cup {None}])
    /\ deployH \in Handling
    /\ podH \in Handling
    /\ attempts \in [1..MaxTimers -> 0..MaxAttempts]
    /\ published \in [Instance -> Seq(1..MaxTimers)]
    /\ ctxDone \in BOOLEAN /\ returned \in BOOLEAN
    /\ disturbances \in 0..MaxDisturbances
    /\ linked \in BOOLEAN
    /\ held \in [Instance -> Seq(1..MaxTimers)]
    /\ seen \in SUBSET Instance
    /\ stale \in SUBSET Instance
    /\ contended \in SUBSET Instance
    /\ lost \in SUBSET (1..MaxTimers)
    /\ earlier \in 0..MaxTimers
    /\ Debounce!TypeOK

NothingHeld == [i \in Instance |-> <<>>]
NoAttempts == [t \in 1..MaxTimers |-> 0]

Init ==
    /\ deployCache = [d \in Deployment |-> None]
    /\ podCache = [p \in Pod |-> None]
    /\ deployQ = <<>>
    /\ podQ = <<>>
    /\ deployH = Idle
    /\ podH = Idle
    /\ attempts = NoAttempts
    /\ published = [i \in Instance |-> <<>>]
    /\ ctxDone = FALSE /\ returned = FALSE
    /\ disturbances = 0
    /\ linked \in BOOLEAN
    /\ held = NothingHeld
    /\ seen = {}
    /\ stale = {}
    /\ contended = {}
    /\ lost = {} /\ earlier = 0
    /\ Debounce!Init

\* A step that the bound counts.
Disturb == disturbances < MaxDisturbances /\ disturbances' = disturbances + 1

-----------------------------------------------------------------------------
(* What reaches the caches.  None in a notification is a deletion.         *)

Observe ==
    /\ ~ctxDone
    /\ Disturb
    /\ UNCHANGED <<deployH, podH, publisher, start, stale, contended, earlier,
                   debouncer>>

\* A Deployment is added, updated or deleted.
DeployChange(d) ==
    /\ Observe
    /\ \E s \in (DeployStates \cup {None}) \ {deployCache[d]} :
         /\ deployCache' = [deployCache EXCEPT ![d] = s]
         /\ deployQ' = Append(deployQ, [id |-> d[1], deploy |-> s])
    /\ seen' = seen \cup {d[1]}
    /\ UNCHANGED <<podCache, podQ>>

\* A Pod is added, changes its phase or is deleted.  Kubernetes has no way out
\* of Succeeded and Failed but deletion.
NextPhases(f) ==
    IF f \in {"Succeeded", "Failed"} THEN {None} ELSE (PodPhases \cup {None}) \ {f}

PodChange(p) ==
    /\ Observe
    /\ \E f \in NextPhases(podCache[p]) :
         /\ podCache' = [podCache EXCEPT ![p] = f]
         /\ podQ' = Append(podQ, [id |-> p[1], pod |-> f])
    /\ seen' = seen \cup {p[1]}
    /\ UNCHANGED <<deployCache, deployQ>>

\* The resync period elapses: an update for an object that did not change.
Resync(i) ==
    /\ Observe
    /\ \/ /\ \E d \in DeploymentsOf(i) : deployCache[d] # None /\
               deployQ' = Append(deployQ, [id |-> i, deploy |-> deployCache[d]])
          /\ UNCHANGED podQ
       \/ /\ \E p \in PodsOf(i) : podCache[p] # None /\
               podQ' = Append(podQ, [id |-> i, pod |-> podCache[p]])
          /\ UNCHANGED deployQ
    /\ UNCHANGED <<deployCache, podCache, seen>>

-----------------------------------------------------------------------------
(* The handlers.  Each looks into the other informer's index first and     *)
(* submits afterwards, with no lock held over both.                        *)

\* The Deployments that the lookup may return: of several, the index gives any
\* first.
lookupDeployByIndex(i) ==
    LET found == {deployCache[d] : d \in DeploymentsOf(i)} \ {None}
    IN IF found = {} THEN {None} ELSE found

lookupPodByIndex(i) ==
    WorstPhase({podCache[p] : p \in {q \in PodsOf(i) : podCache[q] # None}})

\* What a handler does with the outcome of ReconcileStatus.
Decided(i, status) ==
    IF status = None THEN Idle ELSE [at |-> "submit", id |-> i, status |-> status]

\* handleDeployEvent and handleDeployDelete up to Submit.
HandleDeploy ==
    /\ deployH = Idle
    /\ deployQ # <<>>
    /\ LET n == Head(deployQ) IN
         deployH' = Decided(n.id, ReconcileStatus(n.deploy, lookupPodByIndex(n.id)))
    /\ deployQ' = Tail(deployQ)
    /\ UNCHANGED <<deployCache, podCache, podQ, podH, publisher, start,
                   disturbances, history, debouncer>>

\* handlePodEvent up to Submit: the Pod is the one of the notification.  For a
\* deletion, the first of the two lookups of handlePodDelete.
HandlePod ==
    /\ podH = Idle
    /\ podQ # <<>>
    /\ LET n == Head(podQ) IN
         \E deploy \in lookupDeployByIndex(n.id) :
            podH' = IF n.pod = None
                    THEN [at |-> "lookupPod", id |-> n.id, deploy |-> deploy]
                    ELSE Decided(n.id, ReconcileStatus(deploy, n.pod))
    /\ podQ' = Tail(podQ)
    /\ UNCHANGED <<deployCache, podCache, deployQ, deployH, publisher, start,
                   disturbances, history, debouncer>>

\* handlePodDelete's second lookup: is another Pod left?
LookupPod ==
    /\ podH.at = "lookupPod"
    /\ podH' = Decided(podH.id,
                       ReconcileStatus(podH.deploy, lookupPodByIndex(podH.id)))
    /\ UNCHANGED <<informers, deployH, publisher, start, disturbances,
                   history, debouncer>>

\* What the caches say of instance i: one status, or of several Deployments that
\* of any.
Truths(i) == {ReconcileStatus(d, lookupPodByIndex(i)) : d \in lookupDeployByIndex(i)}

SubmitFrom(h) ==
    /\ h.at = "submit"
    /\ Debounce!Submit([InstanceID |-> h.id, Status |-> h.status])
    /\ stale' = IF h.status \in Truths(h.id) THEN stale \ {h.id} ELSE stale \cup {h.id}
    /\ UNCHANGED <<informers, publisher, start, disturbances, seen, contended,
                   earlier>>

DeploySubmit == SubmitFrom(deployH) /\ deployH' = Idle /\ UNCHANGED podH
PodSubmit == SubmitFrom(podH) /\ podH' = Idle /\ UNCHANGED deployH

-----------------------------------------------------------------------------
(* The debouncer's timers and publishWithRetry.                            *)

Elapse(t) ==
    /\ Debounce!Elapse(t)
    /\ UNCHANGED <<informers, deployH, podH, publisher, start, disturbances,
                   history>>

InFlight(i) == {t \in 1..created : event[t].InstanceID = i /\ timer[t] = "publishing"}

Callback(t) ==
    /\ Debounce!Callback(t)
    /\ contended' = contended \cup
         {i \in Instance : ~stopped /\ event[t].InstanceID = i /\ InFlight(i) # {}}
    /\ UNCHANGED <<informers, deployH, podH, publisher, start, disturbances,
                   seen, stale, earlier>>

\* Mutant of PublishOk: the loop goes on after an attempt that succeeded.
PublishAgain(t) ==
    /\ timer[t] = "publishing"
    /\ \/ Debounce!PublishReturn(t)
       \/ UNCHANGED debouncer
    /\ held' = [held EXCEPT ![event[t].InstanceID] = Append(@, t)]
    /\ UNCHANGED <<informers, deployH, podH, attempts, published, linked, lost,
                   start, disturbances, history>>

\* An attempt succeeds: NATS's client has taken the event, with a connection or
\* without one, and publishWithRetry returns.
PublishOk(t) ==
    /\ Debounce!PublishReturn(t)
    /\ held' = [held EXCEPT ![event[t].InstanceID] = Append(@, t)]
    /\ UNCHANGED <<informers, deployH, podH, attempts, published, linked, lost,
                   start, disturbances, history>>

\* Mutant of PublishFail: there is no second attempt.
PublishFailOnce(t) ==
    /\ timer[t] = "publishing"
    /\ Disturb
    /\ attempts' = [attempts EXCEPT ![t] = @ + 1]
    /\ Debounce!PublishReturn(t)
    /\ UNCHANGED <<informers, deployH, podH, nats, start, history>>

\* An attempt fails: it is logged, and after the backoff there is another one,
\* unless it was the last or the context is cancelled during the backoff.
PublishFail(t) ==
    /\ timer[t] = "publishing"
    /\ Disturb
    /\ attempts' = [attempts EXCEPT ![t] = @ + 1]
    /\ \/ attempts[t] + 1 < MaxAttempts /\ UNCHANGED debouncer
       \/ attempts[t] + 1 = MaxAttempts /\ Debounce!PublishReturn(t)
       \/ ctxDone /\ attempts[t] + 1 < MaxAttempts /\ Debounce!PublishReturn(t)
    /\ UNCHANGED <<informers, deployH, podH, nats, start, history>>

-----------------------------------------------------------------------------
(* The NATS connection, which need not be up when the service starts       *)
(* (RetryOnFailedConnect) and comes back however often it is lost.         *)

\* What the client took first reaches NATS first.
Deliver(i) ==
    /\ linked
    /\ held[i] # <<>>
    /\ published' = [published EXCEPT ![i] = Append(@, Head(held[i]))]
    /\ held' = [held EXCEPT ![i] = Tail(@)]
    /\ UNCHANGED <<informers, deployH, podH, attempts, linked, lost, start,
                   disturbances, history, debouncer>>

\* The connection drops.  Of each instance the first n[i] events were written to it
\* and are gone; the client keeps the rest for the next connection.
Disconnect ==
    /\ linked
    /\ Disturb
    /\ linked' = FALSE
    /\ \E n \in [Instance -> 0..MaxTimers] :
         /\ \A i \in Instance : n[i] <= Len(held[i])
         /\ held' = [i \in Instance |-> SubSeq(held[i], n[i] + 1, Len(held[i]))]
         /\ lost' = lost \cup UNION {{held[i][k] : k \in 1..n[i]} : i \in Instance}
    /\ UNCHANGED <<informers, deployH, podH, attempts, published, start, history,
                   debouncer>>

Reconnect ==
    /\ ~linked
    /\ linked' = TRUE
    /\ UNCHANGED <<informers, deployH, podH, attempts, published, held, lost, start,
                   disturbances, history, debouncer>>

-----------------------------------------------------------------------------
(* Shutdown: the context is cancelled, and Start returns through its       *)
(* deferred calls: debouncer.Stop, then factory.Shutdown, which waits for  *)
(* the informers and so for the handlers that they run.                    *)

CancelContext ==
    /\ ~ctxDone
    /\ Disturb
    /\ ctxDone' = TRUE
    /\ UNCHANGED <<informers, deployH, podH, publisher, returned, history,
                   debouncer>>

StopBegin ==
    /\ ctxDone
    /\ Debounce!StopBegin
    /\ UNCHANGED <<informers, deployH, podH, publisher, start, disturbances,
                   history>>

StopEnd ==
    /\ Debounce!StopEnd
    /\ UNCHANGED <<informers, deployH, podH, publisher, start, disturbances,
                   history>>

\* factory.Shutdown returns, and Start with it: no handler runs any more, and the
\* notifications that no handler took are dropped.
ShutdownEnd ==
    /\ stopPC = "returned" /\ deployH = Idle /\ podH = Idle
    /\ ~returned /\ returned' = TRUE
    /\ deployQ' = <<>> /\ podQ' = <<>>
    /\ UNCHANGED <<deployCache, podCache, deployH, podH, publisher, ctxDone,
                   disturbances, history, debouncer>>

\* The process dies, or has ended, and is started again: all that it had in
\* memory is gone.  Timers are still named by the order of all events.
Restart ==
    /\ Disturb
    /\ deployCache' = [d \in Deployment |-> None]
    /\ podCache' = [p \in Pod |-> None]
    /\ deployQ' = <<>> /\ podQ' = <<>>
    /\ deployH' = Idle /\ podH' = Idle
    /\ attempts' = NoAttempts
    /\ linked' \in BOOLEAN /\ held' = NothingHeld /\ lost' = {}
    /\ ctxDone' = FALSE /\ returned' = FALSE
    /\ timer' = [t \in 1..MaxTimers |->
           IF timer[t] \in {"pending", "fired", "publishing"} THEN "cancelled"
           ELSE timer[t]]
    /\ timers' = [i \in Instance |-> Debounce!NoTimer]
    /\ stopped' = FALSE /\ wg' = 0 /\ stopPC' = "running" /\ replaced' = {}
    /\ seen' = {} /\ stale' = {} /\ contended' = {}
    /\ earlier' = created
    /\ UNCHANGED <<published, created, event>>

\* Nothing of instance i is queued, being handled, debounced, published or kept.
Settled(i) ==
    /\ \A k \in 1..Len(deployQ) : deployQ[k].id # i
    /\ \A k \in 1..Len(podQ) : podQ[k].id # i
    /\ deployH = Idle /\ podH = Idle
    /\ \A t \in 1..created :
         event[t].InstanceID = i => timer[t] \notin {"pending", "fired", "publishing"}
    /\ held[i] = <<>>

\* Start has returned, or its goroutines wait for what comes next.
Waiting ==
    /\ returned \/ (~ctxDone /\ linked /\ \A i \in Instance : Settled(i))
    /\ UNCHANGED vars

Handlers == HandleDeploy \/ DeploySubmit \/ HandlePod \/ LookupPod \/ PodSubmit
Publishing(t) == Callback(t) \/ PublishOk(t) \/ PublishFail(t)

Next ==
    \/ \E d \in Deployment : DeployChange(d)
    \/ \E i \in Instance : Resync(i) \/ Deliver(i)
    \/ \E p \in Pod : PodChange(p)
    \/ Handlers
    \/ \E t \in 1..MaxTimers : Elapse(t) \/ Publishing(t)
    \/ Disconnect \/ Reconnect \/ Restart
    \/ CancelContext \/ StopBegin \/ StopEnd \/ ShutdownEnd
    \/ Waiting

Spec == Init /\ [][Next]_vars

\* Handler goroutines, the runtime's timers and the publish callbacks run when
\* they can; so does Start's way out once its context is cancelled.  The connection
\* is tried again without end (MaxReconnects(-1)), NATS comes back, and the client's
\* flusher writes what it keeps.
Fairness ==
    /\ WF_vars(HandleDeploy \/ DeploySubmit)
    /\ WF_vars(HandlePod \/ LookupPod \/ PodSubmit)
    /\ \A t \in 1..MaxTimers : WF_vars(Elapse(t) \/ Publishing(t))
    /\ WF_vars(StopBegin) /\ WF_vars(StopEnd) /\ WF_vars(ShutdownEnd)
    /\ WF_vars(Reconnect) /\ \A i \in Instance : WF_vars(Deliver(i))

FairSpec == Spec /\ Fairness

-----------------------------------------------------------------------------
LastPublished(i) ==
    IF published[i] = <<>> THEN None
    ELSE event[published[i][Len(published[i])]].Status

\* No timer of instance i was stopped too late.
InTime(i) == \A t \in replaced : event[t].InstanceID = i => timer[t] = "cancelled"

\* Nor were two of its publishes under way at once.
Orderly(i) == InTime(i) /\ i \notin contended

\* No later event of its instance was accepted.
Newest(t) == \A u \in 1..created : event[u].InstanceID = event[t].InstanceID => u <= t

\* The newest event of this life was given up after the last attempt, or lost with
\* a connection.
Failed(i) ==
    \E t \in 1..created :
        /\ t > earlier /\ event[t].InstanceID = i /\ Newest(t)
        /\ attempts[t] = MaxAttempts \/ t \in lost

\* Nothing was in the way of the newest event of instance i after its Submit: no
\* shutdown, no late stop of a timer, no overlapping publishes, no loss.
Undisturbed(i) == ~ctxDone /\ Orderly(i) /\ ~Failed(i)

NoSuccess(i) == \A p \in PodsOf(i) : podCache[p] # "Succeeded"

\* What NATS was told last is what the caches say, once everything has settled:
\* from an event in either informer to NATS nothing is overtaken, and nothing but
\* the newest event's last failed attempt or a connection that drops loses the last
\* word.  Failed attempts before the last, an outage that the event waits out in
\* the client and a restart of the service do no harm.  In particular an instance
\* that is gone was reported DELETED, unless this life of the service never saw it:
\* what disappears while the service is down is never reported (monitor.go:103, the
\* informers start from what exists).  The last submission must not come from
\* lookups that were out of date, or of a Deployment's deletion that leaves another
\* (handleDeployDelete does not look for one), and an event of a Pod that succeeded
\* has no status of its own.
ToldTheTruth ==
    \A i \in seen \ stale :
        Settled(i) /\ Undisturbed(i) /\ NoSuccess(i) => LastPublished(i) \in Truths(i)

\* The events of an instance reach NATS once each and in the order in which the
\* debouncer accepted them, through failed attempts, outages and restarts, also
\* while the service is shut down, unless a timer of the instance was stopped too
\* late or two of its publishes overlapped: publishFn runs without the mutex
\* (debouncer.go:44-54, monitor.go:190-215).
DeliveredInOrder ==
    [][\A i \in Instance : Orderly(i) =>
           \A k, m \in 1..Len(published'[i]) :
               k < m /\ m > Len(published[i]) => published'[i][k] < published'[i][m]]_vars

\* When neither a Deployment nor a Pod of a tracked instance exists, the status
\* is DELETED (REQ-MON-070, AC-MON-070).
GoneIsDeleted ==
    \A i \in seen :
        Settled(i) /\ Undisturbed(i) /\ published[i] # <<>>
        /\ lookupDeployByIndex(i) = {None} /\ lookupPodByIndex(i) = None
            => LastPublished(i) = "DELETED"

\* With several Pods the most concerning phase takes precedence (REQ-MON-050,
\* AC-MON-051): a status the Pod handler is about to submit, when no other Pod
\* notification waits, is that of the worst Pod in the index.
WorstPodDecides ==
    ~ctxDone /\ podH.at = "submit" /\ podQ = <<>> /\ lookupPodByIndex(podH.id) # None =>
        podH.status = MapPodPhaseToStatus(lookupPodByIndex(podH.id))

\* Every Deployment that the cache shows is reported in this life of the service, as
\* REQ-MON-145 asks for the resources found at a start or a restart, unless the
\* monitor is shut down, the newest event of the instance was given up or lost, or
\* its Pod has a phase that has no status; failed attempts before the last and an
\* outage that the event waits out only delay it.
Reported ==
    \A i \in Instance : []<>(
        \/ lookupDeployByIndex(i) = {None}
        \/ \E k \in 1..Len(published[i]) : published[i][k] > earlier
        \/ ctxDone
        \/ Failed(i)
        \/ None \in Truths(i))

\* No event is given to NATS's client once Start has returned from debouncer.Stop,
\* whatever the handlers that still run submit: main may close the publisher.
Given ==
    {t \in 1..MaxTimers : \E i \in Instance :
        \/ \E k \in 1..Len(held[i]) : held[i][k] = t
        \/ \E k \in 1..Len(published[i]) : published[i][k] = t}

SilentAfterStop == [][stopPC = "returned" => Given' \subseteq Given]_vars

\* Start returns after its context is cancelled: debouncer.Stop does not wait for
\* callbacks that were stopped, nor for a publish beyond its attempts, and
\* factory.Shutdown not for a handler beyond its Submit, unless the process is
\* restarted first.
StartReturns == ctxDone ~> returned \/ ~ctxDone
=============================================================================
