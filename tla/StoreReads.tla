----------------------------- MODULE StoreReads -----------------------------
(***************************************************************************)
(* K8sContainerStore's Get and List (store.go, store_get.go,               *)
(* store_list.go) in a cluster that changes between their calls: one       *)
(* client asks for one container, or lists all of them page by page.  A    *)
(* container is read in three calls, its Deployment first, then its Pods,  *)
(* then its Services; each call is one action.                             *)
(*                                                                         *)
(* Objects are named by numbers in the order in which List sorts them.  A  *)
(* name is used once (GenerateName).  n is the Deployment, the Service and *)
(* the container they are made for.                                        *)
(***************************************************************************)
EXTENDS ContainerView, StatusMapping

CONSTANTS
    Name,           \* the containers of a behaviour, natural numbers above 0
    InstanceId,     \* InstanceId[n]: the instance id asked for container n
    Asked,          \* Asked[n]: the specs that may be asked for container n
    Pod,            \* as many Pods as exist at a time, natural numbers
    Phases,         \* the phases a Pod may be in
    DeployFacts,    \* sets of what the code reads in a Deployment's status
    PageSizes,      \* values of max_page_size; 0 when the client gives none
    MaxChanges      \* bound: steps of the cluster and failed calls

ASSUME NameAssumption ==
    /\ Name \subseteq Nat \ {0} /\ IsFiniteSet(Name)
    /\ Pod \subseteq Nat /\ IsFiniteSet(Pod)
ASSUME SizesAssumption == PageSizes \subseteq Int
ASSUME AskedAssumption == \A n \in Name : \A s \in Asked[n] : IsContainerSpec(s)
ASSUME PhasesAssumption == Phases \subseteq Phase
ASSUME ChangesAssumption == MaxChanges \in Nat

Fact == {"behind", "unavailable", "zero", "replicaFailure"}
ASSUME FactsAssumption == DeployFacts \subseteq SUBSET Fact /\ {} \in DeployFacts

VARIABLES
    deployments,    \* cluster: the Deployments that exist
    services,       \* cluster: the Services that exist
    creating,       \* containers whose Create found no Deployment of their id
                    \* and has yet to make its own
    pending,        \* containers whose Create has yet to make the Service
    made,           \* containers whose Deployment was ever made
    spec,           \* spec[n]: the spec of container n
    facts,          \* facts[n]: status of Deployment n, one of DeployFacts
    pods,           \* pods[p]: the Pod's container (0: no such Pod), its
                    \* phase and the second in which it was created
    before,         \* history: before[n], the Deployments of container n's id
                    \* that were made before its Create looked for one
    op,             \* "get" or "list"
    pc,             \* the next call
    want,           \* the id Get was asked for
    size,           \* the page size List was asked for
    offset,         \* the offset in the page token
    page,           \* the Deployments of the page still to be built, as listed
    built,          \* the names on the page so far
    token,          \* the next page token's offset, or 0 for no token
    view,           \* the container built last
    answer,         \* the HTTP status, or 0
    told,           \* history: names on the pages answered so far
    seen,           \* history: Deployments in the last listing
    lost,           \* history: Deployments gone between two listings
    added,          \* history: Deployments new between two listings
    monitorSays,    \* history: the monitor's status when the Pods were listed
    changes         \* how much of MaxChanges is used up

cluster ==
    <<deployments, services, creating, pending, made, spec, facts, pods, before>>
reader == <<op, pc, want, size, offset, page, built, token, view, answer>>
history == <<told, seen, lost, added, monitorSays>>
vars == <<cluster, reader, history, changes>>

NoView == [name |-> 0]
NoPod == [of |-> 0, phase |-> None, born |-> 0]

NoSpec == [ports |-> <<>>]

\* What CreateContainer lets pass.
AcceptedSpecs(n) == {s \in Asked[n] : Accepted(s, InstanceId[n])}

exposed(n) == portsWithVisibility(spec[n]) # {}
labelsOf(n) == mergeLabels(dcmLabels(InstanceId[n]), spec[n].labels)

\* The objects of a kind that a label selector selects.
Selected(objects, selector) == {n \in objects : Selects(selector, labelsOf(n))}
PodsSelected(selector) ==
    {p \in Pod : pods[p].of # 0 /\ Selects(selector, labelsOf(pods[p].of))}

TypeOK ==
    /\ deployments \subseteq made /\ services \subseteq made /\ made \subseteq Name
    /\ creating \subseteq Name \ made /\ pending \subseteq made \ services
    /\ before \in [Name -> SUBSET made]
    /\ DOMAIN spec = Name /\ \A n \in Name : spec[n] \in Asked[n] \cup {NoSpec}
    /\ facts \in [Name -> DeployFacts]
    /\ pods \in [Pod -> [of : made, phase : Phases, born : 0..MaxChanges] \cup {NoPod}]
    /\ op \in {"none", "get", "list"}
    /\ pc \in {"idle", "find", "list", "pods", "services", "answered"}
    /\ size \in PageSizes /\ offset \in Nat /\ token \in Nat
    /\ page \in Seq([name : Name, facts : DeployFacts])
    /\ built \in Seq(Name) /\ told \in Seq(Name)
    /\ pc \in {"pods", "services"} => page # <<>>
    /\ view = NoView \/ view.status \in ContainerStatus \cup {None}
    /\ answer \in {0, 200, 404, 500}
    /\ seen \subseteq Name /\ lost \subseteq Name /\ added \subseteq Name
    /\ changes \in 0..MaxChanges

\* Containers that were made and settled before the client came, and Creates of
\* other ids that are on their way.
Init ==
    /\ made \in SUBSET Name
    /\ \A m, n \in made : m # n => InstanceId[m] # InstanceId[n]
    /\ deployments = made
    /\ spec \in [Name -> {NoSpec} \cup UNION {Asked[n] : n \in Name}]
    /\ \A n \in Name :
         spec[n] \in (IF n \in made THEN AcceptedSpecs(n) ELSE {NoSpec})
    /\ services = {n \in made : exposed(n)}
    /\ creating \in SUBSET {n \in Name : \A m \in made : InstanceId[m] # InstanceId[n]}
    /\ pending = {} /\ before = [n \in Name |-> {}]
    /\ facts = [n \in Name |-> {}]
    /\ pods = [p \in Pod |-> NoPod]
    /\ op = "none" /\ pc = "idle" /\ want = "none" /\ answer = 0
    /\ size \in PageSizes
    /\ offset = 0 /\ token = 0 /\ page = <<>> /\ built = <<>> /\ view = NoView
    /\ told = <<>> /\ seen = {} /\ lost = {} /\ added = {} /\ monitorSays = None
    /\ changes = 0

-----------------------------------------------------------------------------
(* The cluster, and the other requests' writes to it.                      *)

Change ==
    /\ changes < MaxChanges
    /\ changes' = changes + 1
    /\ UNCHANGED <<reader, history>>

\* A Create that is accepted looks for a Deployment of its id and goes on if
\* there is none.
CheckId(n) ==
    /\ Change
    /\ n \notin made \cup creating
    /\ Selected(deployments, instanceSelector(InstanceId[n])) = {}
    /\ creating' = creating \cup {n}
    /\ before' = [before EXCEPT ![n] = {m \in made : InstanceId[m] = InstanceId[n]}]
    /\ UNCHANGED <<deployments, services, pending, made, spec, facts, pods>>

\* It then makes its own, whatever another Create of the id has made meanwhile.
CreateDeployment(n) ==
    /\ Change
    /\ n \in creating
    /\ creating' = creating \ {n}
    /\ made' = made \cup {n}
    /\ deployments' = deployments \cup {n}
    /\ \E s \in AcceptedSpecs(n) :
         /\ spec' = [spec EXCEPT ![n] = s]
         /\ pending' = IF portsWithVisibility(s) # {} THEN pending \cup {n} ELSE pending
    /\ UNCHANGED <<services, facts, pods, before>>

\* Its Service follows, whatever became of the Deployment meanwhile.
CreateService(n) ==
    /\ Change
    /\ n \in pending
    /\ pending' = pending \ {n}
    /\ services' = services \cup {n}
    /\ UNCHANGED <<deployments, creating, made, spec, facts, pods, before>>

\* A Delete removes the Services that it finds and then the Deployments, one of
\* which may have got its Service in between; the rollback of a Create removes
\* the Deployment alone.
DeleteService(n) ==
    /\ Change
    /\ n \in services
    /\ services' = services \ {n}
    /\ UNCHANGED <<deployments, creating, pending, made, spec, facts, pods, before>>

DeleteDeployment(n) ==
    /\ Change
    /\ n \in deployments
    /\ deployments' = deployments \ {n}
    /\ UNCHANGED <<services, creating, pending, made, spec, facts, pods, before>>

\* The Deployment's controller, or somebody who scales it, changes its status.
DeploymentChange(n) ==
    /\ Change
    /\ n \in deployments
    /\ facts' \in {[facts EXCEPT ![n] = f] : f \in DeployFacts \ {facts[n]}}
    /\ UNCHANGED <<deployments, services, creating, pending, made, spec, pods, before>>

Latest == LET born == {pods[p].born : p \in Pod}
          IN CHOOSE b \in born : \A c \in born : c <= b

\* Pods appear one after the other, two of them perhaps in the same second.
PodCreated(p, n) ==
    /\ Change
    /\ pods[p].of = 0 /\ n \in deployments
    /\ \A q \in Pod : q < p => pods[q].of # 0
    /\ \E phase \in Phases, born \in {Latest, Latest + 1} :
         pods' = [pods EXCEPT ![p] = [of |-> n, phase |-> phase, born |-> born]]
    /\ UNCHANGED <<deployments, services, creating, pending, made, spec, facts, before>>

PodChange(p) ==
    /\ Change
    /\ pods[p].of # 0
    /\ \E phase \in Phases \ {pods[p].phase} :
         pods' = [pods EXCEPT ![p].phase = phase]
    /\ UNCHANGED <<deployments, services, creating, pending, made, spec, facts, before>>

\* A Pod goes away some time after its Deployment, or is replaced.
PodGone(p) ==
    /\ Change
    /\ pods[p].of # 0
    /\ pods' = [pods EXCEPT ![p] = NoPod]
    /\ UNCHANGED <<deployments, services, creating, pending, made, spec, facts, before>>

-----------------------------------------------------------------------------
(* Calls of a request.                                                     *)

Reply(status) ==
    /\ pc' = "answered"
    /\ answer' = status

Quietly == UNCHANGED <<cluster, changes>>

\* The API server, the network or the request's timeout fails a call.
CallFails ==
    /\ pc \in {"find", "list", "pods", "services"}
    /\ changes < MaxChanges
    /\ changes' = changes + 1
    /\ Reply(500)
    /\ page' = <<>> /\ built' = <<>>
    /\ UNCHANGED <<cluster, op, want, size, offset, token, view, history>>

\* A client asks for one container.
Get(i) ==
    /\ pc = "idle"
    /\ op' = "get" /\ want' = i /\ pc' = "find"
    /\ Quietly /\ UNCHANGED <<size, offset, page, built, token, view, answer, history>>

\* A client asks for the first page.
List ==
    /\ pc = "idle"
    /\ op' = "list" /\ pc' = "list"
    /\ Quietly /\ UNCHANGED <<want, size, offset, page, built, token, view, answer, history>>

\* findDeployment: exactly one Deployment of the id, or 404, or 500.
FindDeployment ==
    /\ pc = "find"
    /\ LET hits == Selected(deployments, instanceSelector(want)) IN
         IF Cardinality(hits) = 1
         THEN /\ \E n \in hits : page' = <<[name |-> n, facts |-> facts[n]]>>
              /\ pc' = "pods" /\ UNCHANGED answer
         ELSE /\ Reply(IF hits = {} THEN 404 ELSE 500)
              /\ UNCHANGED page
    /\ Quietly /\ UNCHANGED <<op, want, size, offset, built, token, view, history>>

defaultPageSize == 50

Smaller(m, n) == IF m < n THEN m ELSE n

\* Mutants of nextToken: one off, either way.
nextTokenLate(end, total) == IF end < total THEN end + 1 ELSE 0
nextTokenEarly(end, total) == IF end < total THEN end - 1 ELSE 0

\* The offset of the next page, when something is left for it.
nextToken(end, total) == IF end < total THEN end ELSE 0

\* In the order of their names: the k-th is the one up to which there are k.
sortedByName(names) ==
    [k \in 1..Cardinality(names) |->
        CHOOSE n \in names : Cardinality({m \in names : m <= n}) = k]

\* Lists all Deployments of the provider, sorts them by name and cuts the page
\* out.  The histories start anew as long as no page was answered.
ListDeployments ==
    /\ pc = "list"
    /\ LET now == Selected(deployments, dcmSelector)
           sorted == sortedByName(now)
           total == Cardinality(now)
           from == Smaller(offset, total)
           limit == Smaller(IF size <= 0 THEN defaultPageSize ELSE size, total - from)
       IN /\ page' = [k \in 1..limit |->
                        [name |-> sorted[from + k], facts |-> facts[sorted[from + k]]]]
          /\ token' = nextToken(from + limit, total)
          /\ IF limit = 0 THEN Reply(200) ELSE pc' = "pods" /\ UNCHANGED answer
          /\ seen' = now
          /\ lost' = IF told = <<>> THEN {} ELSE lost \cup (seen \ now)
          /\ added' = IF told = <<>> THEN {} ELSE added \cup (now \ seen)
    /\ built' = <<>>
    /\ Quietly /\ UNCHANGED <<op, want, size, offset, view, told, monitorSays>>

isRollingUpdate(status) == status \cap {"behind", "unavailable"} # {}

\* A running Pod, or else the newest; of two of one second, either.
selectActivePod(ps) ==
    LET running == {p \in ps : pods[p].phase = "Running"}
        newest == {p \in ps : \A q \in ps : pods[q].born <= pods[p].born}
    IN IF running # {} THEN running ELSE newest

\* What the monitor may say of an id and its Pods at an instant: it takes the
\* status of one Deployment of the id, of several any.
deployStatus(d) ==
    IF "zero" \in facts[d] THEN "zero"
    ELSE IF "replicaFailure" \in facts[d] THEN "replicaFailure"
    ELSE "ok"
MonitorStatuses(id, ps) ==
    LET found == {deployStatus(d) : d \in Selected(deployments, instanceSelector(id))}
    IN {ReconcileStatus(deploy, WorstPhase({pods[p].phase : p \in ps})) :
            deploy \in (IF found = {} THEN {None} ELSE found)}

\* Rebuilds the container from its Deployment and reads its status off the Pods
\* that carry its id.  Without a Pod it is PENDING; several Pods are a conflict
\* unless they are two and the Deployment, as it was listed, is rolling out.
ListPods ==
    /\ pc = "pods"
    /\ LET n == Head(page).name
           ps == PodsSelected(instanceSelector(InstanceId[n]))
           Shown(status, of) ==
               view' = [name |-> n, status |-> status, podOf |-> of, done |-> FALSE,
                        serviceOf |-> 0, pods |-> Cardinality(ps),
                        spec |-> containerFromDeployment(buildDeployment(spec[n], InstanceId[n]))]
       IN /\ \/ /\ ps = {}
                /\ Shown("PENDING", 0)
                /\ pc' = "services" /\ UNCHANGED answer
             \/ /\ Cardinality(ps) \in (IF isRollingUpdate(Head(page).facts) THEN {1, 2} ELSE {1})
                /\ \E p \in selectActivePod(ps) :
                     Shown(MapPodPhaseToStatus(pods[p].phase), pods[p].of)
                /\ pc' = "services" /\ UNCHANGED answer
             \/ /\ Cardinality(ps) > (IF isRollingUpdate(Head(page).facts) THEN 2 ELSE 1)
                /\ Reply(500) /\ UNCHANGED view
          /\ monitorSays' \in MonitorStatuses(InstanceId[n], ps)
    /\ Quietly /\ UNCHANGED <<op, want, size, offset, page, built, token, told, seen, lost, added>>

\* Adds what the one Service of the id tells; none or several tell nothing.
\* Then comes the next container of the page, or the answer.
ListServices ==
    /\ pc = "services"
    /\ LET n == Head(page).name
           svcs == Selected(services, instanceSelector(InstanceId[n]))
       IN view' =
            IF Cardinality(svcs) = 1
            THEN LET s == CHOOSE m \in svcs : TRUE IN
                 [view EXCEPT
                    !.done = TRUE, !.serviceOf = s,
                    !.spec = enrichWithService(@, buildService(spec[s], InstanceId[s]))]
            ELSE [view EXCEPT !.done = TRUE]
    /\ page' = Tail(page)
    /\ built' = Append(built, Head(page).name)
    /\ IF page' # <<>>
       THEN pc' = "pods" /\ UNCHANGED <<answer, told>>
       ELSE /\ Reply(200)
            /\ told' = IF op = "list" THEN told \o built' ELSE told
    /\ monitorSays' = None
    /\ Quietly /\ UNCHANGED <<op, want, size, offset, token, seen, lost, added>>

\* The client asks for the next page, or again for the page that failed.
NextPage ==
    /\ pc = "answered" /\ op = "list" /\ answer = 200 /\ token # 0
    /\ offset' = token /\ token' = 0
    /\ pc' = "list" /\ answer' = 0 /\ view' = NoView
    /\ Quietly /\ UNCHANGED <<op, want, size, page, built, history>>

Retry ==
    /\ pc = "answered" /\ op = "list" /\ answer = 500
    /\ token' = 0
    /\ pc' = "list" /\ answer' = 0 /\ view' = NoView
    /\ Quietly /\ UNCHANGED <<op, want, size, offset, page, built, history>>

\* The client has its answer, and the cluster may stay as it is.
Quiet ==
    /\ pc = "answered"
    /\ UNCHANGED vars

-----------------------------------------------------------------------------
ClusterStep ==
    \/ \E n \in Name :
         \/ CheckId(n) \/ CreateDeployment(n) \/ CreateService(n)
         \/ DeleteService(n) \/ DeleteDeployment(n) \/ DeploymentChange(n)
    \/ \E p \in Pod :
         PodChange(p) \/ PodGone(p) \/ \E n \in Name : PodCreated(p, n)

Call == FindDeployment \/ ListDeployments \/ ListPods \/ ListServices

Next ==
    \/ ClusterStep
    \/ \E n \in Name : Get(InstanceId[n])
    \/ List \/ Call \/ CallFails \/ NextPage \/ Retry \/ Quiet

Spec == Init /\ [][Next]_vars

-----------------------------------------------------------------------------
Names(s) == {s[k] : k \in DOMAIN s}
Finished == pc = "answered" /\ op = "list" /\ answer = 200 /\ token = 0

\* A traversal of all pages leaves out no more of the containers that were
\* there all the time than others were deleted between two pages: without a
\* deletion it is complete (the known limitation of store_list.go:19-24).
SkipsAtMostLost ==
    Finished =>
        Cardinality((seen \ added) \ Names(told)) <= Cardinality(lost)

\* It repeats no more containers than others were created between two pages
\* (the same limitation).
RepeatsAtMostAdded ==
    Finished =>
        Len(told) - Cardinality(Names(told)) <= Cardinality(added)

\* A token leads on: past what its page was cut from, to something that was there
\* when the page was.  So a client who follows tokens does not go in circles, and
\* in a list that stays the same no page is empty (store_list.go:83-86).
PagesAdvance ==
    token # 0 => token > offset /\ token < Cardinality(seen)

SameAmount(shown, asked) ==
    IF shown.unit = "raw"
    THEN shown.n = ConvertMemory(asked) /\ (shown.n % Pi = 0 \/ shown.n = MaxMemory)
    ELSE ConvertMemory(shown) = ConvertMemory(asked)

\* What was asked for reads back: labels, resources, process and ports, memory
\* as the same amount, in an API unit unless it is 0 or counts in Pi, and what is
\* beyond the range of a quantity as the largest one.  A port is
\* told with the visibility it was asked with, but as none while the Service is
\* not to be seen (a Create or a Delete is in between, or another Service
\* carries the id), as external beside an external one (convert.go:203-212), and
\* never as none when another port of its number has a visibility: a Service
\* knows its ports by their numbers, and validation.go lets the same one pass twice.
ReadsBack ==
    view # NoView /\ view.done =>
        LET s == spec[view.name]
            v == view.spec
            visible == portsWithVisibility(s)
        IN /\ v.labels = s.labels /\ v.cpu = s.cpu
           /\ \A b \in Bound : SameAmount(v.memory[b], s.memory[b])
           /\ v.process = (IF s.process = "given" THEN "given" ELSE "absent")
           /\ DOMAIN v.ports = DOMAIN s.ports
           /\ \A k \in DOMAIN s.ports :
                /\ v.ports[k].port = s.ports[k].port
                /\ LET w == s.ports[k].visibility
                       t == v.ports[k].visibility
                   IN \/ t = w
                      \/ view.serviceOf # view.name
                      \/ w = "internal" /\ t = "external" /\ hasExternalPort(visible)
                      \/ w = "none" /\ \E p \in visible : p.port = s.ports[k].port

\* An answer is of one id, and mixes two of its containers only if one of them is
\* gone, the Deployment that was read or the one that the Pod or the Service was
\* made for (store.go:79-120 reads them one by one), or if their Creates looked
\* for the id before either was made (store_create.go:58-73): never a container
\* with one that was there when its Create was let through.
OneContainer ==
    view # NoView =>
        \A m \in {view.podOf, view.serviceOf} \ {0, view.name} :
            /\ InstanceId[m] = InstanceId[view.name]
            /\ {m, view.name} \subseteq deployments =>
                 m \notin before[view.name] /\ view.name \notin before[m]

\* How concerning a status is, after podPhasePriority.
Concern(status) ==
    CASE status = "FAILED" -> 4
      [] status = "UNKNOWN" -> 3
      [] status = "PENDING" -> 2
      [] status = "RUNNING" -> 1
      [] OTHER -> 0

\* The API and the monitor derive a container's status from the same Pods on
\* paths of their own (store.go:87-106, reconcile.go:13).  At the instant the
\* Pods are listed they agree, but for a Deployment that is gone, for one
\* without Pods that has failed, which the API calls PENDING, and for two Pods
\* of a rollout, of which the API never tells the worse one if one is running.
AgreesWithMonitor ==
    pc = "services" /\ monitorSays # "DELETED" =>
        \/ view.status = monitorSays
        \/ view.pods = 0 /\ view.status = "PENDING" /\ monitorSays = "FAILED"
        \/ view.pods = 2 /\ Concern(view.status) < Concern(monitorSays)

\* Kubernetes refuses requests above the limits: no Deployment has them, in
\* whatever units they were asked for (SC-002).
Schedulable ==
    \A n \in deployments :
        LET d == buildDeployment(spec[n], InstanceId[n])
        IN d.cpu.min <= d.cpu.max /\ d.memory.min <= d.memory.max
=============================================================================
