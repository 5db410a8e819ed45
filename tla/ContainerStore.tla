-------------------------- MODULE ContainerStore --------------------------
(***************************************************************************)
(* K8sContainerStore (internal/kubernetes) behind its HTTP handlers        *)
(* (internal/handlers/container): Create, Delete and Get requests that run *)
(* at the same time against one namespace of the cluster.  The store keeps *)
(* no state of its own, so what a request does is the sequence of its      *)
(* calls to the Kubernetes API; one call is one action.  A call may        *)
(* succeed, fail without an effect, or fail although its write was sent:   *)
(* then the write has its effect before the error is reported, some time   *)
(* after it, or never.  A client may go away, which cancels the request's  *)
(* context, and the process may crash before, during and after any call.   *)
(*                                                                         *)
(* GenerateName makes the names of objects unique, so the Deployment and   *)
(* the Service that request r creates are both named r here.               *)
(***************************************************************************)
EXTENDS Naturals, FiniteSets

CONSTANTS
    Request,    \* the requests of a behaviour, each issued at most once
    Id,         \* instance ids a client may ask for
    NoId,       \* the id of a request that was not issued
    MaxFaults   \* bound: API faults, client cancellations and crashes

ASSUME NoIdAssumption == NoId \notin Id
ASSUME FaultsAssumption == MaxFaults \in Nat

VARIABLES
    op,             \* op[r]: the operation of request r
    id,             \* id[r]: its instance id
    exposed,        \* Create requests whose spec has a port that is not "none"
    pc,             \* pc[r]: the call request r makes next
    found,          \* found[r]: the Deployments findDeployment returned
    todo,           \* todo[r]: the listed Services Delete still has to delete
    answer,         \* answer[r]: the HTTP status r was answered with, or 0
    ctxDone,        \* requests whose context is cancelled
    deployments,    \* cluster: the Deployments that exist
    services,       \* cluster: the Services that exist
    late,           \* cluster: writes that were sent, whose call has failed, and
                    \* that may yet have their effect
    faults,         \* how much of MaxFaults is used up
    prior,          \* history: prior[r]: requests that were over when r began
    mishap,         \* history: requests with a call whose failure the code
                    \* can't undo: lost answer, failed cleanup call, crash
    belated         \* history: Creates whose Deployment was made after the
                    \* call that makes it had failed

request == <<op, id, exposed, prior>>
cluster == <<deployments, services, late, belated>>
vars == <<op, id, exposed, pc, found, todo, answer, ctxDone,
          deployments, services, late, faults, prior, mishap, belated>>

Operation == {"create", "delete", "get"}
Over == {"answered", "crashed"}
Calls == {"check", "deploy", "service", "rollback",
          "find", "listServices", "deleteService", "deleteDeploy",
          "listPods", "getService"}

\* The writes of the API, by what they do to the object of a name.
Write == {"createDeployment", "createService", "deleteDeployment", "deleteService"}

Active == {r \in Request : pc[r] \in Calls}

\* What a label selector on the instance id (dcm.InstanceSelector) selects.
WithId(objects, i) == {o \in objects : id[o] = i}

TypeOK ==
    /\ op \in [Request -> Operation \cup {"none"}]
    /\ id \in [Request -> Id \cup {NoId}]
    /\ exposed \in SUBSET Request
    /\ pc \in [Request -> Calls \cup Over \cup {"idle"}]
    /\ found \in [Request -> SUBSET Request]
    /\ todo \in [Request -> SUBSET Request]
    /\ answer \in [Request -> {0, 200, 201, 204, 404, 409, 500}]
    /\ ctxDone \in SUBSET Request
    /\ deployments \in SUBSET Request
    /\ services \in SUBSET Request
    /\ late \in SUBSET (Write \X Request)
    /\ faults \in 0..MaxFaults
    /\ prior \in [Request -> SUBSET Request]
    /\ mishap \in SUBSET Request
    /\ belated \in SUBSET Request

Init ==
    /\ op = [r \in Request |-> "none"]
    /\ id = [r \in Request |-> NoId]
    /\ exposed = {}
    /\ pc = [r \in Request |-> "idle"]
    /\ found = [r \in Request |-> {}]
    /\ todo = [r \in Request |-> {}]
    /\ answer = [r \in Request |-> 0]
    /\ ctxDone = {}
    /\ deployments = {}
    /\ services = {}
    /\ late = {}
    /\ faults = 0
    /\ prior = [r \in Request |-> {}]
    /\ mishap = {}
    /\ belated = {}

-----------------------------------------------------------------------------
(* Outcomes of an API call.                                                *)

\* A call under the request's context reaches the API server only while the
\* context is not cancelled.
ContextAlive(r) == r \notin ctxDone /\ UNCHANGED faults

\* A call that runs under context.WithoutCancel does not look at it.
Detached(r) == UNCHANGED faults

\* The API server or the network fails a call: it uses up one fault.
Fault ==
    /\ faults < MaxFaults
    /\ faults' = faults + 1

\* A call under the request's context ends with an error.
ContextOrFault(r) == Fault \/ (r \in ctxDone /\ UNCHANGED faults)

Goto(r, l) ==
    /\ pc' = [pc EXCEPT ![r] = l]
    /\ UNCHANGED answer

Answer(r, status) ==
    /\ pc' = [pc EXCEPT ![r] = "answered"]
    /\ answer' = [answer EXCEPT ![r] = status]

Blameless == UNCHANGED mishap
Blame(r) == mishap' = mishap \cup {r}

\* A failed call leaves its write on the way to the API server, or not.
Sent(write, object) == late' = late \cup {<<write, object>>}
NotSent == UNCHANGED late

\* A write whose call has failed has its effect.  Names are never used twice, and
\* to delete what is gone does nothing.
LateWrite(o) ==
    \/ /\ <<"createDeployment", o>> \in late
       /\ late' = late \ {<<"createDeployment", o>>}
       /\ deployments' = deployments \cup {o}
       /\ belated' = belated \cup {o}
       /\ UNCHANGED <<request, pc, found, todo, answer, ctxDone, services, faults, mishap>>
    \/ /\ <<"createService", o>> \in late
       /\ late' = late \ {<<"createService", o>>}
       /\ services' = services \cup {o}
       /\ UNCHANGED <<request, pc, found, todo, answer, ctxDone, deployments, faults,
                      mishap, belated>>
    \/ /\ <<"deleteDeployment", o>> \in late
       /\ late' = late \ {<<"deleteDeployment", o>>}
       /\ deployments' = deployments \ {o}
       /\ UNCHANGED <<request, pc, found, todo, answer, ctxDone, services, faults,
                      mishap, belated>>
    \/ /\ <<"deleteService", o>> \in late
       /\ late' = late \ {<<"deleteService", o>>}
       /\ services' = services \ {o}
       /\ UNCHANGED <<request, pc, found, todo, answer, ctxDone, deployments, faults,
                      mishap, belated>>

-----------------------------------------------------------------------------
(* A request arrives, its client goes away, the process crashes.           *)

Begin(r) ==
    /\ pc[r] = "idle"
    /\ \E o \in Operation, i \in Id :
         /\ op' = [op EXCEPT ![r] = o]
         /\ id' = [id EXCEPT ![r] = i]
         /\ IF o = "create" THEN exposed' \in {exposed, exposed \cup {r}}
                            ELSE UNCHANGED exposed
         /\ Goto(r, IF o = "create" THEN "check" ELSE "find")
    /\ prior' = [prior EXCEPT ![r] = {q \in Request : pc[q] \in Over}]
    /\ UNCHANGED <<found, todo, ctxDone, cluster, faults, mishap>>

\* The client disconnects or the request times out: the context is cancelled.
Cancel(r) ==
    /\ r \in Active \ ctxDone
    /\ Fault
    /\ ctxDone' = ctxDone \cup {r}
    /\ UNCHANGED <<request, pc, found, todo, answer, cluster, mishap>>

\* The writes request r may have sent last.
InFlight(r) ==
    {w \in Write \X Request :
        \/ w = <<"createDeployment", r>> /\ pc[r] = "deploy"
        \/ w = <<"createService", r>> /\ pc[r] = "service"
        \/ w = <<"deleteDeployment", r>> /\ pc[r] = "rollback"
        \/ w[1] = "deleteService" /\ w[2] \in todo[r] /\ pc[r] = "deleteService"
        \/ w[1] = "deleteDeployment" /\ w[2] \in found[r] /\ pc[r] = "deleteDeploy"}

\* The process dies and is restarted: requests in flight are gone, what they
\* did to the cluster stays, and a write that was sent may still have its
\* effect.  There is nothing else to recover.
Crash ==
    /\ Active # {}
    /\ Fault
    /\ \E sent \in SUBSET UNION {InFlight(r) : r \in Active} :
         /\ \A r \in Active : Cardinality(sent \cap InFlight(r)) <= 1
         /\ late' = late \cup sent
    /\ pc' = [r \in Request |-> IF r \in Active THEN "crashed" ELSE pc[r]]
    /\ mishap' = mishap \cup Active
    /\ UNCHANGED <<request, found, todo, answer, ctxDone, deployments, services, belated>>

-----------------------------------------------------------------------------
(* Create (store_create.go)                                                *)

\* Mutants of CheckDuplicate: it does not look at what it listed; a conflict is
\* answered like a request that is not valid.
CheckNothing(r) ==
    /\ pc[r] = "check"
    /\ ContextAlive(r)
    /\ Goto(r, "deploy")
    /\ UNCHANGED <<request, found, todo, ctxDone, cluster, mishap>>

CheckInvalid(r) ==
    /\ pc[r] = "check"
    /\ ContextAlive(r)
    /\ IF WithId(deployments, id[r]) # {} THEN Answer(r, 400) ELSE Goto(r, "deploy")
    /\ UNCHANGED <<request, found, todo, ctxDone, cluster, mishap>>

\* Lists the Deployments that carry the id; one that exists is a conflict.
CheckDuplicate(r) ==
    /\ pc[r] = "check"
    /\ \/ /\ ContextAlive(r)
          /\ IF WithId(deployments, id[r]) # {}
             THEN Answer(r, 409)
             ELSE Goto(r, "deploy")
       \/ ContextOrFault(r) /\ Answer(r, 500)
    /\ UNCHANGED <<request, found, todo, ctxDone, cluster, mishap>>

\* Creates the Deployment.  A collision of generated names is answered 409.  When
\* the POST was sent, an error says nothing of its effect: it is there, it comes
\* later, or it never comes.
CreateDeployment(r) ==
    /\ pc[r] = "deploy"
    /\ \/ /\ ContextAlive(r)
          /\ deployments' = deployments \cup {r}
          /\ IF r \in exposed THEN Goto(r, "service") ELSE Answer(r, 201)
          /\ Blameless /\ NotSent
       \/ Fault /\ Answer(r, 409) /\ Blameless /\ NotSent /\ UNCHANGED deployments
       \/ /\ ContextOrFault(r) /\ Answer(r, 500)
          /\ \/ Blameless /\ NotSent /\ UNCHANGED deployments
             \/ Blame(r) /\ NotSent /\ deployments' = deployments \cup {r}
             \/ Blame(r) /\ Sent("createDeployment", r) /\ UNCHANGED deployments
    /\ UNCHANGED <<request, found, todo, ctxDone, services, belated>>

\* Creates the Service; an error starts the rollback.
CreateService(r) ==
    /\ pc[r] = "service"
    /\ \/ /\ ContextAlive(r)
          /\ services' = services \cup {r}
          /\ Answer(r, 201) /\ Blameless /\ NotSent
       \/ /\ ContextOrFault(r) /\ Goto(r, "rollback") /\ UNCHANGED services
          /\ \/ Blameless /\ NotSent
             \/ Blame(r) /\ Sent("createService", r)
    /\ UNCHANGED <<request, found, todo, ctxDone, deployments, belated>>

\* Mutants of Rollback: it runs under the request's own context; it deletes
\* by the instance id and not by the name of the Deployment just created.
RollbackCancelled(r) ==
    /\ pc[r] = "rollback"
    /\ UNCHANGED faults
    /\ deployments' = IF r \in ctxDone THEN deployments ELSE deployments \ {r}
    /\ Answer(r, 500) /\ Blameless
    /\ UNCHANGED <<request, found, todo, ctxDone, services, late, belated>>

RollbackById(r) ==
    /\ pc[r] = "rollback"
    /\ Detached(r)
    /\ deployments' = deployments \ WithId(deployments, id[r])
    /\ Answer(r, 500) /\ Blameless
    /\ UNCHANGED <<request, found, todo, ctxDone, services, late, belated>>

\* Deletes the Deployment by name, detached from the request's context.  Its
\* failure is logged only; either way the Service's error is answered.
Rollback(r) ==
    /\ pc[r] = "rollback"
    /\ Answer(r, 500)
    /\ \/ Detached(r) /\ deployments' = deployments \ {r} /\ Blameless /\ NotSent
       \/ /\ Fault /\ Blame(r) /\ UNCHANGED deployments
          /\ NotSent \/ Sent("deleteDeployment", r)
    /\ UNCHANGED <<request, found, todo, ctxDone, services, belated>>

-----------------------------------------------------------------------------
(* Delete (store_delete.go) and Get (store_get.go)                         *)

\* findDeployment: no Deployment is a NotFoundError (404), several are a
\* ConflictError, which mapGetError and mapDeleteError answer with 500.
FindDeployment(r) ==
    /\ pc[r] = "find"
    /\ \/ /\ ContextAlive(r)
          /\ LET hits == WithId(deployments, id[r]) IN
               \/ hits = {} /\ Answer(r, 404) /\ UNCHANGED found
               \/ Cardinality(hits) > 1 /\ Answer(r, 500) /\ UNCHANGED found
               \/ /\ Cardinality(hits) = 1
                  /\ found' = [found EXCEPT ![r] = hits]
                  /\ Goto(r, IF op[r] = "delete" THEN "listServices" ELSE "listPods")
       \/ ContextOrFault(r) /\ Answer(r, 500) /\ UNCHANGED found
    /\ UNCHANGED <<request, todo, ctxDone, cluster, mishap>>

\* Mutant of ListServices: its selector matches nothing.
ListNothing(r) ==
    /\ pc[r] = "listServices"
    /\ ContextAlive(r)
    /\ Goto(r, "deleteDeploy")
    /\ UNCHANGED <<request, found, todo, ctxDone, cluster, mishap>>

\* The Services that carry the id are listed once.
ListServices(r) ==
    /\ pc[r] = "listServices"
    /\ \/ /\ ContextAlive(r)
          /\ todo' = [todo EXCEPT ![r] = WithId(services, id[r])]
          /\ Goto(r, IF WithId(services, id[r]) = {} THEN "deleteDeploy"
                                                     ELSE "deleteService")
       \/ ContextOrFault(r) /\ Answer(r, 500) /\ UNCHANGED todo
    /\ UNCHANGED <<request, found, ctxDone, cluster, mishap>>

\* One round of the loop over the listed Services.  Any error ends the
\* request, also the NotFound of a Service somebody else has deleted.
DeleteService(r) ==
    /\ pc[r] = "deleteService"
    /\ \E s \in todo[r] :
         \/ /\ ContextAlive(r) /\ s \in services
            /\ services' = services \ {s}
            /\ todo' = [todo EXCEPT ![r] = @ \ {s}]
            /\ Goto(r, IF todo[r] = {s} THEN "deleteDeploy" ELSE "deleteService")
            /\ Blameless /\ NotSent
         \/ /\ ContextAlive(r) /\ s \notin services
            /\ Answer(r, 500) /\ Blameless /\ NotSent /\ UNCHANGED <<services, todo>>
         \/ /\ ContextOrFault(r) /\ Answer(r, 500) /\ UNCHANGED <<services, todo>>
            /\ \/ Blameless /\ NotSent
               \/ s \in services /\ Blame(r) /\ Sent("deleteService", s)
    /\ UNCHANGED <<request, found, ctxDone, deployments, belated>>

\* Mutants of DeleteDeployment: it runs under the request's own context; its
\* answer comes before its effect.
DeleteDeploymentCancelled(r) ==
    /\ pc[r] = "deleteDeploy"
    /\ UNCHANGED faults
    /\ IF r \in ctxDone \/ found[r] \cap deployments = {}
       THEN Answer(r, 500) /\ UNCHANGED deployments
       ELSE Answer(r, 204) /\ deployments' = deployments \ found[r]
    /\ Blameless
    /\ UNCHANGED <<request, found, todo, ctxDone, services, late, belated>>

DeleteDeploymentNotDone(r) ==
    /\ pc[r] = "deleteDeploy"
    /\ UNCHANGED <<faults, deployments>>
    /\ Answer(r, 204) /\ Blameless
    /\ UNCHANGED <<request, found, todo, ctxDone, services, late, belated>>

\* Deletes the Deployment that was found, detached from the request's context.
\* A NotFound of the API server is not a NotFoundError of the store: 500.
DeleteDeployment(r) ==
    /\ pc[r] = "deleteDeploy"
    /\ \/ /\ Detached(r) /\ found[r] \subseteq deployments
          /\ deployments' = deployments \ found[r]
          /\ Answer(r, 204) /\ Blameless /\ NotSent
       \/ /\ Detached(r) /\ ~(found[r] \subseteq deployments)
          /\ Answer(r, 500) /\ Blameless /\ NotSent /\ UNCHANGED deployments
       \/ /\ Fault /\ Blame(r) /\ Answer(r, 500) /\ UNCHANGED deployments
          /\ NotSent \/ \E o \in found[r] : Sent("deleteDeployment", o)
    /\ UNCHANGED <<request, found, todo, ctxDone, services, belated>>

\* Get lists the Pods of the id.  Pods are made and removed by the cluster: two
\* that are not part of a rollout, or more, are a ConflictError (500).
ListPods(r) ==
    /\ pc[r] = "listPods"
    /\ \/ ContextAlive(r) /\ (Goto(r, "getService") \/ Answer(r, 500))
       \/ ContextOrFault(r) /\ Answer(r, 500)
    /\ UNCHANGED <<request, found, todo, ctxDone, cluster, mishap>>

\* Get lists the Services of the id and answers.
GetService(r) ==
    /\ pc[r] = "getService"
    /\ \/ ContextAlive(r) /\ Answer(r, 200)
       \/ ContextOrFault(r) /\ Answer(r, 500)
    /\ UNCHANGED <<request, found, todo, ctxDone, cluster, mishap>>

-----------------------------------------------------------------------------
Step(r) ==
    \/ CheckDuplicate(r) \/ CreateDeployment(r) \/ CreateService(r) \/ Rollback(r)
    \/ FindDeployment(r) \/ ListServices(r) \/ DeleteService(r)
    \/ DeleteDeployment(r) \/ ListPods(r) \/ GetService(r)

\* Every request is over: only more requests could follow.
Quiet ==
    /\ \A r \in Request : pc[r] \in Over
    /\ UNCHANGED vars

Next ==
    \/ \E r \in Request : Begin(r) \/ Cancel(r) \/ Step(r) \/ LateWrite(r)
    \/ Crash
    \/ Quiet

Spec == Init /\ [][Next]_vars

-----------------------------------------------------------------------------
Creates(i) == {r \in Request : op[r] = "create" /\ id[r] = i}
Deletes(i) == {r \in Request : op[r] = "delete" /\ id[r] = i}

\* Neither request was over when the other one began.
Overlap(q, r) == q \notin prior[r] /\ r \notin prior[q]

\* At most one Deployment carries an instance id: the 409 of REQ-API-080 and
\* REQ-K8S-170, which store_create.go:57-66 checks before it creates.
OneDeploymentPerId ==
    \A i \in Id : Cardinality(WithId(deployments, i)) <= 1

\* Two Deployments carry one id only if their Creates overlapped, or one of them
\* was made after its Create had reported an error: one after the other, the
\* second Create is always refused, whatever else failed in between.
DuplicatesOverlap ==
    \A q, r \in deployments :
        q # r /\ id[q] = id[r] => Overlap(q, r) \/ q \in belated \/ r \in belated

\* A container whose Create was answered 201 is there for whoever asks later:
\* no Get or Delete is told 404 and no other Create is told 201, until a Delete
\* of the id was issued.  No rollback takes away another Create's Deployment.
AckedIsVisible ==
    \A r \in Request : \A c \in prior[r] \cap Creates(id[r]) :
        /\ answer[c] = 201
        /\ answer[r] = (IF op[r] = "create" THEN 201 ELSE 404)
        => Deletes(id[r]) # {}

\* A container whose Delete was answered 204 is gone for whoever asks later,
\* unless a Create of the id was not over when the Delete began, or was over
\* with an error and its Deployment was made after that.
DeletedIsGone ==
    \A r \in Request : \A d \in prior[r] \cap Deletes(id[r]) :
        answer[d] = 204 /\ found[r] # {} =>
            \E c \in Creates(id[r]) : c \notin prior[d] \/ c \in belated

\* A Create that was not answered 201 leaves nothing behind, also when its
\* client went away, unless an answer was lost or the rollback failed
\* (SC-003; store_create.go:86-101).
FailedCreateLeavesNothing ==
    \A r \in Request :
        op[r] = "create" /\ pc[r] = "answered" /\ answer[r] # 201 /\ r \notin mishap
            => r \notin deployments \cup services

\* Nobody can reach a Service whose Deployment is gone, so that no Delete will
\* ever remove it.  When all requests are over there is such a Service only if
\* its Create overlapped a Delete of the id or something failed for good.
OrphanServiceExcused ==
    (Active = {} /\ mishap = {}) =>
        \A s \in services \ deployments :
            \E d \in Deletes(id[s]) : Overlap(s, d)

\* No container is left half there: when all requests are over and nothing
\* failed for good, a Deployment whose spec asks for a Service has it, also when
\* the client of a Create or a Delete went away between the two objects
\* (the detached calls of store_create.go:89 and store_delete.go:37).  A Delete
\* that met another Service of the id may have stopped in between, and one that
\* overlapped the Create may have deleted a Service that is not its own.
NoHalfContainer ==
    (Active = {} /\ mishap = {}) =>
        \A r \in deployments \cap exposed :
            \/ r \in services
            \/ \E d \in Deletes(id[r]) : Overlap(r, d) \/ todo[d] \ {r} # {}

\* Delete removes the Deployment and the associated Service (REQ-K8S-180):
\* once everything is over, what a Delete answered 204 removed has no Service.
DeleteRemovesService ==
    Active = {} =>
        \A d \in Request :
            op[d] = "delete" /\ answer[d] = 204 => found[d] \cap services = {}
=============================================================================
