--------------------------- MODULE ContainerView ---------------------------
(***************************************************************************)
(* From a container's spec to Kubernetes objects and back: the checks of a *)
(* Create request (internal/handlers/container/validation.go), the objects *)
(* the store builds, and the container it rebuilds from them               *)
(* (internal/kubernetes/convert.go, internal/units, internal/dcm).         *)
(*                                                                         *)
(* A spec is a record.  Image and name are copied both ways and left out;  *)
(* of the process only whether there is one, and one with nothing in it,   *)
(* is kept.  An amount of memory is a number and a unit in the API, a      *)
(* number of Mi in a quantity.                                             *)
(***************************************************************************)
EXTENDS Integers, Sequences, FiniteSets

CONSTANTS
    ExternalServiceType,    \* the Service type of external ports
    MaxMemory               \* the first number of Mi beyond a quantity's range

\* Config.validate accepts nothing else.
ASSUME ServiceTypeAssumption == ExternalServiceType \in {"LoadBalancer", "NodePort"}
\* A quantity holds up to 2^63 - 1 bytes, so this is 2^43.
ASSUME MemoryAssumption == MaxMemory \in Nat

Bound == {"min", "max"}
Unit == {"MB", "GB", "TB"}
Visibility == {"none", "internal", "external"}

\* What the generated types and the OpenAPI document let a spec be.
IsContainerSpec(spec) ==
    /\ spec.cpu \in [Bound -> Int]
    /\ spec.memory \in [Bound -> [n : Nat, unit : Unit]]
    /\ spec.labels \in [DOMAIN spec.labels -> STRING]
    /\ spec.process \in {"absent", "empty", "given"}
    /\ spec.ports \in Seq([port : Nat, visibility : Visibility])

-----------------------------------------------------------------------------
(* Labels (dcm/labels.go, labels.go)                                       *)

ReservedLabelKeys == {"managed-by", "dcm-instance-id", "dcm-service-type"}

dcmLabels(i) ==
    [k \in ReservedLabelKeys |->
        CASE k = "managed-by" -> "dcm"
          [] k = "dcm-instance-id" -> i
          [] k = "dcm-service-type" -> "container"]

\* The base labels win over the user's.
mergeLabels(base, user) ==
    [k \in DOMAIN base \cup DOMAIN user |-> IF k \in DOMAIN base THEN base[k] ELSE user[k]]

\* A label selector asks for some labels with their values.
Selects(selector, labels) ==
    \A k \in DOMAIN selector : k \in DOMAIN labels /\ labels[k] = selector[k]

Only(labels, keys) == [k \in DOMAIN labels \cap keys |-> labels[k]]

\* A mutant of instanceSelector: it selects what the provider manages.
managedSelector(i) == Only(dcmLabels(i), {"managed-by"})

instanceSelector(i) == Only(dcmLabels(i), {"managed-by", "dcm-instance-id"})
dcmSelector == Only(dcmLabels("any"), {"managed-by", "dcm-service-type"})

userLabelsFromDeployment(labels) ==
    Only(labels, DOMAIN labels \ ReservedLabelKeys)

-----------------------------------------------------------------------------
(* Memory (units/convert.go)                                               *)

apiToK8s == [MB |-> 1, GB |-> 1024, TB |-> 1024 * 1024]

\* resource.ParseQuantity turns what is beyond the range of a quantity into the
\* largest one, 2^63 - 1 bytes, for which MaxMemory stands.
ConvertMemory(m) ==
    LET q == m.n * apiToK8s[m.unit] IN IF q < MaxMemory THEN q ELSE MaxMemory

Pi == 1024 * apiToK8s["TB"]

\* The API server writes a quantity with the largest binary suffix that leaves
\* it whole, and zero and the largest quantity without any; a suffix above Ti,
\* or none, has no unit in the API and the quantity is returned as it is ("raw",
\* n in Mi).
MemoryQuantityToAPI(q) ==
    LET whole == {u \in Unit : q % apiToK8s[u] = 0}
        unit == CHOOSE u \in whole : \A v \in whole : apiToK8s[v] <= apiToK8s[u]
    IN IF q % Pi = 0 \/ q = MaxMemory
       THEN [n |-> q, unit |-> "raw"]
       ELSE [n |-> q \div apiToK8s[unit], unit |-> unit]

-----------------------------------------------------------------------------
(* The checks of CreateContainer (validation.go)                           *)

validateResources(spec) ==
    {p \in {"cpu", "memory"} :
        IF p = "cpu" THEN spec.cpu.min > spec.cpu.max
        ELSE ConvertMemory(spec.memory.min) > ConvertMemory(spec.memory.max)}

validateUserLabels(spec) == DOMAIN spec.labels \cap ReservedLabelKeys

\* The id "health" is taken by a path of the API.
validateContainerID(i) == i = "health"

\* A mutant of Accepted: no resource is checked.
AcceptedAnyResources(spec, i) ==
    /\ ~validateContainerID(i)
    /\ validateUserLabels(spec) = {}

Accepted(spec, i) ==
    /\ ~validateContainerID(i)
    /\ validateResources(spec) = {}
    /\ validateUserLabels(spec) = {}

-----------------------------------------------------------------------------
(* Spec to objects (store_create.go, convert.go)                           *)

\* The ports a Service is made for.
portsWithVisibility(spec) ==
    {p \in {spec.ports[k] : k \in DOMAIN spec.ports} : p.visibility # "none"}

hasExternalPort(ports) == \E p \in ports : p.visibility = "external"

resolveServiceType(ports) ==
    IF hasExternalPort(ports) THEN ExternalServiceType ELSE "ClusterIP"

buildDeployment(spec, i) ==
    [labels |-> mergeLabels(dcmLabels(i), spec.labels),
     cpu |-> spec.cpu,
     memory |-> [b \in Bound |-> ConvertMemory(spec.memory[b])],
     process |-> spec.process,
     ports |-> [k \in DOMAIN spec.ports |-> spec.ports[k].port]]

buildService(spec, i) ==
    LET ports == portsWithVisibility(spec)
    IN [labels |-> mergeLabels(dcmLabels(i), spec.labels),
        type |-> resolveServiceType(ports),
        targetPorts |-> {p.port : p \in ports}]

-----------------------------------------------------------------------------
(* Objects to spec (convert.go)                                            *)

\* A process with nothing in it leaves no trace in the Deployment.
processFromContainer(process) == IF process = "empty" THEN "absent" ELSE process

\* Every port is told as "none" until a Service says otherwise.
containerFromDeployment(deploy) ==
    [labels |-> userLabelsFromDeployment(deploy.labels),
     cpu |-> deploy.cpu,
     memory |-> [b \in Bound |-> MemoryQuantityToAPI(deploy.memory[b])],
     process |-> processFromContainer(deploy.process),
     ports |-> [k \in DOMAIN deploy.ports |->
                  [port |-> deploy.ports[k], visibility |-> "none"]]]

inferVisibility(type) ==
    IF type \in {"LoadBalancer", "NodePort"} THEN "external" ELSE "internal"

\* A mutant of enrichWithService: it does not look at the target ports.
enrichAllPorts(container, svc) ==
    [container EXCEPT !.ports =
        [k \in DOMAIN @ |-> [@[k] EXCEPT !.visibility = inferVisibility(svc.type)]]]

enrichWithService(container, svc) ==
    [container EXCEPT !.ports =
        [k \in DOMAIN @ |->
            IF @[k].port \in svc.targetPorts
            THEN [@[k] EXCEPT !.visibility = inferVisibility(svc.type)]
            ELSE @[k]]]
=============================================================================
