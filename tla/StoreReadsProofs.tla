-------------------------- MODULE StoreReadsProofs --------------------------
(***************************************************************************)
(* Theorems about StoreReads, for all containers, specs, Pods, page sizes  *)
(* and any number of changes of the cluster: its types; what an answer     *)
(* shows of one container; page tokens; and what a traversal of all pages  *)
(* may leave out or repeat.                                                *)
(***************************************************************************)
EXTENDS StoreReads, FiniteSetTheorems, FunctionTheorems, SequenceTheorems, TLAPS

\* A container that was made was asked for and accepted.
MadeAccepted == \A n \in made : spec[n] \in AcceptedSpecs(n)

\* CheckId refuses an id that is in use, and what is gone does not come back.
Apart == \A n \in Name : before[n] \cap deployments = {}

\* No Pod was born later than there were changes.
Births == \A p \in Pod : pods[p].born \in 0..changes

\* What is listed was made.
PageMade == \A k \in 1..Len(page) : page[k].name \in made

\* The container n before and after a Service was looked for.
Rebuilt(n) == containerFromDeployment(buildDeployment(spec[n], InstanceId[n]))
Enriched(n, m) == enrichWithService(Rebuilt(n), buildService(spec[m], InstanceId[m]))

\* What is shown: a container that was made, with the Pod and the Service of
\* containers of the same id.
Viewed ==
    /\ pc = "services" =>
         view # NoView /\ view.name = Head(page).name /\ view.serviceOf = 0
    /\ view # NoView =>
         /\ view = [name |-> view.name, status |-> view.status, podOf |-> view.podOf,
                    done |-> view.done, serviceOf |-> view.serviceOf,
                    pods |-> view.pods, spec |-> view.spec]
         /\ view.name \in made
         /\ \A m \in {view.podOf, view.serviceOf} \ {0} :
              m \in made /\ InstanceId[m] = InstanceId[view.name]
         /\ view.spec = IF view.serviceOf = 0 THEN Rebuilt(view.name)
                        ELSE Enriched(view.name, view.serviceOf)

IInv ==
    TypeOK /\ MadeAccepted /\ Apart /\ Births /\ PageMade /\ Viewed
    /\ PagesAdvance /\ AgreesWithMonitor

-----------------------------------------------------------------------------
(* Lists in the order of their names                                       *)

\* Every position of a sorted list is taken, and by a later name the later it is.
LEMMA SortedByName ==
    ASSUME NEW S, S \subseteq Nat, IsFiniteSet(S)
    PROVE  /\ Cardinality(S) \in Nat
           /\ sortedByName(S) \in [1..Cardinality(S) -> S]
           /\ \A n \in S : \E k \in 1..Cardinality(S) : sortedByName(S)[k] = n
           /\ \A k \in 1..Cardinality(S) :
                Cardinality({m \in S : m <= sortedByName(S)[k]}) = k
  <1>. DEFINE N == Cardinality(S)
              upTo(n) == {m \in S : m <= n}
              rank == [n \in S |-> Cardinality(upTo(n))]
  <1>1. N \in Nat
    BY FS_CardinalityType
  <1>2. \A n \in S : IsFiniteSet(upTo(n)) /\ rank[n] \in Nat /\ rank[n] <= N
    <2>. TAKE n \in S
    <2>1. upTo(n) \in SUBSET S
      OBVIOUS
    <2>. HIDE DEF upTo
    <2>. QED  BY <2>1, FS_Subset, FS_CardinalityType
  <1>3. \A n \in S : rank[n] # 0
    <2>. TAKE n \in S
    <2>1. n \in upTo(n)
      OBVIOUS
    <2>. HIDE DEF upTo
    <2>. QED  BY <2>1, <1>2, FS_EmptySet
  <1>4. rank \in [S -> 1..N]
    BY <1>1, <1>2, <1>3
  <1>5. \A m, n \in S : m < n => rank[m] < rank[n]
    <2>. SUFFICES ASSUME NEW m \in S, NEW n \in S, m < n PROVE rank[m] < rank[n]
      OBVIOUS
    <2>1. upTo(m) \in SUBSET upTo(n) /\ n \in upTo(n) /\ n \notin upTo(m)
      <3>1. \A k \in S : k \in Nat
        OBVIOUS
      <3>2. n <= n /\ ~(n <= m) /\ \A k \in S : k <= m => k <= n
        BY <3>1
      <3>. QED  BY <3>2
    <2>. HIDE DEF upTo
    <2>2. Cardinality(upTo(m)) <= Cardinality(upTo(n))
          /\ Cardinality(upTo(m)) # Cardinality(upTo(n))
      BY <2>1, <1>2, FS_Subset
    <2>. QED  BY <2>2, <1>2
  <1>6. rank \in Injection(S, 1..N)
    <2>1. \A m, n \in S : rank[m] = rank[n] => m = n
      <3>. SUFFICES ASSUME NEW m \in S, NEW n \in S, rank[m] = rank[n] PROVE m = n
        OBVIOUS
      <3>1. m \in Nat /\ n \in Nat
        OBVIOUS
      <3>2. rank[m] \in Nat /\ rank[n] \in Nat
        BY <1>2
      <3>3. ~(m < n) /\ ~(n < m)
        <4>. HIDE DEF rank
        <4>. QED  BY <1>5, <3>2
      <3>. QED  BY <3>1, <3>3
    <2>. HIDE DEF rank
    <2>. QED  BY <1>4, <2>1 DEF Injection, IsInjective
  <1>7. rank \in Surjection(S, 1..N)
    <2>. HIDE DEF rank
    <2>1. IsFiniteSet(1..N) /\ Cardinality(1..N) = N
      BY <1>1, FS_Interval
    <2>. QED  BY <1>6, <2>1, FS_Injection
  <1>8. \A k \in 1..N : \E n \in S : Cardinality(upTo(n)) = k
    <2>1. \A k \in 1..N : \E n \in S : rank[n] = k
      <3>. HIDE DEF rank
      <3>. QED  BY <1>7 DEF Surjection
    <2>. QED  BY <2>1
  <1>9. sortedByName(S) = [k \in 1..N |-> CHOOSE n \in S : Cardinality(upTo(n)) = k]
    BY DEF sortedByName
  <1>10. \A k \in 1..N : sortedByName(S)[k] \in S /\ Cardinality(upTo(sortedByName(S)[k])) = k
    <2>. HIDE DEF upTo
    <2>. QED  BY <1>8, <1>9
  <1>11. \A n \in S : \E k \in 1..N : sortedByName(S)[k] = n
    <2>. TAKE n \in S
    <2>1. rank[n] \in 1..N
      BY <1>4
    <2>2. rank[sortedByName(S)[rank[n]]] = rank[n] /\ sortedByName(S)[rank[n]] \in S
      BY <2>1, <1>10
    <2>3. sortedByName(S)[rank[n]] = n
      <3>. HIDE DEF rank
      <3>. QED  BY <2>2, <1>6 DEF Injection, IsInjective
    <2>. QED  BY <2>1, <2>3
  <1>12. sortedByName(S) \in [1..N -> S]
    <2>. HIDE DEF upTo
    <2>. QED  BY <1>9, <1>10
  <1>. QED  BY <1>1, <1>10, <1>11, <1>12

\* A finite set of numbers has a largest one.
LEMMA Largest ==
    ASSUME NEW S, S \subseteq Nat, IsFiniteSet(S), S # {}
    PROVE  \E b \in S : \A c \in S : c <= b
  <1>. DEFINE N == Cardinality(S)
              upTo(n) == {m \in S : m <= n}
  <1>1. N \in Nat /\ N # 0
    BY FS_CardinalityType, FS_EmptySet
  <1>2. PICK b \in S : Cardinality(upTo(b)) = N
    <2>1. N \in 1..N
      BY <1>1
    <2>. QED  BY <2>1, SortedByName
  <1>3. upTo(b) = S
    <2>1. upTo(b) \in SUBSET S
      OBVIOUS
    <2>. HIDE DEF upTo
    <2>. QED  BY <2>1, <1>2, FS_Subset
  <1>. QED  BY <1>3

-----------------------------------------------------------------------------
(* Labels and selectors                                                    *)

LEMMA LabelsOf ==
    ASSUME NEW n
    PROVE  /\ ReservedLabelKeys \subseteq DOMAIN labelsOf(n)
           /\ \A k \in ReservedLabelKeys : labelsOf(n)[k] = dcmLabels(InstanceId[n])[k]
  BY DEF labelsOf, mergeLabels, dcmLabels

\* A selector for one instance selects what was made for it, whatever labels
\* the user gave.
LEMMA SelectsInstance ==
    ASSUME NEW i, NEW n
    PROVE  Selects(instanceSelector(i), labelsOf(n)) <=> InstanceId[n] = i
  <1>1. /\ DOMAIN instanceSelector(i) = {"managed-by", "dcm-instance-id"}
        /\ instanceSelector(i)["managed-by"] = "dcm"
        /\ instanceSelector(i)["dcm-instance-id"] = i
    BY DEF instanceSelector, Only, dcmLabels, ReservedLabelKeys
  <1>2. /\ {"managed-by", "dcm-instance-id"} \subseteq DOMAIN labelsOf(n)
        /\ labelsOf(n)["managed-by"] = "dcm"
        /\ labelsOf(n)["dcm-instance-id"] = InstanceId[n]
    BY LabelsOf DEF dcmLabels, ReservedLabelKeys
  <1>. QED  BY <1>1, <1>2 DEF Selects

\* The provider's selector selects all that the provider made.
LEMMA SelectsOwn ==
    ASSUME NEW S
    PROVE  Selected(S, dcmSelector) = S
  <1>1. /\ DOMAIN dcmSelector = {"managed-by", "dcm-service-type"}
        /\ dcmSelector["managed-by"] = "dcm"
        /\ dcmSelector["dcm-service-type"] = "container"
    BY DEF dcmSelector, Only, dcmLabels, ReservedLabelKeys
  <1>2. ASSUME NEW n
        PROVE  /\ {"managed-by", "dcm-service-type"} \subseteq DOMAIN labelsOf(n)
               /\ labelsOf(n)["managed-by"] = "dcm"
               /\ labelsOf(n)["dcm-service-type"] = "container"
    BY LabelsOf DEF dcmLabels, ReservedLabelKeys
  <1>3. \A n \in S : Selects(dcmSelector, labelsOf(n))
    BY <1>1, <1>2 DEF Selects
  <1>. QED  BY <1>3 DEF Selected

\* A user's labels come back, as none of them is the provider's.
LEMMA LabelsReadBack ==
    ASSUME NEW i, NEW user, user = [k \in DOMAIN user |-> user[k]],
           DOMAIN user \cap ReservedLabelKeys = {}
    PROVE  userLabelsFromDeployment(mergeLabels(dcmLabels(i), user)) = user
  <1>. DEFINE merged == mergeLabels(dcmLabels(i), user)
  <1>1. /\ DOMAIN merged = ReservedLabelKeys \cup DOMAIN user
        /\ \A k \in DOMAIN user : merged[k] = user[k]
    BY DEF mergeLabels, dcmLabels
  <1>2. DOMAIN merged \cap (DOMAIN merged \ ReservedLabelKeys) = DOMAIN user
    BY <1>1
  <1>3. userLabelsFromDeployment(merged) = [k \in DOMAIN user |-> merged[k]]
    BY <1>2 DEF userLabelsFromDeployment, Only
  <1>4. [k \in DOMAIN user |-> merged[k]] = [k \in DOMAIN user |-> user[k]]
    BY <1>1
  <1>. QED  BY <1>3, <1>4

-----------------------------------------------------------------------------
(* Memory                                                                  *)

LEMMA WholeDivision ==
    ASSUME NEW q \in Nat
    PROVE  /\ q % 1 = 0 /\ (q \div 1) * 1 = q
           /\ q % 1024 = 0 => (q \div 1024) * 1024 = q
           /\ q % 1048576 = 0 => (q \div 1048576) * 1048576 = q
  OBVIOUS

\* A quantity reads back as the amount it is, in a unit of the API or raw.
LEMMA QuantityReadsBack ==
    ASSUME NEW q \in Nat, q <= MaxMemory
    PROVE  LET shown == MemoryQuantityToAPI(q)
           IN IF shown.unit = "raw"
              THEN shown.n = q /\ (q % Pi = 0 \/ q = MaxMemory)
              ELSE ConvertMemory(shown) = q
  <1>1. CASE q % Pi = 0 \/ q = MaxMemory
    BY <1>1 DEF MemoryQuantityToAPI
  <1>2. CASE ~(q % Pi = 0 \/ q = MaxMemory)
    <2>. DEFINE whole == {u \in Unit : q % apiToK8s[u] = 0}
                unit == CHOOSE u \in whole : \A v \in whole : apiToK8s[v] <= apiToK8s[u]
    <2>1. apiToK8s["MB"] = 1 /\ apiToK8s["GB"] = 1024 /\ apiToK8s["TB"] = 1048576
      BY DEF apiToK8s
    <2>2. \E u \in whole : \A v \in whole : apiToK8s[v] <= apiToK8s[u]
      BY <2>1, WholeDivision DEF Unit
    <2>3. unit \in whole
      <3>. HIDE DEF whole
      <3>. QED  BY <2>2
    <2>4. unit \in Unit /\ q % apiToK8s[unit] = 0
      BY <2>3
    <2>5. MemoryQuantityToAPI(q) = [n |-> q \div apiToK8s[unit], unit |-> unit]
      BY <1>2 DEF MemoryQuantityToAPI
    <2>. HIDE DEF unit
    <2>6. (q \div apiToK8s[unit]) * apiToK8s[unit] = q /\ unit # "raw"
      BY <2>1, <2>4, WholeDivision DEF Unit
    <2>7. q < MaxMemory
      BY <1>2, MemoryAssumption
    <2>. QED  BY <2>5, <2>6, <2>7 DEF ConvertMemory
  <1>. QED  BY <1>1, <1>2

-----------------------------------------------------------------------------
(* What was asked for reads back                                           *)

\* What is known of a spec that was accepted.
LEMMA AcceptedSpec ==
    ASSUME NEW n \in Name, NEW s \in AcceptedSpecs(n)
    PROVE  /\ IsContainerSpec(s) /\ s \in Asked[n]
           /\ DOMAIN s.labels \cap ReservedLabelKeys = {}
           /\ \A b \in Bound : ConvertMemory(s.memory[b]) \in 0..MaxMemory
  <1>1. s \in Asked[n] /\ validateUserLabels(s) = {}
    BY DEF AcceptedSpecs, Accepted
  <1>2. IsContainerSpec(s)
    BY <1>1, AskedAssumption
  <1>3. \A b \in Bound : ConvertMemory(s.memory[b]) \in 0..MaxMemory
    <2>. TAKE b \in Bound
    <2>1. s.memory[b].n \in Nat /\ s.memory[b].unit \in Unit
      BY <1>2 DEF IsContainerSpec
    <2>. QED  BY <2>1, MemoryAssumption DEF ConvertMemory, apiToK8s, Unit
  <1>. QED  BY <1>1, <1>2, <1>3 DEF validateUserLabels

\* The parts of a rebuilt container that no Service changes.
LEMMA RebuiltReadsBack ==
    ASSUME NEW n \in Name, NEW s \in AcceptedSpecs(n), NEW i
    PROVE  LET v == containerFromDeployment(buildDeployment(s, i))
           IN /\ v.labels = s.labels /\ v.cpu = s.cpu
              /\ \A b \in Bound : SameAmount(v.memory[b], s.memory[b])
              /\ v.process = (IF s.process = "given" THEN "given" ELSE "absent")
              /\ v.ports = [k \in DOMAIN s.ports |->
                              [port |-> s.ports[k].port, visibility |-> "none"]]
  <1>. DEFINE d == buildDeployment(s, i)
              v == containerFromDeployment(d)
  <1>0. /\ IsContainerSpec(s) /\ DOMAIN s.labels \cap ReservedLabelKeys = {}
        /\ \A b \in Bound : ConvertMemory(s.memory[b]) \in 0..MaxMemory
    BY AcceptedSpec
  <1>1. /\ d.labels = mergeLabels(dcmLabels(i), s.labels) /\ d.cpu = s.cpu
        /\ d.memory = [b \in Bound |-> ConvertMemory(s.memory[b])]
        /\ d.process = s.process
        /\ d.ports = [k \in DOMAIN s.ports |-> s.ports[k].port]
    BY DEF buildDeployment
  <1>2. /\ v.labels = userLabelsFromDeployment(d.labels) /\ v.cpu = d.cpu
        /\ v.memory = [b \in Bound |-> MemoryQuantityToAPI(d.memory[b])]
        /\ v.process = processFromContainer(d.process)
        /\ v.ports = [k \in DOMAIN d.ports |-> [port |-> d.ports[k], visibility |-> "none"]]
    <2>. HIDE DEF d
    <2>. QED  BY DEF containerFromDeployment
  <1>. HIDE DEF d, v
  <1>3. v.labels = s.labels
    <2>1. s.labels = [k \in DOMAIN s.labels |-> s.labels[k]]
      BY <1>0 DEF IsContainerSpec
    <2>. QED  BY <1>0, <1>1, <1>2, <2>1, LabelsReadBack
  <1>4. \A b \in Bound : SameAmount(v.memory[b], s.memory[b])
    <2>. TAKE b \in Bound
    <2>1. ConvertMemory(s.memory[b]) \in 0..MaxMemory
          /\ v.memory[b] = MemoryQuantityToAPI(ConvertMemory(s.memory[b]))
      BY <1>0, <1>1, <1>2
    <2>2. ConvertMemory(s.memory[b]) \in Nat /\ ConvertMemory(s.memory[b]) <= MaxMemory
      BY <2>1, MemoryAssumption
    <2>. QED  BY <2>1, <2>2, QuantityReadsBack DEF SameAmount
  <1>5. v.process = (IF s.process = "given" THEN "given" ELSE "absent")
    BY <1>0, <1>1, <1>2 DEF processFromContainer, IsContainerSpec
  <1>6. v.ports = [k \in DOMAIN s.ports |->
                     [port |-> s.ports[k].port, visibility |-> "none"]]
    BY <1>1, <1>2
  <1>. QED  BY <1>1, <1>2, <1>3, <1>4, <1>5, <1>6 DEF d, v

\* What a Service says of the ports, and that it touches nothing else.
LEMMA EnrichedReadsBack ==
    ASSUME NEW v, NEW svc, DOMAIN v = {"labels", "cpu", "memory", "process", "ports"},
           v.ports = [k \in DOMAIN v.ports |->
                        [port |-> v.ports[k].port, visibility |-> v.ports[k].visibility]]
    PROVE  LET e == enrichWithService(v, svc)
           IN /\ e.labels = v.labels /\ e.cpu = v.cpu /\ e.memory = v.memory
              /\ e.process = v.process /\ DOMAIN e.ports = DOMAIN v.ports
              /\ \A k \in DOMAIN v.ports :
                   /\ e.ports[k].port = v.ports[k].port
                   /\ e.ports[k].visibility =
                        IF v.ports[k].port \in svc.targetPorts THEN inferVisibility(svc.type)
                        ELSE v.ports[k].visibility
  <1>. DEFINE e == enrichWithService(v, svc)
  <1>1. /\ e.labels = v.labels /\ e.cpu = v.cpu /\ e.memory = v.memory
        /\ e.process = v.process
        /\ e.ports = [k \in DOMAIN v.ports |->
                        IF v.ports[k].port \in svc.targetPorts
                        THEN [v.ports[k] EXCEPT !.visibility = inferVisibility(svc.type)]
                        ELSE v.ports[k]]
    BY DEF enrichWithService
  <1>2. \A k \in DOMAIN v.ports :
          /\ v.ports[k] = [port |-> v.ports[k].port, visibility |-> v.ports[k].visibility]
          /\ [v.ports[k] EXCEPT !.visibility = inferVisibility(svc.type)] =
               [port |-> v.ports[k].port, visibility |-> inferVisibility(svc.type)]
    OBVIOUS
  <1>. QED  BY <1>1, <1>2

LEMMA ViewedReadsBack ==
    ASSUME TypeOK, MadeAccepted, Viewed
    PROVE  ReadsBack
  <1>. SUFFICES ASSUME view # NoView, view.done PROVE ReadsBack
    BY DEF ReadsBack
  <1>. DEFINE n == view.name
              s == spec[n]
              r == Rebuilt(n)
  <1>1. n \in made /\ n \in Name /\ s \in AcceptedSpecs(n)
    BY DEF Viewed, MadeAccepted, TypeOK
  <1>2. /\ r.labels = s.labels /\ r.cpu = s.cpu
        /\ \A b \in Bound : SameAmount(r.memory[b], s.memory[b])
        /\ r.process = (IF s.process = "given" THEN "given" ELSE "absent")
        /\ r.ports = [k \in DOMAIN s.ports |->
                        [port |-> s.ports[k].port, visibility |-> "none"]]
    BY <1>1, RebuiltReadsBack DEF Rebuilt
  <1>3. DOMAIN r = {"labels", "cpu", "memory", "process", "ports"}
    BY DEF Rebuilt, containerFromDeployment
  <1>4. \A k \in DOMAIN s.ports : s.ports[k].visibility \in Visibility
    <2>1. s.ports \in Seq([port : Nat, visibility : Visibility])
      BY <1>1, AcceptedSpec DEF IsContainerSpec
    <2>2. \A k \in DOMAIN s.ports : s.ports[k] \in [port : Nat, visibility : Visibility]
      BY <2>1, ElementOfSeq, LenProperties
    <2>. QED  BY <2>2
  <1>. HIDE DEF r
  <1>5. CASE view.serviceOf = 0
    <2>1. view.spec = r
      BY <1>5 DEF Viewed, r
    <2>2. view.serviceOf # view.name
      BY <1>1, <1>5, NameAssumption
    <2>. QED  BY <1>2, <2>1, <2>2 DEF ReadsBack
  <1>6. CASE view.serviceOf # 0
    <2>. DEFINE m == view.serviceOf
                svc == buildService(spec[m], InstanceId[m])
                e == enrichWithService(r, svc)
    <2>1. view.spec = e
      BY <1>6 DEF Viewed, Enriched, r
    <2>2. r.ports = [k \in DOMAIN r.ports |->
                       [port |-> r.ports[k].port, visibility |-> r.ports[k].visibility]]
      BY <1>2
    <2>. HIDE DEF svc
    <2>3. /\ e.labels = r.labels /\ e.cpu = r.cpu /\ e.memory = r.memory
          /\ e.process = r.process /\ DOMAIN e.ports = DOMAIN r.ports
          /\ \A k \in DOMAIN r.ports :
               /\ e.ports[k].port = r.ports[k].port
               /\ e.ports[k].visibility =
                    IF r.ports[k].port \in svc.targetPorts THEN inferVisibility(svc.type)
                    ELSE r.ports[k].visibility
      BY <1>3, <2>2, EnrichedReadsBack
    <2>. HIDE DEF e
    <2>4. \A k \in DOMAIN s.ports :
            LET w == s.ports[k].visibility
                t == e.ports[k].visibility
                visible == portsWithVisibility(s)
            IN \/ t = w
               \/ m # n
               \/ w = "internal" /\ t = "external" /\ hasExternalPort(visible)
               \/ w = "none" /\ \E p \in visible : p.port = s.ports[k].port
      <3>. SUFFICES ASSUME NEW k \in DOMAIN s.ports, m = n
                    PROVE  LET w == s.ports[k].visibility
                               t == e.ports[k].visibility
                               visible == portsWithVisibility(s)
                           IN \/ t = w
                              \/ w = "internal" /\ t = "external" /\ hasExternalPort(visible)
                              \/ w = "none" /\ \E p \in visible : p.port = s.ports[k].port
        OBVIOUS
      <3>. DEFINE visible == portsWithVisibility(s)
                  w == s.ports[k].visibility
      <3>1. /\ svc.targetPorts = {p.port : p \in visible}
            /\ svc.type = resolveServiceType(visible)
        BY DEF svc, buildService
      <3>2. w # "none" => s.ports[k] \in visible
        BY DEF portsWithVisibility
      <3>3. e.ports[k].visibility =
              IF s.ports[k].port \in svc.targetPorts THEN inferVisibility(svc.type) ELSE "none"
        BY <1>2, <2>3
      <3>4. inferVisibility(svc.type) =
              IF hasExternalPort(visible) THEN "external" ELSE "internal"
        BY <3>1, ServiceTypeAssumption DEF inferVisibility, resolveServiceType
      <3>5. w = "external" => hasExternalPort(visible)
        BY <3>2 DEF hasExternalPort
      <3>6. w \in Visibility
        BY <1>4
      <3>. HIDE DEF visible, w
      <3>7. CASE w = "none"
        BY <3>1, <3>3, <3>7 DEF w, visible
      <3>8. CASE w # "none"
        <4>1. e.ports[k].visibility = IF hasExternalPort(visible) THEN "external" ELSE "internal"
          BY <3>1, <3>2, <3>3, <3>4, <3>8
        <4>. QED  BY <3>5, <3>6, <3>8, <4>1 DEF Visibility, w, visible
      <3>. QED  BY <3>7, <3>8
    <2>5. DOMAIN e.ports = DOMAIN s.ports
          /\ \A k \in DOMAIN s.ports : e.ports[k].port = s.ports[k].port
      <3>1. DOMAIN r.ports = DOMAIN s.ports
            /\ \A k \in DOMAIN s.ports : r.ports[k].port = s.ports[k].port
        BY <1>2
      <3>. HIDE DEF s
      <3>. QED  BY <2>3, <3>1, Zenon
    <2>. QED  BY <1>2, <2>1, <2>3, <2>4, <2>5 DEF ReadsBack
  <1>. QED  BY <1>5, <1>6

-----------------------------------------------------------------------------
(* Statuses                                                                *)

LEMMA PhaseFacts ==
    ASSUME NEW f \in Phase
    PROVE  /\ f # None /\ podPhasePriority(f) \in 0..4
           /\ MapPodPhaseToStatus(f) \in ContainerStatus \cup {None}
           /\ Concern(MapPodPhaseToStatus(f)) = podPhasePriority(f)
           /\ \A g \in Phase : podPhasePriority(f) = podPhasePriority(g) => f = g
  BY DEF Phase, None, podPhasePriority, MapPodPhaseToStatus, ContainerStatus, Concern

\* Of some phases the worst is one, and none is worse.
LEMMA WorstOfPhases ==
    ASSUME NEW F, F \subseteq Phase, F # {}
    PROVE  /\ WorstPhase(F) \in F
           /\ \A f \in F : podPhasePriority(f) <= podPhasePriority(WorstPhase(F))
  <1>1. \E p \in F : \A q \in F : podPhasePriority(q) <= podPhasePriority(p)
    <2>1. /\ podPhasePriority("Failed") = 4 /\ podPhasePriority("Unknown") = 3
          /\ podPhasePriority("Pending") = 2 /\ podPhasePriority("Running") = 1
          /\ podPhasePriority("Succeeded") = 0
      BY DEF podPhasePriority
    <2>2. CASE "Failed" \in F
      BY <2>1, <2>2 DEF Phase
    <2>3. CASE "Failed" \notin F /\ "Unknown" \in F
      BY <2>1, <2>3 DEF Phase
    <2>4. CASE "Failed" \notin F /\ "Unknown" \notin F /\ "Pending" \in F
      BY <2>1, <2>4 DEF Phase
    <2>5. CASE F \subseteq {"Running", "Succeeded"} /\ "Running" \in F
      BY <2>1, <2>5
    <2>6. CASE F = {"Succeeded"}
      BY <2>1, <2>6
    <2>. QED  BY <2>2, <2>3, <2>4, <2>5, <2>6 DEF Phase
  <1>. QED  BY <1>1 DEF WorstPhase

\* The status of the Pod that the API picks is not worse than the monitor's,
\* and the same if there is only one.
LEMMA PickedPodStatus ==
    ASSUME NEW ps \in SUBSET Pod, \A p \in ps : pods[p].phase \in Phase,
           NEW p \in selectActivePod(ps), NEW i, NEW says \in MonitorStatuses(i, ps)
    PROVE  LET status == MapPodPhaseToStatus(pods[p].phase)
           IN /\ p \in ps
              /\ status = says \/ Concern(status) < Concern(says)
              /\ ps = {p} => status = says
  <1>1. p \in ps
    BY DEF selectActivePod
  <1>. DEFINE F == {pods[q].phase : q \in ps}
              f == pods[p].phase
              w == WorstPhase(F)
  <1>2. F \subseteq Phase /\ F # {} /\ f \in F
    BY <1>1
  <1>3. w \in F /\ podPhasePriority(f) <= podPhasePriority(w)
    <2>. HIDE DEF F, f
    <2>. QED  BY <1>2, WorstOfPhases
  <1>4. says = MapPodPhaseToStatus(w)
    <2>1. w # None
      BY <1>2, <1>3, PhaseFacts
    <2>2. \E deploy : says = ReconcileStatus(deploy, w)
      BY DEF MonitorStatuses
    <2>. HIDE DEF w
    <2>. QED  BY <2>1, <2>2 DEF ReconcileStatus
  <1>5. ps = {p} => w = f
    BY <1>3
  <1>. HIDE DEF F, w, f
  <1>6. /\ f \in Phase /\ w \in Phase
    BY <1>2, <1>3
  <1>7. f = w \/ Concern(MapPodPhaseToStatus(f)) < Concern(MapPodPhaseToStatus(w))
    <2>1. podPhasePriority(f) \in 0..4 /\ podPhasePriority(w) \in 0..4
          /\ Concern(MapPodPhaseToStatus(f)) = podPhasePriority(f)
          /\ Concern(MapPodPhaseToStatus(w)) = podPhasePriority(w)
          /\ (podPhasePriority(f) = podPhasePriority(w) => f = w)
      BY <1>6, PhaseFacts
    <2>. QED  BY <1>3, <2>1
  <1>. QED  BY <1>1, <1>4, <1>5, <1>7 DEF f

\* Without a Pod the API says PENDING.
LEMMA NoPodStatus ==
    ASSUME NEW i, NEW says \in MonitorStatuses(i, {})
    PROVE  says \in {"DELETED", "PENDING", "FAILED"}
  <1>1. WorstPhase({pods[p].phase : p \in {}}) = None
    BY DEF WorstPhase
  <1>2. \A d : ReconcileStatus(d, None) \in {"DELETED", "PENDING", "FAILED"}
    BY DEF ReconcileStatus
  <1>3. \E deploy : says = ReconcileStatus(deploy, None)
    BY <1>1 DEF MonitorStatuses
  <1>. QED  BY <1>2, <1>3

-----------------------------------------------------------------------------
(* The cluster                                                             *)

LEMMA InitIInv == Init => IInv
  <1>. SUFFICES ASSUME Init PROVE IInv
    OBVIOUS
  <1>. USE DEF Init
  <1>1. DOMAIN spec = Name
        /\ \A n \in Name : spec[n] \in Asked[n] \cup {NoSpec}
    BY DEF AcceptedSpecs
  <1>2. page \in Seq([name : Name, facts : DeployFacts]) /\ built \in Seq(Name)
        /\ told \in Seq(Name) /\ Len(page) = 0
    OBVIOUS
  <1>3. TypeOK
    <2>1. facts \in [Name -> DeployFacts]
      BY FactsAssumption
    <2>2. pods \in [Pod -> [of : made, phase : Phases, born : 0..MaxChanges] \cup {NoPod}]
      OBVIOUS
    <2>3. /\ services \subseteq made /\ pending \subseteq made \ services
          /\ creating \subseteq Name \ made /\ before \in [Name -> SUBSET made]
      OBVIOUS
    <2>4. changes \in 0..MaxChanges
      BY ChangesAssumption
    <2>. QED  BY <1>1, <1>2, <2>1, <2>2, <2>3, <2>4 DEF TypeOK
  <1>4. MadeAccepted /\ Apart
    BY DEF MadeAccepted, Apart
  <1>5. Births
    BY DEF Births, NoPod
  <1>6. PageMade
    BY <1>2 DEF PageMade
  <1>7. Viewed /\ PagesAdvance /\ AgreesWithMonitor
    BY DEF Viewed, PagesAdvance, AgreesWithMonitor
  <1>. QED  BY <1>3, <1>4, <1>5, <1>6, <1>7 DEF IInv

\* Containers may come, but not change: what was shown of one stays right.
LEMMA ReaderUndisturbed ==
    ASSUME IInv, UNCHANGED <<reader, history>>, made \subseteq made',
           \A n \in made : spec'[n] = spec[n]
    PROVE  PageMade' /\ Viewed' /\ PagesAdvance' /\ AgreesWithMonitor'
  <1>. USE DEF IInv, reader, history
  <1>1. PageMade'
    BY DEF PageMade
  <1>2. Viewed'
    <2>1. \A n \in made : Rebuilt(n)' = Rebuilt(n)
      BY DEF Rebuilt
    <2>2. \A m, n \in made : Enriched(n, m)' = Enriched(n, m)
      BY <2>1 DEF Enriched
    <2>3. view # NoView =>
            view.name \in made /\ (view.serviceOf = 0 \/ view.serviceOf \in made)
      BY DEF Viewed
    <2>. QED  BY <2>1, <2>2, <2>3 DEF Viewed
  <1>3. PagesAdvance' /\ AgreesWithMonitor'
    BY DEF PagesAdvance, AgreesWithMonitor
  <1>. QED  BY <1>1, <1>2, <1>3

\* The reader's part of TypeOK.
ReaderTyped ==
    /\ op \in {"none", "get", "list"}
    /\ pc \in {"idle", "find", "list", "pods", "services", "answered"}
    /\ size \in PageSizes /\ offset \in Nat /\ token \in Nat
    /\ page \in Seq([name : Name, facts : DeployFacts])
    /\ built \in Seq(Name) /\ told \in Seq(Name)
    /\ pc \in {"pods", "services"} => page # <<>>
    /\ view = NoView \/ view.status \in ContainerStatus \cup {None}
    /\ answer \in {0, 200, 404, 500}
    /\ seen \subseteq Name /\ lost \subseteq Name /\ added \subseteq Name

ClusterTyped ==
    /\ deployments \subseteq made /\ services \subseteq made /\ made \subseteq Name
    /\ creating \subseteq Name \ made /\ pending \subseteq made \ services
    /\ before \in [Name -> SUBSET made]
    /\ DOMAIN spec = Name /\ \A n \in Name : spec[n] \in Asked[n] \cup {NoSpec}
    /\ facts \in [Name -> DeployFacts]
    /\ pods \in [Pod -> [of : made, phase : Phases, born : 0..MaxChanges] \cup {NoPod}]

LEMMA TypeParts == TypeOK <=> ClusterTyped /\ ReaderTyped /\ changes \in 0..MaxChanges
  BY DEF TypeOK, ClusterTyped, ReaderTyped

LEMMA TypePartsNext ==
    ClusterTyped' /\ ReaderTyped' /\ changes' \in 0..MaxChanges => TypeOK'
  BY DEF TypeOK, ClusterTyped, ReaderTyped

LEMMA ReaderTypedUnchanged ==
    ReaderTyped /\ UNCHANGED <<reader, history>> => ReaderTyped'
  BY DEF ReaderTyped, reader, history

LEMMA ClusterUnchanged ==
    IInv /\ UNCHANGED cluster /\ changes' \in {changes, changes + 1} =>
        ClusterTyped' /\ MadeAccepted' /\ Apart' /\ Births'
  <1>. SUFFICES ASSUME IInv, UNCHANGED cluster, changes' \in {changes, changes + 1}
                PROVE  ClusterTyped' /\ MadeAccepted' /\ Apart' /\ Births'
    OBVIOUS
  <1>. USE DEF IInv, cluster
  <1>1. ClusterTyped' /\ MadeAccepted' /\ Apart'
    BY TypeParts DEF ClusterTyped, MadeAccepted, AcceptedSpecs, Apart
  <1>2. Births'
    BY ChangesAssumption DEF Births, TypeOK
  <1>. QED  BY <1>1, <1>2

LEMMA LatestBirth ==
    ASSUME IInv, Pod # {}
    PROVE  Latest \in 0..changes
  <1>. DEFINE born == {pods[p].born : p \in Pod}
  <1>1. born \subseteq 0..changes /\ born # {} /\ changes \in Nat
    BY ChangesAssumption DEF IInv, Births, TypeOK
  <1>2. IsFiniteSet(born)
    <2>1. IsFiniteSet(0..changes)
      <3>1. 0 \in Int /\ changes \in Int
        BY <1>1
      <3>. QED  BY <3>1, FS_Interval
    <2>. HIDE DEF born
    <2>. QED  BY <1>1, <2>1, FS_Subset
  <1>3. \E b \in born : \A c \in born : c <= b
    <2>1. born \subseteq Nat
      BY <1>1
    <2>. HIDE DEF born
    <2>. QED  BY <1>1, <1>2, <2>1, Largest
  <1>4. Latest \in born
    <2>1. Latest = CHOOSE b \in born : \A c \in born : c <= b
      BY DEF Latest
    <2>. HIDE DEF born
    <2>. QED  BY <1>3, <2>1
  <1>. QED  BY <1>1, <1>4

LEMMA ClusterIInv == IInv /\ ClusterStep => IInv'
  <1>. SUFFICES ASSUME IInv, ClusterStep PROVE IInv'
    OBVIOUS
  <1>. USE DEF IInv
  <1>0. /\ UNCHANGED <<reader, history>> /\ changes' = changes + 1
        /\ changes \in 0..MaxChanges /\ changes' \in 0..MaxChanges
    BY ChangesAssumption DEF ClusterStep, CheckId, CreateDeployment, CreateService, DeleteService,
      DeleteDeployment, DeploymentChange, PodCreated, PodChange, PodGone, Change, TypeOK
  <1>1. ReaderTyped'
    BY <1>0, TypeParts, ReaderTypedUnchanged
  <1>2. SUFFICES /\ ClusterTyped' /\ MadeAccepted' /\ Apart' /\ Births'
                 /\ made \subseteq made' /\ \A n \in made : spec'[n] = spec[n]
    BY <1>0, <1>1, <1>2, TypePartsNext, ReaderUndisturbed, Zenon
  <1>3. ClusterTyped
    BY TypeParts
  <1>4. CASE \E n \in Name : CreateDeployment(n)
    <2>1. PICK n \in Name : CreateDeployment(n)
      BY <1>4
    <2>2. PICK s \in AcceptedSpecs(n) :
            /\ spec' = [spec EXCEPT ![n] = s]
            /\ pending' = IF portsWithVisibility(s) # {} THEN pending \cup {n} ELSE pending
      BY <2>1 DEF CreateDeployment
    <2>3. /\ n \notin made /\ made' = made \cup {n} /\ deployments' = deployments \cup {n}
          /\ n \in creating /\ creating' = creating \ {n}
          /\ UNCHANGED <<services, facts, pods, before>>
      BY <2>1, <1>3 DEF CreateDeployment, ClusterTyped
    <2>4. s \in Asked[n]
      BY DEF AcceptedSpecs
    <2>5. \A m \in made : spec'[m] = spec[m]
      BY <2>2, <2>3, <1>3 DEF ClusterTyped
    <2>6. MadeAccepted'
      <3>1. spec'[n] = s
        BY <1>3, <2>2 DEF ClusterTyped
      <3>. QED  BY <2>3, <2>5, <3>1 DEF MadeAccepted, AcceptedSpecs
    <2>7. Apart'
      BY <1>3, <2>3 DEF Apart, ClusterTyped
    <2>8. Births'
      BY <1>0, <2>3, ChangesAssumption DEF Births
    <2>9. ClusterTyped'
      <3>1. pods' \in [Pod -> [of : made', phase : Phases, born : 0..MaxChanges] \cup {NoPod}]
        BY <1>3, <2>3 DEF ClusterTyped
      <3>2. DOMAIN spec' = Name /\ \A m \in Name : spec'[m] \in Asked[m] \cup {NoSpec}
        BY <1>3, <2>2, <2>4 DEF ClusterTyped
      <3>3. /\ pending' \subseteq made' \ services' /\ creating' \subseteq Name \ made'
            /\ before' \in [Name -> SUBSET made']
        BY <1>3, <2>2, <2>3 DEF ClusterTyped
      <3>. QED  BY <1>3, <2>3, <3>1, <3>2, <3>3 DEF ClusterTyped
    <2>. QED  BY <2>3, <2>5, <2>6, <2>7, <2>8, <2>9
  <1>5. CASE \E n \in Name : CreateService(n) \/ DeleteService(n) \/ DeleteDeployment(n)
                             \/ DeploymentChange(n)
    <2>1. PICK n \in Name : CreateService(n) \/ DeleteService(n) \/ DeleteDeployment(n)
                            \/ DeploymentChange(n)
      BY <1>5
    <2>. USE <2>1 DEF CreateService, DeleteService, DeleteDeployment, DeploymentChange
    <2>2. UNCHANGED <<creating, made, spec, pods, before>> /\ deployments' \subseteq deployments
      OBVIOUS
    <2>3. facts' \in [Name -> DeployFacts]
      BY <1>3 DEF ClusterTyped
    <2>4. services' \subseteq made /\ pending' \subseteq made \ services'
      BY <1>3 DEF ClusterTyped
    <2>5. ClusterTyped'
      BY <1>3, <2>2, <2>3, <2>4 DEF ClusterTyped
    <2>6. MadeAccepted' /\ Apart'
      BY <2>2 DEF MadeAccepted, AcceptedSpecs, Apart
    <2>7. Births'
      BY <1>0, <2>2, ChangesAssumption DEF Births
    <2>. QED  BY <2>2, <2>5, <2>6, <2>7
  <1>6. CASE \E p \in Pod : PodChange(p) \/ PodGone(p) \/ \E n \in Name : PodCreated(p, n)
    <2>1. PICK p \in Pod : PodChange(p) \/ PodGone(p) \/ \E n \in Name : PodCreated(p, n)
      BY <1>6
    <2>2. UNCHANGED <<deployments, services, creating, pending, made, spec, facts, before>>
      BY <2>1 DEF PodChange, PodGone, PodCreated
    <2>3. \E new \in [of : made, phase : Phases, born : 0..changes'] \cup {NoPod} :
            pods' = [pods EXCEPT ![p] = new]
      <3>1. CASE PodGone(p)
        BY <3>1 DEF PodGone
      <3>2. CASE PodChange(p)
        <4>1. PICK phase \in Phases : pods' = [pods EXCEPT ![p].phase = phase]
          BY <3>2 DEF PodChange
        <4>2. pods[p].of # 0
          BY <3>2 DEF PodChange
        <4>3. pods[p] \in [of : made, phase : Phases, born : 0..MaxChanges]
          BY <1>3, <4>2 DEF ClusterTyped, NoPod
        <4>4. pods[p].born \in 0..changes'
          BY <1>0, ChangesAssumption DEF Births
        <4>5. [pods[p] EXCEPT !.phase = phase]
                 \in [of : made, phase : Phases, born : 0..changes']
          BY <4>3, <4>4
        <4>6. pods' = [pods EXCEPT ![p] = [pods[p] EXCEPT !.phase = phase]]
          BY <4>1
        <4>. QED  BY <4>5, <4>6
      <3>3. CASE \E n \in Name : PodCreated(p, n)
        <4>1. PICK n \in Name, phase \in Phases, born \in {Latest, Latest + 1} :
                n \in deployments
                /\ pods' = [pods EXCEPT ![p] = [of |-> n, phase |-> phase, born |-> born]]
          BY <3>3 DEF PodCreated
        <4>2. Latest \in 0..changes
          BY LatestBirth
        <4>3. born \in 0..changes'
          BY <1>0, <4>2, ChangesAssumption
        <4>4. n \in made
          BY <1>3, <4>1 DEF ClusterTyped
        <4>. QED  BY <4>1, <4>3, <4>4
      <3>. QED  BY <2>1, <3>1, <3>2, <3>3
    <2>4. PICK new \in [of : made, phase : Phases, born : 0..changes'] \cup {NoPod} :
            pods' = [pods EXCEPT ![p] = new]
      BY <2>3
    <2>5. new \in [of : made, phase : Phases, born : 0..MaxChanges] \cup {NoPod}
          /\ new.born \in 0..changes'
      BY <1>0, ChangesAssumption DEF NoPod
    <2>6. pods' \in [Pod -> [of : made', phase : Phases, born : 0..MaxChanges] \cup {NoPod}]
      BY <1>3, <2>2, <2>4, <2>5 DEF ClusterTyped
    <2>7. Births'
      BY <1>0, <1>3, <2>4, <2>5, ChangesAssumption DEF Births, ClusterTyped
    <2>8. ClusterTyped'
      BY <1>3, <2>2, <2>6 DEF ClusterTyped
    <2>9. MadeAccepted' /\ Apart'
      BY <2>2 DEF MadeAccepted, AcceptedSpecs, Apart
    <2>. QED  BY <2>2, <2>7, <2>8, <2>9
  <1>7. CASE \E n \in Name : CheckId(n)
    <2>1. PICK n \in Name : CheckId(n)
      BY <1>7
    <2>2. /\ UNCHANGED <<deployments, services, pending, made, spec, facts, pods>>
          /\ n \notin made /\ creating' = creating \cup {n}
          /\ before' = [before EXCEPT ![n] = {m \in made : InstanceId[m] = InstanceId[n]}]
          /\ Selected(deployments, instanceSelector(InstanceId[n])) = {}
      BY <2>1 DEF CheckId
    <2>3. ClusterTyped'
      BY <1>3, <2>2 DEF ClusterTyped
    <2>4. MadeAccepted'
      BY <2>2 DEF MadeAccepted, AcceptedSpecs
    <2>5. Apart'
      <3>1. \A m \in deployments : InstanceId[m] # InstanceId[n]
        BY <1>3, <2>2, SelectsInstance DEF Selected, ClusterTyped
      <3>. QED  BY <1>3, <2>2, <3>1 DEF Apart, ClusterTyped
    <2>6. Births'
      BY <1>0, <2>2, ChangesAssumption DEF Births
    <2>. QED  BY <2>2, <2>3, <2>4, <2>5, <2>6
  <1>. QED  BY <1>4, <1>5, <1>6, <1>7 DEF ClusterStep

-----------------------------------------------------------------------------
(* The calls of a request                                                  *)

LEMMA FunctionIsSeq ==
    ASSUME NEW S, NEW n \in Nat, NEW s \in [1..n -> S]
    PROVE  s \in Seq(S) /\ Len(s) = n
  OBVIOUS

\* A call that shows nothing new.
LEMMA ShowsNothing ==
    ASSUME IInv, UNCHANGED cluster, changes' \in {changes, changes + 1},
           changes' \in 0..MaxChanges, ReaderTyped', PageMade', PagesAdvance',
           pc' # "services", view' \in {view, NoView}
    PROVE  IInv'
  <1>1. Viewed'
    <2>1. \A n : Rebuilt(n)' = Rebuilt(n) /\ \A m : Enriched(n, m)' = Enriched(n, m)
      BY DEF Rebuilt, Enriched, cluster
    <2>2. made' = made
      BY DEF cluster
    <2>3. CASE view' = NoView
      BY <2>3 DEF Viewed
    <2>4. CASE view' = view
      BY <2>1, <2>2, <2>4, Zenon DEF Viewed, IInv
    <2>. QED  BY <2>3, <2>4
  <1>2. AgreesWithMonitor'
    BY DEF AgreesWithMonitor
  <1>. QED  BY <1>1, <1>2, ClusterUnchanged, TypePartsNext DEF IInv

\* Every call but the three that list something.
LEMMA SimpleCalls ==
    ASSUME IInv,
           \/ \E n \in Name : Get(InstanceId[n])
           \/ List \/ FindDeployment \/ CallFails \/ NextPage \/ Retry
    PROVE  IInv'
  <1>. USE DEF IInv
  <1>1. UNCHANGED cluster /\ changes' \in {changes, changes + 1} /\ changes' \in 0..MaxChanges
    BY ChangesAssumption DEF Get, List, FindDeployment, CallFails, NextPage, Retry, Quietly, TypeOK
  <1>2. pc' # "services" /\ view' \in {view, NoView}
    BY DEF Get, List, FindDeployment, CallFails, NextPage, Retry, Reply
  <1>3. ReaderTyped
    BY TypeParts
  <1>4. PagesAdvance'
    BY DEF Get, List, FindDeployment, CallFails, NextPage, Retry, history, PagesAdvance
  <1>5. PageMade' /\ ReaderTyped'
    <2>1. CASE FindDeployment
      <3>. DEFINE hits == Selected(deployments, instanceSelector(want))
      <3>1. hits \subseteq deployments /\ deployments \subseteq made /\ made \subseteq Name
            /\ facts \in [Name -> DeployFacts]
        BY DEF Selected, TypeOK
      <3>2. CASE Cardinality(hits) = 1
        <4>1. PICK n \in hits : page' = <<[name |-> n, facts |-> facts[n]]>>
          BY <2>1, <3>2 DEF FindDeployment
        <4>2. pc' = "pods" /\ UNCHANGED answer
          BY <2>1, <3>2 DEF FindDeployment
        <4>3. [name |-> n, facts |-> facts[n]] \in [name : Name, facts : DeployFacts]
          BY <3>1
        <4>4. /\ page' \in Seq([name : Name, facts : DeployFacts])
              /\ Len(page') = 1 /\ page'[1].name = n /\ page' # <<>>
          BY <4>1, <4>3
        <4>5. PageMade'
          BY <3>1, <4>4, <1>1 DEF PageMade, cluster
        <4>. QED  BY <2>1, <1>3, <4>2, <4>4, <4>5 DEF FindDeployment, ReaderTyped, history
      <3>3. CASE Cardinality(hits) # 1
        <4>1. pc' = "answered" /\ answer' \in {404, 500} /\ page' = page
          BY <2>1, <3>3 DEF FindDeployment, Reply
        <4>. QED  BY <2>1, <1>1, <1>3, <4>1 DEF FindDeployment, ReaderTyped, PageMade, history,
                     cluster
      <3>. QED  BY <3>2, <3>3
    <2>2. CASE CallFails
      <3>1. page' = <<>> /\ built' = <<>> /\ pc' = "answered" /\ answer' = 500
        BY <2>2 DEF CallFails, Reply
      <3>2. page' \in Seq([name : Name, facts : DeployFacts]) /\ Len(page') = 0
            /\ built' \in Seq(Name)
        BY <3>1
      <3>. QED  BY <2>2, <1>3, <3>1, <3>2 DEF CallFails, ReaderTyped, PageMade, history
    <2>3. CASE (\E n \in Name : Get(InstanceId[n])) \/ List \/ NextPage \/ Retry
      BY <2>3, <1>1, <1>3 DEF Get, List, NextPage, Retry, ReaderTyped, PageMade, history, cluster
    <2>. QED  BY <2>1, <2>2, <2>3
  <1>. QED  BY <1>1, <1>2, <1>4, <1>5, ShowsNothing

\* What ListDeployments has selected, and where the page is.
LEMMA Listing ==
    ASSUME IInv, ListDeployments
    PROVE  LET now == Selected(deployments, dcmSelector)
               sorted == sortedByName(now)
               total == Cardinality(now)
               from == Smaller(offset, total)
               limit == Smaller(IF size <= 0 THEN defaultPageSize ELSE size, total - from)
           IN /\ now = deployments /\ IsFiniteSet(now) /\ now \subseteq Nat /\ total \in Nat
              /\ sorted \in [1..total -> now]
              /\ from \in Nat /\ limit \in Nat /\ from + limit <= total
              /\ from <= offset /\ (from = offset \/ from = total)
              /\ limit = 0 => from = total
              /\ page' = [k \in 1..limit |->
                            [name |-> sorted[from + k], facts |-> facts[sorted[from + k]]]]
              /\ token' = IF from + limit < total THEN from + limit ELSE 0
              /\ token' \in Nat /\ (token' # 0 => token' > offset /\ token' < total)
              /\ IF limit = 0 THEN Reply(200) ELSE pc' = "pods" /\ UNCHANGED answer
              /\ seen' = now
              /\ lost' = IF told = <<>> THEN {} ELSE lost \cup (seen \ now)
              /\ added' = IF told = <<>> THEN {} ELSE added \cup (now \ seen)
  <1>. DEFINE now == Selected(deployments, dcmSelector)
              sorted == sortedByName(now)
              total == Cardinality(now)
              from == Smaller(offset, total)
              limit == Smaller(IF size <= 0 THEN defaultPageSize ELSE size, total - from)
  <1>1. deployments \subseteq Name /\ offset \in Nat /\ size \in Int
    BY SizesAssumption DEF IInv, TypeOK
  <1>2. now = deployments
    BY SelectsOwn
  <1>3. /\ page' = [k \in 1..limit |->
                      [name |-> sorted[from + k], facts |-> facts[sorted[from + k]]]]
        /\ token' = nextToken(from + limit, total)
        /\ IF limit = 0 THEN Reply(200) ELSE pc' = "pods" /\ UNCHANGED answer
        /\ seen' = now
        /\ lost' = IF told = <<>> THEN {} ELSE lost \cup (seen \ now)
        /\ added' = IF told = <<>> THEN {} ELSE added \cup (now \ seen)
    BY Zenon DEF ListDeployments
  <1>. HIDE DEF now
  <1>4. IsFiniteSet(now) /\ now \subseteq Nat
    BY <1>1, <1>2, NameAssumption, FS_Subset
  <1>5. total \in Nat /\ sorted \in [1..total -> now]
    BY <1>4, SortedByName
  <1>. HIDE DEF total, sorted
  <1>6. /\ from = Smaller(offset, total)
        /\ limit = Smaller(IF size <= 0 THEN defaultPageSize ELSE size, total - from)
    OBVIOUS
  <1>. HIDE DEF from, limit
  <1>7. from \in Nat /\ from <= offset /\ from <= total /\ (from = offset \/ from = total)
    BY <1>1, <1>5, <1>6 DEF Smaller
  <1>8. limit \in Nat /\ from + limit <= total /\ (limit = 0 => from = total)
    BY <1>1, <1>5, <1>6, <1>7 DEF Smaller, defaultPageSize
  <1>9. /\ token' \in Nat /\ (token' # 0 => token' > offset /\ token' < total)
        /\ token' = IF from + limit < total THEN from + limit ELSE 0
    BY <1>1, <1>3, <1>5, <1>7, <1>8 DEF nextToken
  <1>. QED
    BY <1>2, <1>3, <1>4, <1>5, <1>7, <1>8, <1>9, Zenon DEF now, total, sorted, from, limit

LEMMA ListDeploymentsIInv == IInv /\ ListDeployments => IInv'
  <1>. SUFFICES ASSUME IInv, ListDeployments PROVE IInv'
    OBVIOUS
  <1>. USE DEF IInv
  <1>. DEFINE now == Selected(deployments, dcmSelector)
              sorted == sortedByName(now)
              total == Cardinality(now)
              from == Smaller(offset, total)
              limit == Smaller(IF size <= 0 THEN defaultPageSize ELSE size, total - from)
  <1>1. UNCHANGED cluster /\ changes' = changes /\ view' = view
    BY DEF ListDeployments, Quietly
  <1>2. /\ now = deployments /\ total \in Nat /\ sorted \in [1..total -> now]
        /\ from \in Nat /\ limit \in Nat /\ from + limit <= total
        /\ page' = [k \in 1..limit |->
                      [name |-> sorted[from + k], facts |-> facts[sorted[from + k]]]]
        /\ token' \in Nat /\ (token' # 0 => token' > offset /\ token' < total)
        /\ IF limit = 0 THEN Reply(200) ELSE pc' = "pods" /\ UNCHANGED answer
        /\ seen' = now
        /\ lost' = IF told = <<>> THEN {} ELSE lost \cup (seen \ now)
        /\ added' = IF told = <<>> THEN {} ELSE added \cup (now \ seen)
    BY Listing, Zenon
  <1>3. /\ deployments \subseteq made /\ made \subseteq Name /\ facts \in [Name -> DeployFacts]
        /\ changes' \in 0..MaxChanges
    BY <1>1 DEF TypeOK
  <1>. HIDE DEF now, total, sorted, from, limit
  <1>4. \A k \in 1..limit :
          /\ page'[k] \in [name : Name, facts : DeployFacts]
          /\ page'[k].name \in made
    <2>. TAKE k \in 1..limit
    <2>1. from + k \in 1..total
      BY <1>2
    <2>2. sorted[from + k] \in deployments
      BY <1>2, <2>1
    <2>. QED  BY <1>2, <1>3, <2>1, <2>2
  <1>5. /\ page' \in Seq([name : Name, facts : DeployFacts])
        /\ Len(page') = limit
    <2>1. page' \in [1..limit -> [name : Name, facts : DeployFacts]]
      BY <1>2, <1>4
    <2>2. limit \in Nat
      BY <1>2
    <2>. QED  BY <2>1, <2>2, FunctionIsSeq, Zenon
  <1>6. PageMade'
    BY <1>1, <1>4, <1>5 DEF PageMade, cluster
  <1>7. PagesAdvance'
    <2>1. offset' = offset
      BY DEF ListDeployments
    <2>. QED  BY <1>2, <2>1 DEF PagesAdvance, total
  <1>8. pc' \in {"answered", "pods"} /\ answer' \in {0, 200, 404, 500}
        /\ (pc' = "pods" => page' # <<>>)
    <2>1. CASE limit = 0
      BY <1>2, <2>1 DEF Reply
    <2>2. CASE limit # 0
      <3>1. pc' = "pods" /\ answer' = answer
        BY <1>2, <2>2
      <3>2. page' # <<>>
        BY <1>5, <2>2
      <3>. QED  BY <3>1, <3>2 DEF TypeOK
    <2>. QED  BY <2>1, <2>2
  <1>9. ReaderTyped'
    <2>1. ReaderTyped
      BY TypeParts
    <2>2. UNCHANGED <<op, want, size, offset, view, told, monitorSays>> /\ built' = <<>>
      BY DEF ListDeployments
    <2>3. seen' \subseteq Name /\ lost' \subseteq Name /\ added' \subseteq Name
      BY <1>2, <1>3, <2>1 DEF ReaderTyped
    <2>4. built' \in Seq(Name)
      BY <2>2
    <2>5. token' \in Nat
      BY <1>2
    <2>. QED  BY <1>5, <1>8, <2>1, <2>2, <2>3, <2>4, <2>5 DEF ReaderTyped
  <1>. QED  BY <1>1, <1>3, <1>6, <1>7, <1>8, <1>9, ShowsNothing

\* The first container of the page was made.
LEMMA HeadMade ==
    ASSUME IInv, pc \in {"pods", "services"}
    PROVE  /\ Head(page) = page[1] /\ Head(page).name \in made
           /\ Head(page).name \in Name /\ Head(page).name # 0
           /\ Len(page) \in Nat \ {0}
           /\ Tail(page) \in Seq([name : Name, facts : DeployFacts])
           /\ Len(Tail(page)) = Len(page) - 1
           /\ \A k \in 1..Len(Tail(page)) : Tail(page)[k] = page[k + 1]
  <1>1. page \in Seq([name : Name, facts : DeployFacts]) /\ page # <<>> /\ made \subseteq Name
    BY DEF IInv, TypeOK
  <1>2. Len(page) \in Nat \ {0} /\ Head(page) = page[1]
    BY <1>1, EmptySeq
  <1>3. page[1].name \in made
    BY <1>2 DEF IInv, PageMade
  <1>4. /\ Tail(page) \in Seq([name : Name, facts : DeployFacts])
        /\ Len(Tail(page)) = Len(page) - 1
        /\ \A k \in 1..Len(Tail(page)) : Tail(page)[k] = page[k + 1]
    BY <1>1, HeadTailProperties, Zenon
  <1>5. Head(page).name \in made /\ Head(page).name \in Name /\ Head(page).name # 0
    BY <1>1, <1>2, <1>3, NameAssumption
  <1>. QED  BY <1>2, <1>4, <1>5, Zenon

\* The Pods of an instance: of containers of its id, and in a phase.
LEMMA PodsOf ==
    ASSUME IInv, NEW i
    PROVE  LET ps == PodsSelected(instanceSelector(i))
           IN /\ ps \in SUBSET Pod /\ IsFiniteSet(ps)
              /\ \A p \in ps : /\ pods[p].of \in made /\ InstanceId[pods[p].of] = i
                               /\ pods[p].phase \in Phase
  <1>. DEFINE ps == PodsSelected(instanceSelector(i))
  <1>1. ps \in SUBSET Pod /\ \A p \in ps : pods[p].of # 0 /\ InstanceId[pods[p].of] = i
    BY SelectsInstance DEF PodsSelected
  <1>2. IsFiniteSet(ps)
    <2>. HIDE DEF ps
    <2>. QED  BY <1>1, NameAssumption, FS_Subset
  <1>3. \A p \in ps : pods[p] \in [of : made, phase : Phases, born : 0..MaxChanges]
    BY <1>1 DEF IInv, TypeOK, NoPod
  <1>. QED  BY <1>1, <1>2, <1>3, PhasesAssumption

\* The container is shown with a status, when its Pods have been listed.
LEMMA ListPodsShown ==
    ASSUME IInv, ListPods, pc' = "services"
    PROVE  \E status \in ContainerStatus \cup {None} : \E of :
             LET n == Head(page).name
                 ps == PodsSelected(instanceSelector(InstanceId[n]))
             IN /\ view' = [name |-> n, status |-> status, podOf |-> of, done |-> FALSE,
                            serviceOf |-> 0, pods |-> Cardinality(ps), spec |-> Rebuilt(n)]
                /\ monitorSays' \in MonitorStatuses(InstanceId[n], ps)
                /\ of # 0 => of \in made /\ InstanceId[of] = InstanceId[n]
                /\ \/ monitorSays' = "DELETED" \/ status = monitorSays'
                   \/ Cardinality(ps) = 0 /\ status = "PENDING" /\ monitorSays' = "FAILED"
                   \/ Cardinality(ps) = 2 /\ Concern(status) < Concern(monitorSays')
                /\ answer' = answer
  <1>. DEFINE n == Head(page).name
              ps == PodsSelected(instanceSelector(InstanceId[n]))
              shown(status, of) ==
                [name |-> n, status |-> status, podOf |-> of, done |-> FALSE,
                 serviceOf |-> 0, pods |-> Cardinality(ps), spec |-> Rebuilt(n)]
              limit == IF isRollingUpdate(Head(page).facts) THEN {1, 2} ELSE {1}
  <1>1. ps \in SUBSET Pod /\ IsFiniteSet(ps)
        /\ \A p \in ps : /\ pods[p].of \in made /\ InstanceId[pods[p].of] = InstanceId[n]
                         /\ pods[p].phase \in Phase
    <2>. HIDE DEF n
    <2>. QED  BY PodsOf, Zenon
  <1>2. monitorSays' \in MonitorStatuses(InstanceId[n], ps)
    BY DEF ListPods
  <1>3. \/ ps = {} /\ view' = shown("PENDING", 0) /\ answer' = answer
        \/ /\ Cardinality(ps) \in limit /\ answer' = answer
           /\ \E p \in selectActivePod(ps) :
                view' = shown(MapPodPhaseToStatus(pods[p].phase), pods[p].of)
    BY DEF ListPods, Rebuilt, Reply
  <1>. HIDE DEF n, ps, shown, limit
  <1>4. CASE ps = {} /\ view' = shown("PENDING", 0) /\ answer' = answer
    <2>1. monitorSays' \in {"DELETED", "PENDING", "FAILED"}
      BY <1>2, <1>4, NoPodStatus
    <2>2. Cardinality(ps) = 0
      BY <1>4, FS_EmptySet
    <2>3. "PENDING" \in ContainerStatus \cup {None}
      BY DEF ContainerStatus
    <2>. WITNESS "PENDING" \in ContainerStatus \cup {None}
    <2>. WITNESS 0
    <2>. QED  BY <1>2, <1>4, <2>1, <2>2 DEF shown, n, ps
  <1>5. ASSUME Cardinality(ps) \in limit, answer' = answer, NEW p \in selectActivePod(ps),
               view' = shown(MapPodPhaseToStatus(pods[p].phase), pods[p].of)
        PROVE  \E status \in ContainerStatus \cup {None} : \E of :
                 /\ view' = shown(status, of)
                 /\ monitorSays' \in MonitorStatuses(InstanceId[n], ps)
                 /\ of # 0 => of \in made /\ InstanceId[of] = InstanceId[n]
                 /\ \/ monitorSays' = "DELETED" \/ status = monitorSays'
                    \/ Cardinality(ps) = 0 /\ status = "PENDING" /\ monitorSays' = "FAILED"
                    \/ Cardinality(ps) = 2 /\ Concern(status) < Concern(monitorSays')
                 /\ answer' = answer
    <2>. DEFINE status == MapPodPhaseToStatus(pods[p].phase)
    <2>1. /\ p \in ps
          /\ status = monitorSays' \/ Concern(status) < Concern(monitorSays')
          /\ ps = {p} => status = monitorSays'
      BY <1>1, <1>2, PickedPodStatus
    <2>2. Cardinality(ps) = 1 => ps = {p}
      <3>. SUFFICES ASSUME Cardinality(ps) = 1 PROVE ps = {p}
        OBVIOUS
      <3>1. PICK q : ps = {q}
        BY <1>1, FS_Singleton
      <3>. QED  BY <2>1, <3>1
    <2>3. Cardinality(ps) \in {1, 2}
      BY <1>5 DEF limit
    <2>4. status \in ContainerStatus \cup {None}
      BY <1>1, <2>1, PhaseFacts
    <2>5. pods[p].of \in made /\ InstanceId[pods[p].of] = InstanceId[n]
      BY <1>1, <2>1
    <2>6. \/ status = monitorSays'
          \/ Cardinality(ps) = 2 /\ Concern(status) < Concern(monitorSays')
      BY <2>1, <2>2, <2>3
    <2>7. view' = shown(status, pods[p].of)
      BY <1>5
    <2>. HIDE DEF status
    <2>. WITNESS status \in ContainerStatus \cup {None}
    <2>. WITNESS pods[p].of
    <2>. QED  BY <1>2, <1>5, <2>5, <2>6, <2>7, Zenon
  <1>6. \E status \in ContainerStatus \cup {None} : \E of :
                 /\ view' = shown(status, of)
                 /\ monitorSays' \in MonitorStatuses(InstanceId[n], ps)
                 /\ of # 0 => of \in made /\ InstanceId[of] = InstanceId[n]
                 /\ \/ monitorSays' = "DELETED" \/ status = monitorSays'
                    \/ Cardinality(ps) = 0 /\ status = "PENDING" /\ monitorSays' = "FAILED"
                    \/ Cardinality(ps) = 2 /\ Concern(status) < Concern(monitorSays')
                 /\ answer' = answer
    <2>1. CASE ps = {} /\ view' = shown("PENDING", 0) /\ answer' = answer
      BY <1>4, <2>1, Zenon DEF shown, n, ps
    <2>. QED  BY <1>3, <1>5, <2>1, Zenon
  <1>. QED  BY <1>6, Zenon DEF shown, n, ps

LEMMA ListPodsIInv == IInv /\ ListPods => IInv'
  <1>. SUFFICES ASSUME IInv, ListPods PROVE IInv'
    OBVIOUS
  <1>. USE DEF IInv
  <1>1. UNCHANGED cluster /\ changes' = changes /\ changes' \in 0..MaxChanges
    BY DEF ListPods, Quietly, TypeOK
  <1>2. pc = "pods"
        /\ UNCHANGED <<op, want, size, offset, page, built, token, told, seen, lost, added>>
    BY DEF ListPods
  <1>3. PageMade' /\ PagesAdvance'
    BY <1>1, <1>2 DEF PageMade, PagesAdvance, cluster
  <1>4. ReaderTyped
    BY TypeParts
  <1>5. CASE pc' # "services"
    <2>1. pc' = "answered" /\ answer' = 500 /\ view' = view
      BY <1>5 DEF ListPods, Reply
    <2>2. ReaderTyped'
      BY <1>2, <1>4, <2>1 DEF ReaderTyped
    <2>. QED  BY <1>1, <1>3, <2>1, <2>2, ShowsNothing
  <1>6. CASE pc' = "services"
    <2>. DEFINE n == Head(page).name
                ps == PodsSelected(instanceSelector(InstanceId[n]))
    <2>1. PICK status, of :
                /\ status \in ContainerStatus \cup {None}
                /\ view' = [name |-> n, status |-> status, podOf |-> of, done |-> FALSE,
                            serviceOf |-> 0, pods |-> Cardinality(ps), spec |-> Rebuilt(n)]
                /\ of # 0 => of \in made /\ InstanceId[of] = InstanceId[n]
                /\ \/ monitorSays' = "DELETED" \/ status = monitorSays'
                   \/ Cardinality(ps) = 0 /\ status = "PENDING" /\ monitorSays' = "FAILED"
                   \/ Cardinality(ps) = 2 /\ Concern(status) < Concern(monitorSays')
                /\ answer' = answer
      BY <1>6, ListPodsShown, Zenon
    <2>2. n \in made /\ n # 0
      BY <1>2, HeadMade
    <2>. HIDE DEF ps
    <2>3. ReaderTyped'
      <3>1. page # <<>>
        BY <1>2, <1>4 DEF ReaderTyped
      <3>2. view'.status \in ContainerStatus \cup {None} /\ answer' = answer
        BY <2>1
      <3>. QED  BY <1>2, <1>4, <1>6, <3>1, <3>2 DEF ReaderTyped
    <2>4. Viewed'
      <3>1. view' # NoView /\ view'.name = n /\ n = Head(page').name
        BY <1>2, <2>1, <2>2 DEF NoView
      <3>2. view'.spec = Rebuilt(view.name)' /\ view'.serviceOf = 0 /\ view'.podOf = of
        BY <1>1, <2>1 DEF Rebuilt, cluster
      <3>3. view' = [name |-> view'.name, status |-> view'.status, podOf |-> view'.podOf,
                     done |-> view'.done, serviceOf |-> view'.serviceOf,
                     pods |-> view'.pods, spec |-> view'.spec]
        BY <2>1
      <3>4. n \in made' /\ (of # 0 => of \in made' /\ InstanceId[of] = InstanceId[n])
        BY <1>1, <2>1, <2>2 DEF cluster
      <3>. HIDE DEF n
      <3>. QED  BY <3>1, <3>2, <3>3, <3>4 DEF Viewed
    <2>5. AgreesWithMonitor'
      BY <2>1 DEF AgreesWithMonitor
    <2>. QED  BY <1>1, <1>3, <2>3, <2>4, <2>5, ClusterUnchanged, TypePartsNext
  <1>. QED  BY <1>5, <1>6

\* The one Service of an id is of a container that has it.
LEMMA ServiceOf ==
    ASSUME IInv, NEW i,
           Cardinality(Selected(services, instanceSelector(i))) = 1
    PROVE  LET m == CHOOSE s \in Selected(services, instanceSelector(i)) : TRUE
           IN m \in made /\ InstanceId[m] = i /\ m # 0
  <1>. DEFINE svcs == Selected(services, instanceSelector(i))
  <1>1. \A s \in svcs : s \in made /\ InstanceId[s] = i /\ s # 0
    BY SelectsInstance, NameAssumption DEF Selected, IInv, TypeOK
  <1>2. svcs # {}
    <2>. HIDE DEF svcs
    <2>. QED  BY FS_EmptySet DEF svcs
  <1>. HIDE DEF svcs
  <1>3. (CHOOSE s \in svcs : TRUE) \in svcs
    BY <1>2
  <1>. QED  BY <1>1, <1>3 DEF svcs

LEMMA ListServicesIInv == IInv /\ ListServices => IInv'
  <1>. SUFFICES ASSUME IInv, ListServices PROVE IInv'
    OBVIOUS
  <1>. USE DEF IInv
  <1>1. UNCHANGED cluster /\ changes' = changes /\ changes' \in 0..MaxChanges
    BY DEF ListServices, Quietly, TypeOK
  <1>2. /\ pc = "services" /\ pc' \in {"pods", "answered"}
        /\ UNCHANGED <<op, want, size, offset, token, seen, lost, added>>
        /\ page' = Tail(page) /\ built' = Append(built, Head(page).name)
        /\ pc' = "pods" => page' # <<>>
        /\ answer' \in {answer, 200}
        /\ told' \in {told, told \o built'}
    BY DEF ListServices, Reply
  <1>3. ReaderTyped
    BY TypeParts
  <1>4. /\ Head(page).name \in made /\ Head(page).name \in Name
        /\ Tail(page) \in Seq([name : Name, facts : DeployFacts])
        /\ Len(page) \in Nat \ {0} /\ Len(Tail(page)) = Len(page) - 1
        /\ \A k \in 1..Len(Tail(page)) : Tail(page)[k] = page[k + 1]
    BY <1>2, HeadMade
  <1>5. PageMade'
    <2>. SUFFICES ASSUME NEW k \in 1..Len(page') PROVE page'[k].name \in made'
      BY DEF PageMade
    <2>1. k + 1 \in 1..Len(page) /\ page'[k] = page[k + 1]
      BY <1>2, <1>4
    <2>2. made' = made
      BY <1>1 DEF cluster
    <2>. QED  BY <2>1, <2>2 DEF PageMade
  <1>6. PagesAdvance'
    BY <1>2 DEF PagesAdvance
  <1>7. /\ view # NoView /\ view.serviceOf = 0 /\ view.name \in made
        /\ view.name = Head(page).name /\ view.spec = Rebuilt(view.name)
        /\ view = [name |-> view.name, status |-> view.status, podOf |-> view.podOf,
                   done |-> view.done, serviceOf |-> view.serviceOf,
                   pods |-> view.pods, spec |-> view.spec]
        /\ view.podOf # 0 => view.podOf \in made /\ InstanceId[view.podOf] = InstanceId[view.name]
    BY <1>2 DEF Viewed
  <1>8. \/ view' = [name |-> view.name, status |-> view.status, podOf |-> view.podOf,
                    done |-> TRUE, serviceOf |-> 0, pods |-> view.pods, spec |-> view.spec]
        \/ \E m \in made :
             /\ InstanceId[m] = InstanceId[view.name] /\ m # 0
             /\ view' = [name |-> view.name, status |-> view.status, podOf |-> view.podOf,
                         done |-> TRUE, serviceOf |-> m, pods |-> view.pods,
                         spec |-> Enriched(view.name, m)]
    <2>. DEFINE svcs == Selected(services, instanceSelector(InstanceId[view.name]))
                m == CHOOSE s \in svcs : TRUE
    <2>1. view' = IF Cardinality(svcs) = 1
                  THEN [view EXCEPT
                          !.done = TRUE, !.serviceOf = m,
                          !.spec = enrichWithService(@, buildService(spec[m], InstanceId[m]))]
                  ELSE [view EXCEPT !.done = TRUE]
      BY <1>7 DEF ListServices
    <2>2. CASE Cardinality(svcs) = 1
      <3>1. m \in made /\ InstanceId[m] = InstanceId[view.name] /\ m # 0
        BY <2>2, ServiceOf, Zenon
      <3>. HIDE DEF m, svcs
      <3>2. view' = [view EXCEPT !.done = TRUE, !.serviceOf = m, !.spec = Enriched(view.name, m)]
        BY <1>7, <2>1, <2>2 DEF Enriched
      <3>3. view' = [name |-> view.name, status |-> view.status, podOf |-> view.podOf,
                     done |-> TRUE, serviceOf |-> m, pods |-> view.pods,
                     spec |-> Enriched(view.name, m)]
        BY <1>7, <3>2
      <3>. QED  BY <3>1, <3>3
    <2>3. CASE Cardinality(svcs) # 1
      <3>. HIDE DEF m, svcs
      <3>1. view' = [view EXCEPT !.done = TRUE]
        BY <2>1, <2>3
      <3>. QED  BY <1>7, <3>1
    <2>. QED  BY <2>2, <2>3
  <1>9. /\ view'.name = view.name /\ view'.status = view.status /\ view' # NoView
        /\ Viewed'
    <2>0. \A n : Rebuilt(n)' = Rebuilt(n) /\ \A m : Enriched(n, m)' = Enriched(n, m)
      BY <1>1 DEF Rebuilt, Enriched, cluster
    <2>1. made' = made /\ view.name # 0
      BY <1>1, <1>7, NameAssumption DEF cluster, TypeOK
    <2>2. CASE view' = [name |-> view.name, status |-> view.status, podOf |-> view.podOf,
                    done |-> TRUE, serviceOf |-> 0, pods |-> view.pods, spec |-> view.spec]
      <3>1. /\ view'.name = view.name /\ view'.status = view.status /\ view'.podOf = view.podOf
            /\ view'.serviceOf = 0 /\ view'.spec = view.spec /\ view' # NoView
            /\ view' = [name |-> view'.name, status |-> view'.status, podOf |-> view'.podOf,
                        done |-> view'.done, serviceOf |-> view'.serviceOf,
                        pods |-> view'.pods, spec |-> view'.spec]
        BY <2>1, <2>2 DEF NoView
      <3>. QED  BY <1>2, <1>7, <2>0, <2>1, <3>1 DEF Viewed
    <2>3. ASSUME NEW m \in made, InstanceId[m] = InstanceId[view.name], m # 0,
                 view' = [name |-> view.name, status |-> view.status, podOf |-> view.podOf,
                         done |-> TRUE, serviceOf |-> m, pods |-> view.pods,
                         spec |-> Enriched(view.name, m)]
          PROVE  view'.name = view.name /\ view'.status = view.status /\ view' # NoView /\ Viewed'
      <3>1. /\ view'.name = view.name /\ view'.status = view.status /\ view'.podOf = view.podOf
            /\ view'.serviceOf = m /\ view'.spec = Enriched(view.name, m) /\ view' # NoView
            /\ view' = [name |-> view'.name, status |-> view'.status, podOf |-> view'.podOf,
                        done |-> view'.done, serviceOf |-> view'.serviceOf,
                        pods |-> view'.pods, spec |-> view'.spec]
        BY <2>1, <2>3 DEF NoView
      <3>. QED  BY <1>2, <1>7, <2>0, <2>1, <2>3, <3>1 DEF Viewed
    <2>. QED  BY <1>8, <2>2, <2>3
  <1>10. ReaderTyped'
    <2>1. built' \in Seq(Name) /\ told' \in Seq(Name)
      <3>1. built \in Seq(Name) /\ told \in Seq(Name)
        BY <1>3 DEF ReaderTyped
      <3>2. built' \in Seq(Name)
        BY <1>2, <1>4, <3>1, AppendProperties
      <3>3. told \o built' \in Seq(Name)
        BY <3>1, <3>2, ConcatProperties
      <3>. QED  BY <1>2, <3>1, <3>2, <3>3
    <2>2. view'.status \in ContainerStatus \cup {None}
      BY <1>3, <1>7, <1>9 DEF ReaderTyped
    <2>3. answer' \in {0, 200, 404, 500}
      BY <1>2, <1>3 DEF ReaderTyped
    <2>. QED  BY <1>2, <1>3, <1>4, <2>1, <2>2, <2>3 DEF ReaderTyped
  <1>11. AgreesWithMonitor'
    BY <1>2 DEF AgreesWithMonitor
  <1>. QED  BY <1>1, <1>5, <1>6, <1>9, <1>10, <1>11, ClusterUnchanged, TypePartsNext

LEMMA NextIInv == IInv /\ [Next]_vars => IInv'
  <1>. SUFFICES ASSUME IInv, [Next]_vars PROVE IInv'
    OBVIOUS
  <1>1. CASE UNCHANGED vars
    <2>1. UNCHANGED cluster /\ changes' = changes /\ UNCHANGED <<reader, history>>
      BY <1>1 DEF vars
    <2>2. made \subseteq made' /\ \A n \in made : spec'[n] = spec[n]
      BY <2>1 DEF cluster
    <2>3. ReaderTyped' /\ changes' \in 0..MaxChanges
      BY <2>1, TypeParts, ReaderTypedUnchanged DEF IInv
    <2>. QED  BY <2>1, <2>2, <2>3, ClusterUnchanged, ReaderUndisturbed, TypePartsNext DEF IInv
  <1>2. CASE ClusterStep
    BY <1>2, ClusterIInv
  <1>3. CASE (\E n \in Name : Get(InstanceId[n])) \/ List \/ FindDeployment \/ CallFails
             \/ NextPage \/ Retry
    BY <1>3, SimpleCalls, Zenon
  <1>4. CASE ListDeployments \/ ListPods \/ ListServices
    BY <1>4, ListDeploymentsIInv, ListPodsIInv, ListServicesIInv
  <1>5. CASE Quiet
    BY <1>1, <1>5 DEF Quiet
  <1>. QED  BY <1>1, <1>2, <1>3, <1>4, <1>5 DEF Next, Call

-----------------------------------------------------------------------------
(* What holds always                                                       *)

LEMMA Invariance == Spec => []IInv
  BY InitIInv, NextIInv, PTL DEF Spec

\* Types: above all, a page and its container are there while its Pods and its
\* Service are listed, and a status is one of the API's or, for a Pod that has
\* succeeded, none.
THEOREM TypesCorrect == Spec => []TypeOK
  <1>1. IInv => TypeOK
    BY DEF IInv
  <1>. QED  BY <1>1, Invariance, PTL

\* A page token leads past its own page, to a container that is there, for every
\* page size and however the list changes between the pages.
THEOREM TokensLeadOn == Spec => []PagesAdvance
  <1>1. IInv => PagesAdvance
    BY DEF IInv
  <1>. QED  BY <1>1, Invariance, PTL

\* What the code rebuilds from a Deployment and a Service is what was asked for,
\* for all labels, amounts and ports, whatever other containers there are.
THEOREM ShownAsAsked == Spec => []ReadsBack
  <1>1. IInv => ReadsBack
    BY ViewedReadsBack DEF IInv
  <1>. QED  BY <1>1, Invariance, PTL

\* Objects are selected by the instance id, so an answer mixes containers of one
\* id only; and of two that both exist, neither was made when the other's Create
\* looked for the id: Creates overlapped.
THEOREM AnswersOfOne == Spec => []OneContainer
  <1>1. IInv => OneContainer
    <2>. SUFFICES ASSUME IInv, view # NoView,
                         NEW m \in {view.podOf, view.serviceOf} \ {0, view.name}
                  PROVE  /\ InstanceId[m] = InstanceId[view.name]
                         /\ {m, view.name} \subseteq deployments =>
                              m \notin before[view.name] /\ view.name \notin before[m]
      BY DEF OneContainer
    <2>1. InstanceId[m] = InstanceId[view.name]
      BY DEF IInv, Viewed
    <2>2. deployments \subseteq Name
      BY DEF IInv, TypeOK
    <2>. QED  BY <2>1, <2>2 DEF IInv, Apart
  <1>. QED  BY <1>1, Invariance, PTL

\* The status the API shows and the one the monitor publishes agree on the same
\* Pods, for any number of them, but for the exceptions the property names.
THEOREM StatusesAgree == Spec => []AgreesWithMonitor
  <1>1. IInv => AgreesWithMonitor
    BY DEF IInv
  <1>. QED  BY <1>1, Invariance, PTL

\* Converted, a smaller amount of memory stays one: what the check of a Create
\* compares is what the Deployment carries.
LEMMA AcceptedFits ==
    ASSUME NEW n \in Name, NEW s \in AcceptedSpecs(n), NEW i
    PROVE  /\ buildDeployment(s, i).cpu.min <= buildDeployment(s, i).cpu.max
           /\ buildDeployment(s, i).memory.min <= buildDeployment(s, i).memory.max
  <1>1. IsContainerSpec(s) /\ \A b \in Bound : ConvertMemory(s.memory[b]) \in 0..MaxMemory
    BY AcceptedSpec
  <1>2. ~(s.cpu.min > s.cpu.max)
        /\ ~(ConvertMemory(s.memory.min) > ConvertMemory(s.memory.max))
    BY DEF AcceptedSpecs, Accepted, validateResources
  <1>3. s.cpu["min"] \in Int /\ s.cpu["max"] \in Int
    BY <1>1 DEF IsContainerSpec, Bound
  <1>4. /\ buildDeployment(s, i).cpu = s.cpu
        /\ buildDeployment(s, i).memory = [b \in Bound |-> ConvertMemory(s.memory[b])]
    BY DEF buildDeployment
  <1>5. /\ s.cpu["min"] <= s.cpu["max"]
        /\ ConvertMemory(s.memory["min"]) <= ConvertMemory(s.memory["max"])
    BY <1>1, <1>2, <1>3, MemoryAssumption DEF Bound
  <1>. QED  BY <1>4, <1>5 DEF Bound

\* No Deployment requests more than its limits, whatever the units of the specs
\* that clients ask for.
THEOREM RequestsWithinLimits == Spec => []Schedulable
  <1>1. IInv => Schedulable
    <2>. SUFFICES ASSUME IInv, NEW n \in deployments
                  PROVE  LET d == buildDeployment(spec[n], InstanceId[n])
                         IN d.cpu.min <= d.cpu.max /\ d.memory.min <= d.memory.max
      BY DEF Schedulable
    <2>1. n \in Name /\ spec[n] \in AcceptedSpecs(n)
      BY DEF IInv, TypeOK, MadeAccepted
    <2>. QED  BY <2>1, AcceptedFits
  <1>. QED  BY <1>1, Invariance, PTL

-----------------------------------------------------------------------------
(* Traversals                                                              *)

\* The first e of a list, in the order of their names.
First(L, e) == {n \in L : Cardinality({m \in L : m <= n}) <= e}

\* How far the pages that were answered go in the last listing.
Reached ==
    IF pc = "answered" /\ op = "list" /\ answer = 200
    THEN IF token = 0 THEN Cardinality(seen) ELSE token
    ELSE offset

Covered == First(seen, Reached)

\* What is gone does not come back, and what was told or added is there or gone.
Recorded ==
    /\ seen \subseteq made /\ lost \subseteq made
    /\ lost \cap (deployments \cup seen) = {}
    /\ added \subseteq seen \cup lost /\ Names(told) \subseteq seen \cup lost
    /\ told = <<>> =>
         offset = 0 /\ (pc = "answered" /\ op = "list" /\ answer = 200 => token = 0)
    /\ pc = "find" => op = "get"

\* The page being built is cut out of the last listing at the offset.
Cut ==
    op = "list" /\ pc \in {"pods", "services"} =>
        LET from == Smaller(offset, Cardinality(seen))
            to == from + Len(built) + Len(page)
        IN /\ to <= Cardinality(seen)
           /\ \A k \in 1..Len(built) : built[k] = sortedByName(seen)[from + k]
           /\ \A k \in 1..Len(page) :
                page[k].name = sortedByName(seen)[from + Len(built) + k]
           /\ token = IF to < Cardinality(seen) THEN to ELSE 0

\* SkipsAtMostLost and RepeatsAtMostAdded, of what the pages cover so far.  Of the
\* containers that lie ahead, those that were told before will be repeated.
SkipsSoFar ==
    Cardinality((Covered \ added) \ Names(told)) <= Cardinality(lost)
RepeatsSoFar ==
    (Len(told) - Cardinality(Names(told))) + Cardinality(Names(told) \cap (seen \ Covered))
        <= Cardinality(added)

TInv == Recorded /\ Cut /\ SkipsSoFar /\ RepeatsSoFar

\* Cardinalities of finite sets that are put together and taken apart.
LEMMA Disjoint ==
    ASSUME NEW S, IsFiniteSet(S), NEW T, IsFiniteSet(T), S \cap T = {}
    PROVE  /\ IsFiniteSet(S \cup T)
           /\ Cardinality(S) \in Nat /\ Cardinality(T) \in Nat
           /\ Cardinality(S \cup T) = Cardinality(S) + Cardinality(T)
  BY FS_Union, FS_EmptySet, FS_CardinalityType

LEMMA Split ==
    ASSUME NEW S, IsFiniteSet(S), NEW T
    PROVE  /\ IsFiniteSet(S \cap T) /\ IsFiniteSet(S \ T)
           /\ Cardinality(S \cap T) \in Nat /\ Cardinality(S \ T) \in Nat
           /\ Cardinality(S) = Cardinality(S \cap T) + Cardinality(S \ T)
  <1>1. S \cap T \in SUBSET S /\ S \ T \in SUBSET S
    OBVIOUS
  <1>2. IsFiniteSet(S \cap T) /\ IsFiniteSet(S \ T)
    BY <1>1, FS_Subset
  <1>3. (S \cap T) \cap (S \ T) = {} /\ (S \cap T) \cup (S \ T) = S
    OBVIOUS
  <1>. QED  BY <1>2, <1>3, Disjoint

LEMMA Within ==
    ASSUME NEW S, IsFiniteSet(S), NEW T, T \subseteq S
    PROVE  /\ IsFiniteSet(T) /\ Cardinality(T) \in Nat /\ Cardinality(S) \in Nat
           /\ Cardinality(T) <= Cardinality(S)
  <1>1. T \in SUBSET S
    OBVIOUS
  <1>. QED  BY <1>1, FS_Subset, FS_CardinalityType

LEMMA UpTo ==
    ASSUME NEW S, S \subseteq Nat, IsFiniteSet(S), NEW a \in Nat, NEW b \in Nat, a <= b
    PROVE  /\ Cardinality({m \in S : m <= a}) <= Cardinality({m \in S : m <= b})
           /\ Cardinality({m \in S : m <= a}) \in Nat /\ Cardinality({m \in S : m <= b}) \in Nat
  <1>1. \A m \in S : m <= a => m <= b
    <2>1. \A m \in S : m \in Nat
      OBVIOUS
    <2>. QED  BY <2>1
  <1>2. {m \in S : m <= a} \subseteq {m \in S : m <= b} /\ {m \in S : m <= b} \subseteq S
    BY <1>1
  <1>3. IsFiniteSet({m \in S : m <= b})
    BY <1>2, Within
  <1>. QED  BY <1>2, <1>3, Within

\* The first e of a list are e, or all.
LEMMA FirstOf ==
    ASSUME NEW L, L \subseteq Nat, IsFiniteSet(L), NEW e \in Nat
    PROVE  LET N == Cardinality(L)
               m == Smaller(e, N)
           IN /\ N \in Nat /\ m \in Nat
              /\ First(L, e) \subseteq L /\ IsFiniteSet(First(L, e))
              /\ First(L, e) = {sortedByName(L)[k] : k \in 1..m}
              /\ Cardinality(First(L, e)) = m
              /\ First(L, e) # L => Cardinality(First(L, e)) = e
              /\ e >= N => First(L, e) = L
  <1>. DEFINE N == Cardinality(L)
              m == Smaller(e, N)
              s == sortedByName(L)
              F == First(L, e)
              upTo(n) == {x \in L : x <= n}
  <1>1. /\ N \in Nat /\ s \in [1..N -> L]
        /\ \A n \in L : \E k \in 1..N : s[k] = n
        /\ \A k \in 1..N : Cardinality(upTo(s[k])) = k
    BY SortedByName
  <1>2. F = {n \in L : Cardinality(upTo(n)) <= e}
    BY DEF First
  <1>. HIDE DEF N, s, F, upTo
  <1>3. m \in Nat /\ m <= N /\ m <= e /\ (m = N \/ m = e) /\ (e >= N => m = N)
    BY <1>1 DEF Smaller
  <1>. HIDE DEF m
  <1>4. F \subseteq L /\ IsFiniteSet(F)
    <2>1. F \in SUBSET L
      BY <1>2
    <2>. QED  BY <2>1, FS_Subset
  <1>5. \A n \in F : \E k \in 1..m : n = s[k]
    <2>. TAKE n \in F
    <2>1. PICK k \in 1..N : s[k] = n
      BY <1>1, <1>4
    <2>2. k <= e
      BY <1>1, <1>2, <2>1
    <2>3. k <= m
      BY <1>1, <1>3, <2>1, <2>2
    <2>. QED  BY <1>1, <1>3, <2>1, <2>3
  <1>6. \A k \in 1..m : s[k] \in F
    <2>. TAKE k \in 1..m
    <2>1. k \in 1..N /\ k <= e
      BY <1>1, <1>3
    <2>. QED  BY <1>1, <1>2, <2>1
  <1>7. F = {s[k] : k \in 1..m}
    BY <1>5, <1>6
  <1>8. Cardinality(F) = m
    <2>. DEFINE f == [k \in 1..m |-> s[k]]
    <2>1. f \in [1..m -> F]
      BY <1>6
    <2>2. \A j, k \in 1..m : f[j] = f[k] => j = k
      <3>. SUFFICES ASSUME NEW j \in 1..m, NEW k \in 1..m, s[j] = s[k] PROVE j = k
        OBVIOUS
      <3>1. j \in 1..N /\ k \in 1..N
        BY <1>1, <1>3
      <3>. QED  BY <1>1, <3>1
    <2>3. \A n \in F : \E k \in 1..m : f[k] = n
      BY <1>5
    <2>. HIDE DEF f
    <2>4. ExistsBijection(1..m, F)
      BY <2>1, <2>2, <2>3 DEF ExistsBijection, Bijection, Injection, Surjection, IsInjective
    <2>. QED  BY <1>3, <2>4, FS_CountingElements
  <1>9. m = N => F = L
    <2>. SUFFICES ASSUME m = N PROVE F = L
      OBVIOUS
    <2>1. F \in SUBSET L /\ Cardinality(F) = Cardinality(L)
      BY <1>4, <1>8 DEF N
    <2>. QED  BY <2>1, FS_Subset
  <1>. QED  BY <1>1, <1>3, <1>4, <1>7, <1>8, <1>9 DEF N, m, s, F

\* When the list changes, no more move up to the first e than are gone, and no
\* more move down than are new.
LEMMA MovedUp ==
    ASSUME NEW L, L \subseteq Nat, IsFiniteSet(L), NEW M, M \subseteq Nat, IsFiniteSet(M),
           NEW e \in Nat
    PROVE  Cardinality((First(M, e) \cap L) \ First(L, e)) <= Cardinality(L \ M)
  <1>. DEFINE up == (First(M, e) \cap L) \ First(L, e)
              stay == First(L, e) \cap M
              gone == First(L, e) \ M
  <1>1. /\ First(L, e) \subseteq L /\ IsFiniteSet(First(L, e))
        /\ First(L, e) # L => Cardinality(First(L, e)) = e
    BY FirstOf
  <1>2. /\ First(M, e) \subseteq M /\ IsFiniteSet(First(M, e))
        /\ Cardinality(First(M, e)) <= e
    <2>1. Cardinality(First(M, e)) = Smaller(e, Cardinality(M)) /\ Cardinality(M) \in Nat
      BY FirstOf, Zenon
    <2>2. Smaller(e, Cardinality(M)) <= e
      BY <2>1 DEF Smaller
    <2>. QED  BY <2>1, <2>2, FirstOf
  <1>3. IsFiniteSet(L \ M) /\ Cardinality(L \ M) \in Nat
    BY Split
  <1>4. CASE up = {}
    BY <1>3, <1>4, FS_EmptySet
  <1>5. CASE up # {}
    <2>1. PICK n : n \in up
      BY <1>5
    <2>2. n \in L /\ n \in M /\ n \in Nat /\ First(L, e) # L
      BY <1>1, <1>2, <2>1
    <2>3. \A g \in stay : g < n
      <3>. SUFFICES ASSUME NEW g \in stay, ~(g < n) PROVE FALSE
        OBVIOUS
      <3>1. g \in L /\ Cardinality({m \in L : m <= g}) <= e
        BY DEF First
      <3>2. g \in Nat /\ n \in Nat
        BY <2>2, <3>1
      <3>3. n <= g
        BY <3>2
      <3>4. /\ Cardinality({m \in L : m <= n}) <= Cardinality({m \in L : m <= g})
            /\ Cardinality({m \in L : m <= n}) \in Nat
            /\ Cardinality({m \in L : m <= g}) \in Nat
        BY <3>2, <3>3, UpTo
      <3>5. Cardinality({m \in L : m <= n}) <= e
        BY <3>1, <3>4
      <3>. QED  BY <2>1, <2>2, <3>5 DEF First
    <2>4. stay \subseteq First(M, e)
      <3>. SUFFICES ASSUME NEW g \in stay PROVE g \in First(M, e)
        OBVIOUS
      <3>1. g \in M /\ g \in Nat /\ n \in Nat
        BY <2>2
      <3>2. g < n
        BY <2>3
      <3>3. g <= n
        BY <3>1, <3>2
      <3>4. /\ Cardinality({m \in M : m <= g}) <= Cardinality({m \in M : m <= n})
            /\ Cardinality({m \in M : m <= g}) \in Nat
            /\ Cardinality({m \in M : m <= n}) \in Nat
        BY <3>1, <3>3, UpTo
      <3>5. Cardinality({m \in M : m <= n}) <= e
        BY <2>1 DEF First
      <3>6. Cardinality({m \in M : m <= g}) <= e
        BY <3>4, <3>5
      <3>. QED  BY <3>1, <3>6 DEF First
    <2>5. /\ up \cup stay \subseteq First(M, e) /\ up \cap stay = {}
          /\ up \subseteq First(M, e) /\ gone \subseteq L \ M
      BY <1>1, <2>4
    <2>6. IsFiniteSet(up) /\ Cardinality(gone) <= Cardinality(L \ M)
      BY <1>2, <1>3, <2>5, Within
    <2>7. /\ Cardinality(First(L, e)) = Cardinality(stay) + Cardinality(gone)
          /\ IsFiniteSet(stay) /\ Cardinality(stay) \in Nat /\ Cardinality(gone) \in Nat
      BY <1>1, Split
    <2>8. Cardinality(up) + Cardinality(stay) <= e /\ Cardinality(up) \in Nat
      <3>. HIDE DEF up, stay
      <3>1. Cardinality(up \cup stay) = Cardinality(up) + Cardinality(stay)
            /\ Cardinality(up) \in Nat
        BY <2>5, <2>6, <2>7, Disjoint
      <3>2. Cardinality(up \cup stay) <= Cardinality(First(M, e))
            /\ Cardinality(First(M, e)) \in Nat
        BY <1>2, <2>5, Within
      <3>. QED  BY <1>2, <2>7, <3>1, <3>2
    <2>9. Cardinality(First(L, e)) = e
      BY <1>1, <2>2
    <2>. HIDE DEF up, stay, gone
    <2>10. Cardinality(up) <= Cardinality(gone)
      BY <2>7, <2>8, <2>9
    <2>. QED  BY <1>3, <2>6, <2>7, <2>8, <2>10 DEF up
  <1>. QED  BY <1>4, <1>5

\* What is on some pages.
LEMMA NamesOf ==
    ASSUME NEW S, NEW s \in Seq(S), NEW t \in Seq(S)
    PROVE  /\ Names(s) = {s[k] : k \in 1..Len(s)}
           /\ Names(s \o t) = Names(s) \cup Names(t)
           /\ Len(s \o t) = Len(s) + Len(t)
           /\ Len(s) \in Nat /\ Len(t) \in Nat
  <1>1. /\ DOMAIN s = 1..Len(s) /\ DOMAIN t = 1..Len(t)
        /\ Len(s) \in Nat /\ Len(t) \in Nat
    BY LenProperties
  <1>2. /\ s \o t \in Seq(S) /\ Len(s \o t) = Len(s) + Len(t)
        /\ \A i \in 1..Len(s) + Len(t) :
             (s \o t)[i] = IF i <= Len(s) THEN s[i] ELSE t[i - Len(s)]
    BY ConcatProperties
  <1>3. DOMAIN (s \o t) = 1..Len(s) + Len(t)
    BY <1>2, LenProperties
  <1>4. Names(s \o t) \subseteq Names(s) \cup Names(t)
    <2>. SUFFICES ASSUME NEW i \in 1..Len(s) + Len(t)
                  PROVE  (s \o t)[i] \in Names(s) \cup Names(t)
      BY <1>3 DEF Names
    <2>1. i \in 1..Len(s) \/ (~(i <= Len(s)) /\ i - Len(s) \in 1..Len(t))
      BY <1>1
    <2>. QED  BY <1>1, <1>2, <2>1 DEF Names
  <1>5. Names(s) \subseteq Names(s \o t)
    <2>. SUFFICES ASSUME NEW i \in 1..Len(s) PROVE s[i] \in Names(s \o t)
      BY <1>1 DEF Names
    <2>1. i \in 1..Len(s) + Len(t) /\ i <= Len(s)
      BY <1>1
    <2>. QED  BY <1>2, <1>3, <2>1 DEF Names
  <1>6. Names(t) \subseteq Names(s \o t)
    <2>. SUFFICES ASSUME NEW i \in 1..Len(t) PROVE t[i] \in Names(s \o t)
      BY <1>1 DEF Names
    <2>1. /\ Len(s) + i \in 1..Len(s) + Len(t) /\ ~(Len(s) + i <= Len(s))
          /\ Len(s) + i - Len(s) = i
      BY <1>1
    <2>. QED  BY <1>2, <1>3, <2>1 DEF Names
  <1>. QED  BY <1>1, <1>2, <1>4, <1>5, <1>6 DEF Names

\* A page is what comes after the first ones, up to its end.
LEMMA PageOf ==
    ASSUME NEW L, L \subseteq Nat, IsFiniteSet(L), NEW from \in Nat,
           NEW t \in Seq(L), from + Len(t) <= Cardinality(L),
           \A k \in 1..Len(t) : t[k] = sortedByName(L)[from + k]
    PROVE  /\ First(L, from + Len(t)) = First(L, from) \cup Names(t)
           /\ Names(t) \cap First(L, from) = {} /\ Names(t) \subseteq L
           /\ IsFiniteSet(Names(t)) /\ Cardinality(Names(t)) = Len(t)
  <1>. DEFINE len == Len(t)
              P == Names(t)
              N == Cardinality(L)
              s == sortedByName(L)
              to == from + len
  <1>0. len \in Nat /\ P = {s[from + k] : k \in 1..len}
    <2>1. Names(t) = {t[k] : k \in 1..Len(t)} /\ Len(t) \in Nat
      BY NamesOf
    <2>. QED  BY <2>1
  <1>. HIDE DEF len
  <1>1. /\ N \in Nat /\ s \in [1..N -> L]
        /\ \A k \in 1..N : Cardinality({m \in L : m <= s[k]}) = k
    BY SortedByName
  <1>2. to \in Nat /\ to <= N /\ from <= N
    BY <1>0, <1>1 DEF len
  <1>3. Smaller(to, N) = to /\ Smaller(from, N) = from
    BY <1>1, <1>2 DEF Smaller
  <1>4. /\ First(L, to) = {s[k] : k \in 1..to} /\ Cardinality(First(L, to)) = to
        /\ First(L, to) \subseteq L /\ IsFiniteSet(First(L, to))
    <2>. HIDE DEF to
    <2>1. /\ First(L, to) = {s[k] : k \in 1..Smaller(to, N)}
          /\ Cardinality(First(L, to)) = Smaller(to, N)
          /\ First(L, to) \subseteq L /\ IsFiniteSet(First(L, to))
      BY <1>2, FirstOf, Zenon
    <2>. QED  BY <1>3, <2>1
  <1>5. /\ First(L, from) = {s[k] : k \in 1..from} /\ Cardinality(First(L, from)) = from
        /\ IsFiniteSet(First(L, from))
    <2>1. /\ First(L, from) = {s[k] : k \in 1..Smaller(from, N)}
          /\ Cardinality(First(L, from)) = Smaller(from, N)
          /\ IsFiniteSet(First(L, from))
      BY <1>2, FirstOf, Zenon
    <2>. QED  BY <1>3, <2>1
  <1>. HIDE DEF N, s, P
  <1>6. P = {s[from + k] : k \in 1..len}
    BY <1>0 DEF s, P
  <1>7. First(L, to) = First(L, from) \cup P
    <2>1. \A k \in 1..to : k \in 1..from \/ (k - from \in 1..len /\ from + (k - from) = k)
      BY <1>0
    <2>2. \A k \in 1..from : k \in 1..to
      BY <1>0
    <2>3. \A k \in 1..len : from + k \in 1..to
      BY <1>0
    <2>4. First(L, to) \subseteq First(L, from) \cup P
      <3>. SUFFICES ASSUME NEW k \in 1..to PROVE s[k] \in First(L, from) \cup P
        BY <1>4
      <3>. QED  BY <1>5, <1>6, <2>1
    <2>5. First(L, from) \subseteq First(L, to) /\ P \subseteq First(L, to)
      BY <1>4, <1>5, <1>6, <2>2, <2>3
    <2>. QED  BY <2>4, <2>5
  <1>8. P \cap First(L, from) = {}
    <2>. SUFFICES ASSUME NEW k \in 1..len, s[from + k] \in First(L, from) PROVE FALSE
      BY <1>6
    <2>1. from + k \in 1..N /\ ~(from + k <= from)
      BY <1>0, <1>1, <1>2
    <2>2. Cardinality({m \in L : m <= s[from + k]}) = from + k
      BY <1>1, <2>1
    <2>. QED  BY <2>1, <2>2 DEF First
  <1>9. IsFiniteSet(P) /\ P \subseteq L
    <2>1. P \subseteq First(L, to) /\ First(L, to) \subseteq L
      BY <1>4, <1>7
    <2>. HIDE DEF to
    <2>. QED  BY <1>4, <2>1, Within
  <1>10. Cardinality(P) = len
    <2>. HIDE DEF to
    <2>1. First(L, from) \cap P = {}
      BY <1>8
    <2>2. Cardinality(First(L, from) \cup P) = Cardinality(First(L, from)) + Cardinality(P)
          /\ Cardinality(P) \in Nat
      BY <1>5, <1>9, <2>1, Disjoint
    <2>3. to = from + Cardinality(P)
      BY <1>4, <1>5, <1>7, <2>2
    <2>. QED  BY <1>0, <2>2, <2>3 DEF to
  <1>. QED  BY <1>7, <1>8, <1>9, <1>10 DEF P, len

LEMMA AtMostSum ==
    ASSUME NEW S, IsFiniteSet(S), NEW T, IsFiniteSet(T), NEW U, U \subseteq S \cup T
    PROVE  /\ IsFiniteSet(U)
           /\ Cardinality(S) \in Nat /\ Cardinality(T) \in Nat /\ Cardinality(U) \in Nat
           /\ Cardinality(U) <= Cardinality(S) + Cardinality(T)
  <1>1. IsFiniteSet(T \ S) /\ Cardinality(T \ S) <= Cardinality(T)
    BY Within
  <1>2. S \cap (T \ S) = {} /\ S \cup (T \ S) = S \cup T
    OBVIOUS
  <1>3. IsFiniteSet(S \cup T) /\ Cardinality(S \cup T) = Cardinality(S) + Cardinality(T \ S)
        /\ Cardinality(S) \in Nat /\ Cardinality(T \ S) \in Nat
    BY <1>1, <1>2, Disjoint
  <1>4. IsFiniteSet(U) /\ Cardinality(U) \in Nat /\ Cardinality(U) <= Cardinality(S \cup T)
        /\ Cardinality(S \cup T) \in Nat
    BY <1>3, Within
  <1>. QED  BY <1>1, <1>3, <1>4, FS_CardinalityType

\* The sets of a traversal are finite.
LEMMA TraversalSets ==
    ASSUME IInv
    PROVE  /\ seen \subseteq Nat /\ IsFiniteSet(seen) /\ Cardinality(seen) \in Nat
           /\ IsFiniteSet(lost) /\ IsFiniteSet(added) /\ IsFiniteSet(Names(told))
           /\ Names(told) \subseteq Name /\ Len(told) \in Nat /\ offset \in Nat /\ token \in Nat
           /\ told \in Seq(Name) /\ built \in Seq(Name)
           /\ deployments \subseteq Nat /\ IsFiniteSet(deployments)
  <1>1. /\ seen \subseteq Name /\ lost \subseteq Name /\ added \subseteq Name
        /\ deployments \subseteq Name
        /\ told \in Seq(Name) /\ built \in Seq(Name) /\ offset \in Nat /\ token \in Nat
    BY DEF IInv, TypeOK
  <1>2. Names(told) \subseteq Name /\ Len(told) \in Nat
    <2>1. told \in [1..Len(told) -> Name] /\ Len(told) \in Nat
      BY <1>1, LenProperties
    <2>. QED  BY <2>1 DEF Names
  <1>3. \A S : S \subseteq Name => S \subseteq Nat /\ IsFiniteSet(S) /\ Cardinality(S) \in Nat
    BY NameAssumption, Within
  <1>. QED  BY <1>1, <1>2, <1>3

LEMMA InitTInv == Init => TInv
  <1>. SUFFICES ASSUME Init PROVE TInv
    OBVIOUS
  <1>. USE DEF Init
  <1>1. Names(told) = {} /\ Len(told) = 0 /\ Covered = {}
    BY DEF Names, Covered, First
  <1>2. Cardinality({}) = 0
    BY FS_EmptySet
  <1>3. Recorded
    BY <1>1 DEF Recorded
  <1>4. Cut
    BY DEF Cut
  <1>5. (Covered \ added) \ Names(told) = {} /\ Names(told) \cap (seen \ Covered) = {}
    BY <1>1
  <1>6. SkipsSoFar /\ RepeatsSoFar
    <2>1. lost = {} /\ added = {}
      OBVIOUS
    <2>. HIDE DEF Init
    <2>2. Cardinality((Covered \ added) \ Names(told)) = 0
      BY <1>2, <1>5
    <2>3. Cardinality(Names(told) \cap (seen \ Covered)) = 0 /\ Cardinality(Names(told)) = 0
      BY <1>1, <1>2, <1>5
    <2>4. Cardinality(lost) = 0 /\ Cardinality(added) = 0
      BY <1>2, <2>1
    <2>. QED  BY <1>1, <2>2, <2>3, <2>4 DEF SkipsSoFar, RepeatsSoFar
  <1>. QED  BY <1>3, <1>4, <1>6 DEF TInv

\* A step that neither lists nor tells anything.
LEMMA NothingTold ==
    ASSUME TInv, UNCHANGED <<told, seen, lost, added>>, made \subseteq made',
           lost \cap deployments' = {}, Reached' = Reached, Cut',
           pc' = "find" => op' = "get",
           told = <<>> =>
             offset' = 0 /\ (pc' = "answered" /\ op' = "list" /\ answer' = 200 => token' = 0)
    PROVE  TInv'
  <1>1. Recorded'
    BY DEF TInv, Recorded
  <1>2. Covered' = Covered
    BY DEF Covered
  <1>3. SkipsSoFar' /\ RepeatsSoFar'
    BY <1>2 DEF TInv, SkipsSoFar, RepeatsSoFar
  <1>. QED  BY <1>1, <1>3 DEF TInv

LEMMA ClusterTInv == IInv /\ TInv /\ (ClusterStep \/ UNCHANGED vars) => TInv'
  <1>. SUFFICES ASSUME IInv, TInv, ClusterStep \/ UNCHANGED vars PROVE TInv'
    OBVIOUS
  <1>1. UNCHANGED <<reader, history>>
    BY DEF ClusterStep, CheckId, CreateDeployment, CreateService, DeleteService, DeleteDeployment,
      DeploymentChange, PodCreated, PodChange, PodGone, Change, vars
  <1>2. /\ made \subseteq made'
        /\ deployments' \subseteq deployments \cup (made' \ made)
    <2>1. ASSUME NEW n \in Name, CreateDeployment(n)
          PROVE  /\ made \subseteq made'
                 /\ deployments' \subseteq deployments \cup (made' \ made)
      <3>1. n \notin made
        BY <2>1 DEF CreateDeployment, IInv, TypeOK
      <3>. QED  BY <2>1, <3>1 DEF CreateDeployment
    <2>2. CASE UNCHANGED vars
      BY <2>2 DEF vars, cluster
    <2>3. ASSUME NEW n \in Name,
                 CheckId(n) \/ CreateService(n) \/ DeleteService(n) \/ DeleteDeployment(n)
                 \/ DeploymentChange(n)
          PROVE  made' = made /\ deployments' \subseteq deployments
      BY <2>3 DEF CheckId, CreateService, DeleteService, DeleteDeployment, DeploymentChange
    <2>4. ASSUME NEW p \in Pod,
                 PodChange(p) \/ PodGone(p) \/ \E n \in Name : PodCreated(p, n)
          PROVE  made' = made /\ deployments' = deployments
      BY <2>4 DEF PodChange, PodGone, PodCreated
    <2>. QED  BY <2>1, <2>2, <2>3, <2>4 DEF ClusterStep
  <1>3. lost \cap deployments' = {}
    BY <1>2 DEF TInv, Recorded
  <1>4. Reached' = Reached /\ Cut'
    BY <1>1 DEF TInv, Reached, Cut, reader, history
  <1>5. /\ pc' = "find" => op' = "get"
        /\ told = <<>> =>
             offset' = 0 /\ (pc' = "answered" /\ op' = "list" /\ answer' = 200 => token' = 0)
    BY <1>1 DEF TInv, Recorded, reader
  <1>. QED  BY <1>1, <1>2, <1>3, <1>4, <1>5, NothingTold DEF history

LEMMA SimpleTInv ==
    ASSUME IInv, TInv,
           \/ \E n \in Name : Get(InstanceId[n])
           \/ List \/ FindDeployment \/ CallFails \/ NextPage \/ Retry \/ ListPods
    PROVE  TInv'
  <1>1. UNCHANGED <<told, seen, lost, added>> /\ UNCHANGED cluster
    BY DEF Get, List, FindDeployment, CallFails, NextPage, Retry, ListPods, Quietly, history
  <1>2. made \subseteq made' /\ lost \cap deployments' = {}
    BY <1>1 DEF TInv, Recorded, cluster
  <1>3. Reached' = Reached
    BY DEF Get, List, FindDeployment, CallFails, NextPage, Retry, ListPods, Reply, Reached
  <1>4. Cut'
    <2>1. CASE ListPods
      BY <2>1 DEF ListPods, Reply, TInv, Cut
    <2>2. CASE FindDeployment
      BY <2>2 DEF FindDeployment, TInv, Recorded, Cut
    <2>3. CASE (\E n \in Name : Get(InstanceId[n])) \/ List \/ CallFails \/ NextPage \/ Retry
      BY <2>3 DEF Get, List, CallFails, NextPage, Retry, Reply, Cut
    <2>. QED  BY <2>1, <2>2, <2>3
  <1>5. pc' = "find" => op' = "get"
    BY DEF Get, List, FindDeployment, CallFails, NextPage, Retry, ListPods, Reply
  <1>6. told = <<>> =>
          offset' = 0 /\ (pc' = "answered" /\ op' = "list" /\ answer' = 200 => token' = 0)
    BY DEF Get, List, FindDeployment, CallFails, NextPage, Retry, ListPods, Reply, TInv, Recorded
  <1>. QED  BY <1>1, <1>2, <1>3, <1>4, <1>5, <1>6, NothingTold

\* An offset past the end of a list is at its end.
LEMMA FirstCut ==
    ASSUME NEW L, L \subseteq Nat, IsFiniteSet(L), NEW e \in Nat
    PROVE  First(L, e) = First(L, Smaller(e, Cardinality(L)))
  <1>1. Cardinality(L) \in Nat /\ (e >= Cardinality(L) => First(L, e) = L)
    BY FirstOf, Zenon
  <1>2. First(L, Cardinality(L)) = L
    <2>1. Cardinality(L) >= Cardinality(L)
      BY <1>1
    <2>. QED  BY <1>1, <2>1, FirstOf, Zenon
  <1>. QED  BY <1>1, <1>2 DEF Smaller

\* What the Services are listed for is the next container of the page.
LEMMA ServicesCut ==
    ASSUME IInv, TInv, ListServices, op = "list"
    PROVE  LET from == Smaller(offset, Cardinality(seen))
               to == from + Len(built') + Len(page')
           IN /\ Len(built') \in Nat /\ Len(page') \in Nat /\ built' \in Seq(Name)
              /\ Len(built') # 0
              /\ to <= Cardinality(seen)
              /\ \A k \in 1..Len(built') : built'[k] = sortedByName(seen)[from + k]
              /\ \A k \in 1..Len(page') :
                   page'[k].name = sortedByName(seen)[from + Len(built') + k]
              /\ token = IF to < Cardinality(seen) THEN to ELSE 0
              /\ page' = <<>> <=> Len(page') = 0
  <1>. DEFINE from == Smaller(offset, Cardinality(seen))
              s == sortedByName(seen)
              N == Cardinality(seen)
  <1>1. pc = "services" /\ page' = Tail(page) /\ built' = Append(built, Head(page).name)
    BY DEF ListServices
  <1>2. /\ Head(page) = page[1] /\ Head(page).name \in Name /\ Len(page) \in Nat \ {0}
        /\ Tail(page) \in Seq([name : Name, facts : DeployFacts])
        /\ Len(Tail(page)) = Len(page) - 1
        /\ \A k \in 1..Len(Tail(page)) : Tail(page)[k] = page[k + 1]
    BY <1>1, HeadMade
  <1>3. N \in Nat /\ built \in Seq(Name) /\ from \in Nat
    BY TraversalSets DEF Smaller
  <1>4. /\ built' \in Seq(Name) /\ Len(built') = Len(built) + 1 /\ Len(built) \in Nat
        /\ \A k \in 1..Len(built) : built'[k] = built[k]
        /\ built'[Len(built) + 1] = Head(page).name
    BY <1>1, <1>2, <1>3, AppendProperties, LenProperties
  <1>5. /\ from + Len(built) + Len(page) <= N
        /\ \A k \in 1..Len(built) : built[k] = s[from + k]
        /\ \A k \in 1..Len(page) : page[k].name = s[from + Len(built) + k]
        /\ token = IF from + Len(built) + Len(page) < N
                   THEN from + Len(built) + Len(page) ELSE 0
    BY <1>1 DEF TInv, Cut
  <1>. HIDE DEF from, s, N
  <1>6. from + Len(built') + Len(page') = from + Len(built) + Len(page)
    BY <1>1, <1>2, <1>3, <1>4
  <1>7. \A k \in 1..Len(built') : built'[k] = s[from + k]
    <2>. SUFFICES ASSUME NEW k \in 1..Len(built') PROVE built'[k] = s[from + k]
      OBVIOUS
    <2>1. CASE k = Len(built) + 1
      <3>1. 1 \in 1..Len(page) /\ from + Len(built) + 1 = from + k
        BY <1>2, <1>3, <1>4, <2>1
      <3>2. page[1].name = s[from + Len(built) + 1]
        BY <1>5, <3>1
      <3>. QED  BY <1>2, <1>4, <2>1, <3>1, <3>2
    <2>2. CASE k # Len(built) + 1
      <3>1. k \in 1..Len(built)
        BY <1>4, <2>2
      <3>. QED  BY <1>4, <1>5, <3>1
    <2>. QED  BY <2>1, <2>2
  <1>8. \A k \in 1..Len(page') : page'[k].name = s[from + Len(built') + k]
    <2>. SUFFICES ASSUME NEW k \in 1..Len(page')
                  PROVE  page'[k].name = s[from + Len(built') + k]
      OBVIOUS
    <2>1. k + 1 \in 1..Len(page) /\ page'[k] = page[k + 1]
      BY <1>1, <1>2
    <2>2. from + Len(built') + k = from + Len(built) + (k + 1)
      BY <1>3, <1>4, <2>1
    <2>. QED  BY <1>5, <2>1, <2>2
  <1>9. page' = <<>> <=> Len(page') = 0
    BY <1>1, <1>2, EmptySeq
  <1>10. Len(page') \in Nat
    BY <1>1, <1>2
  <1>11. Len(built') \in Nat /\ Len(built') # 0
    BY <1>4
  <1>12. /\ from + Len(built') + Len(page') <= N
         /\ token = IF from + Len(built') + Len(page') < N
                    THEN from + Len(built') + Len(page') ELSE 0
    BY <1>5, <1>6
  <1>. QED  BY <1>4, <1>7, <1>8, <1>9, <1>10, <1>11, <1>12 DEF from, s, N

\* A page is answered: it goes on from what the pages before it cover.
LEMMA PageTold ==
    ASSUME IInv, TInv, ListServices, op = "list", page' = <<>>
    PROVE  TInv'
  <1>. DEFINE N == Cardinality(seen)
              from == Smaller(offset, N)
              b == Len(built')
              to == from + b
              P == Names(built')
              T == Names(told)
              G == First(seen, from)
  <1>1. /\ seen \subseteq Nat /\ IsFiniteSet(seen) /\ N \in Nat /\ offset \in Nat
        /\ IsFiniteSet(lost) /\ IsFiniteSet(added) /\ IsFiniteSet(T)
        /\ told \in Seq(Name) /\ Len(told) \in Nat
    BY TraversalSets
  <1>2. /\ pc = "services" /\ pc' = "answered" /\ answer' = 200 /\ told' = told \o built'
        /\ UNCHANGED <<op, offset, token, seen, lost, added>> /\ UNCHANGED cluster
    BY DEF ListServices, Reply, Quietly
  <1>3. from \in Nat /\ from <= N
    BY <1>1 DEF Smaller
  <1>4. /\ b \in Nat /\ b # 0 /\ built' \in Seq(Name) /\ to <= N
        /\ \A k \in 1..b : built'[k] = sortedByName(seen)[from + k]
        /\ token = IF to < N THEN to ELSE 0
    <2>. HIDE DEF N
    <2>1. Len(page') = 0 /\ Len(built') \in Nat
          /\ from + Len(built') + Len(page') <= N
          /\ token = IF from + Len(built') + Len(page') < N
                     THEN from + Len(built') + Len(page') ELSE 0
      BY ServicesCut, Zenon DEF N
    <2>2. Len(built') # 0 /\ built' \in Seq(Name)
          /\ \A k \in 1..Len(built') : built'[k] = sortedByName(seen)[from + k]
      BY ServicesCut, Zenon DEF N
    <2>. HIDE DEF from
    <2>. QED  BY <1>3, <2>1, <2>2
  <1>5. built' \in Seq(seen)
    <2>1. \A k \in 1..b : from + k \in 1..N
      BY <1>1, <1>3, <1>4
    <2>2. sortedByName(seen) \in [1..N -> seen]
      BY <1>1, SortedByName
    <2>. HIDE DEF N, from
    <2>3. \A k \in 1..b : built'[k] \in seen
      BY <1>4, <2>1, <2>2
    <2>4. built' \in [1..b -> Name]
      BY <1>4, LenProperties
    <2>5. built' \in [1..b -> seen]
      BY <2>3, <2>4
    <2>. HIDE DEF b
    <2>. QED  BY <1>4, <2>5, FunctionIsSeq
  <1>6. Names(told') = T \cup P /\ Len(told') = Len(told) + b
    BY <1>1, <1>2, <1>4, NamesOf
  <1>7. /\ First(seen, to) = G \cup P /\ P \cap G = {} /\ P \subseteq seen
        /\ IsFiniteSet(P) /\ Cardinality(P) = b
    <2>. HIDE DEF from
    <2>. QED  BY <1>1, <1>3, <1>4, <1>5, PageOf
  <1>8. Covered = G
    <2>1. Reached = offset
      BY <1>2 DEF Reached
    <2>. QED  BY <1>1, <2>1, FirstCut DEF Covered
  <1>9. Covered' = G \cup P
    <2>. HIDE DEF N, b, from
    <2>1. to # 0
      BY <1>3, <1>4
    <2>2. Reached' = to
      <3>1. Reached' = IF token = 0 THEN N ELSE token
        BY <1>2 DEF Reached, N
      <3>2. N \in Nat /\ to \in Nat /\ to <= N /\ token = IF to < N THEN to ELSE 0
        BY <1>1, <1>3, <1>4
      <3>. HIDE DEF to
      <3>. QED  BY <2>1, <3>1, <3>2
    <2>. QED  BY <1>2, <1>7, <2>2 DEF Covered
  <1>. HIDE DEF N, from, b, P, T, G
  <1>10. Recorded'
    <2>1. T \cup P \subseteq seen \cup lost
      BY <1>7 DEF TInv, Recorded, T
    <2>2. told' # <<>>
      <3>1. told' \in Seq(Name)
        BY <1>1, <1>2, <1>4, ConcatProperties
      <3>2. Len(told') # 0
        BY <1>1, <1>4, <1>6
      <3>. QED  BY <3>1, <3>2, EmptySeq
    <2>. QED  BY <1>2, <1>6, <2>1, <2>2 DEF TInv, Recorded, cluster
  <1>11. Cut'
    BY <1>2 DEF Cut
  <1>12. SkipsSoFar'
    <2>1. ((G \cup P) \ added) \ (T \cup P) \subseteq (G \ added) \ T
      OBVIOUS
    <2>2. IsFiniteSet((G \ added) \ T)
      <3>1. (G \ added) \ T \subseteq seen
        BY <1>1, <1>3, FirstOf DEF G
      <3>. QED  BY <1>1, <3>1, Within
    <2>3. /\ Cardinality(((G \cup P) \ added) \ (T \cup P)) <= Cardinality((G \ added) \ T)
          /\ Cardinality(((G \cup P) \ added) \ (T \cup P)) \in Nat
          /\ Cardinality((G \ added) \ T) \in Nat
      BY <2>1, <2>2, Within
    <2>4. Cardinality((G \ added) \ T) <= Cardinality(lost) /\ Cardinality(lost) \in Nat
      BY <1>1, <1>8, FS_CardinalityType DEF TInv, SkipsSoFar, T
    <2>5. Cardinality(((G \cup P) \ added) \ (T \cup P)) <= Cardinality(lost)
      BY <2>3, <2>4
    <2>. QED  BY <1>2, <1>6, <1>9, <2>5 DEF SkipsSoFar
  <1>13. RepeatsSoFar'
    <2>. DEFINE R == T \cap (seen \ G)
    <2>1. /\ Cardinality(P) = Cardinality(P \cap T) + Cardinality(P \ T)
          /\ Cardinality(P \cap T) \in Nat /\ Cardinality(P \ T) \in Nat /\ IsFiniteSet(P \ T)
      BY <1>7, Split
    <2>2. Cardinality(T \cup P) = Cardinality(T) + Cardinality(P \ T) /\ Cardinality(T) \in Nat
      <3>1. T \cap (P \ T) = {} /\ T \cup (P \ T) = T \cup P
        OBVIOUS
      <3>. QED  BY <1>1, <2>1, <3>1, Disjoint
    <2>3. /\ Cardinality(R) = Cardinality(P \cap T)
                              + Cardinality((T \cup P) \cap (seen \ (G \cup P)))
          /\ Cardinality((T \cup P) \cap (seen \ (G \cup P))) \in Nat
      <3>1. R \cap P = P \cap T /\ R \ P = (T \cup P) \cap (seen \ (G \cup P))
        BY <1>7
      <3>2. IsFiniteSet(R)
        <4>1. R \subseteq T
          OBVIOUS
        <4>. QED  BY <1>1, <4>1, Within
      <3>3. Cardinality(R) = Cardinality(R \cap P) + Cardinality(R \ P)
            /\ Cardinality(R \ P) \in Nat
        <4>. HIDE DEF R
        <4>. QED  BY <3>2, Split
      <3>. HIDE DEF R
      <3>. QED  BY <3>1, <3>3
    <2>4. (Len(told) - Cardinality(T)) + Cardinality(R) <= Cardinality(added)
          /\ Cardinality(added) \in Nat
      BY <1>1, <1>8, FS_CardinalityType DEF TInv, RepeatsSoFar, T
    <2>. HIDE DEF R
    <2>5. (Len(told) + b - Cardinality(T \cup P))
            + Cardinality((T \cup P) \cap (seen \ (G \cup P))) <= Cardinality(added)
      <3>1. Len(told) \in Nat /\ b \in Nat /\ Cardinality(P) = b
        BY <1>1, <1>4, <1>7
      <3>. HIDE DEF to
      <3>. QED  BY <2>1, <2>2, <2>3, <2>4, <3>1
    <2>6. /\ Names(told') = T \cup P /\ Len(told') = Len(told) + b
          /\ seen' = seen /\ added' = added /\ Covered' = G \cup P
      BY <1>2, <1>6, <1>9
    <2>7. (Len(told') - Cardinality(Names(told')))
            + Cardinality(Names(told') \cap (seen' \ Covered')) <= Cardinality(added')
      <3>1. Len(told) \in Nat /\ b \in Nat /\ Cardinality(T \cup P) \in Nat
        BY <1>1, <1>4, <2>1, <2>2
      <3>. HIDE DEF to
      <3>. QED  BY <2>3, <2>5, <2>6, <3>1
    <2>. QED  BY <2>7 DEF RepeatsSoFar
  <1>. QED  BY <1>10, <1>11, <1>12, <1>13 DEF TInv

LEMMA ListServicesTInv == IInv /\ TInv /\ ListServices => TInv'
  <1>. SUFFICES ASSUME IInv, TInv, ListServices PROVE TInv'
    OBVIOUS
  <1>1. CASE op = "list" /\ page' = <<>>
    BY <1>1, PageTold
  <1>2. CASE ~(op = "list" /\ page' = <<>>)
    <2>1. /\ pc = "services" /\ pc' \in {"pods", "answered"} /\ told' = told
          /\ op' # "list" \/ pc' = "pods"
          /\ UNCHANGED <<op, offset, token, seen, lost, added>> /\ UNCHANGED cluster
      BY <1>2 DEF ListServices, Reply, Quietly
    <2>2. Cut'
      <3>1. CASE op = "list"
        <4>1. /\ Smaller(offset', Cardinality(seen')) = Smaller(offset, Cardinality(seen))
              /\ sortedByName(seen') = sortedByName(seen) /\ token' = token
          BY <2>1
        <4>. QED  BY <2>1, <3>1, <4>1, ServicesCut, Zenon DEF Cut
      <3>2. CASE op # "list"
        BY <2>1, <3>2 DEF Cut
      <3>. QED  BY <3>1, <3>2
    <2>3. Reached' = Reached
      BY <2>1 DEF Reached
    <2>4. made \subseteq made' /\ lost \cap deployments' = {}
      BY <2>1 DEF TInv, Recorded, cluster
    <2>5. told = <<>> =>
            offset' = 0 /\ (pc' = "answered" /\ op' = "list" /\ answer' = 200 => token' = 0)
      BY <2>1 DEF TInv, Recorded
    <2>. QED  BY <2>1, <2>2, <2>3, <2>4, <2>5, NothingTold
  <1>. QED  BY <1>1, <1>2

\* A new listing, with the pages before it told of the last one.
LEMMA ListedAgain ==
    ASSUME IInv, TInv, ListDeployments, told # <<>>
    PROVE  LET G == First(deployments, offset)
           IN /\ Cardinality((G \ added') \ Names(told)) <= Cardinality(lost')
              /\ (Len(told) - Cardinality(Names(told)))
                   + Cardinality(Names(told) \cap (deployments \ G)) <= Cardinality(added')
  <1>. DEFINE L == seen
              M == deployments
              T == Names(told)
              F == First(L, offset)
              G == First(M, offset)
              up == (G \cap L) \ F
              down == (F \cap M) \ G
              gone == L \ M
              new == M \ L
  <1>1. /\ L \subseteq Nat /\ IsFiniteSet(L) /\ M \subseteq Nat /\ IsFiniteSet(M)
        /\ IsFiniteSet(lost) /\ IsFiniteSet(added) /\ IsFiniteSet(T)
        /\ offset \in Nat /\ Len(told) \in Nat
    BY TraversalSets
  <1>2. lost' = lost \cup gone /\ added' = added \cup new
    <2>1. /\ lost' = IF told = <<>> THEN {} ELSE lost \cup (seen \ deployments)
          /\ added' = IF told = <<>> THEN {} ELSE added \cup (deployments \ seen)
      BY SelectsOwn, Zenon DEF ListDeployments
    <2>. QED  BY <2>1
  <1>3. Covered = F
    BY DEF ListDeployments, Covered, Reached
  <1>4. /\ lost \cap (M \cup L) = {}
        /\ added \subseteq L \cup lost /\ T \subseteq L \cup lost
    BY DEF TInv, Recorded
  <1>5. Cardinality(up) <= Cardinality(gone) /\ Cardinality(down) <= Cardinality(new)
    BY <1>1, MovedUp
  <1>6. F \subseteq L /\ G \subseteq M
    BY DEF First
  <1>7. /\ Cardinality((F \ added) \ T) <= Cardinality(lost)
        /\ (Len(told) - Cardinality(T)) + Cardinality(T \cap (L \ F)) <= Cardinality(added)
    BY <1>3 DEF TInv, SkipsSoFar, RepeatsSoFar
  <1>. HIDE DEF L, M, T, F, G
  <1>8. Cardinality((G \ (added \cup new)) \ T) <= Cardinality(lost \cup gone)
    <2>1. (G \ (added \cup new)) \ T \subseteq ((F \ added) \ T) \cup up
      BY <1>6
    <2>2. IsFiniteSet((F \ added) \ T) /\ IsFiniteSet(up) /\ IsFiniteSet(gone)
      <3>1. (F \ added) \ T \subseteq L /\ up \subseteq L /\ gone \subseteq L
        BY <1>6
      <3>. QED  BY <1>1, <3>1, Within
    <2>3. lost \cap gone = {}
      BY <1>4
    <2>. HIDE DEF up, gone, new
    <2>4. /\ Cardinality((G \ (added \cup new)) \ T)
               <= Cardinality((F \ added) \ T) + Cardinality(up)
          /\ Cardinality((G \ (added \cup new)) \ T) \in Nat
          /\ Cardinality((F \ added) \ T) \in Nat /\ Cardinality(up) \in Nat
      BY <2>1, <2>2, AtMostSum
    <2>5. /\ Cardinality(lost \cup gone) = Cardinality(lost) + Cardinality(gone)
          /\ Cardinality(lost) \in Nat /\ Cardinality(gone) \in Nat
      BY <1>1, <2>2, <2>3, Disjoint
    <2>. QED  BY <1>5, <1>7, <2>4, <2>5
  <1>9. (Len(told) - Cardinality(T)) + Cardinality(T \cap (M \ G)) <= Cardinality(added \cup new)
    <2>1. T \cap (M \ G) \subseteq (T \cap (L \ F)) \cup down
      BY <1>4, <1>6
    <2>2. IsFiniteSet(T \cap (L \ F)) /\ IsFiniteSet(down) /\ IsFiniteSet(new)
      <3>1. T \cap (L \ F) \subseteq T /\ down \subseteq M /\ new \subseteq M
        OBVIOUS
      <3>. QED  BY <1>1, <3>1, Within
    <2>3. added \cap new = {}
      BY <1>4
    <2>. HIDE DEF down, gone, new
    <2>4. /\ Cardinality(T \cap (M \ G)) <= Cardinality(T \cap (L \ F)) + Cardinality(down)
          /\ Cardinality(T \cap (M \ G)) \in Nat
          /\ Cardinality(T \cap (L \ F)) \in Nat /\ Cardinality(down) \in Nat
      BY <2>1, <2>2, AtMostSum
    <2>5. /\ Cardinality(added \cup new) = Cardinality(added) + Cardinality(new)
          /\ Cardinality(added) \in Nat /\ Cardinality(new) \in Nat
      BY <1>1, <2>2, <2>3, Disjoint
    <2>6. Cardinality(T) \in Nat
      BY <1>1, FS_CardinalityType
    <2>. QED  BY <1>1, <1>5, <1>7, <2>4, <2>5, <2>6
  <1>. QED  BY <1>2, <1>8, <1>9 DEF G, M, T

LEMMA ListDeploymentsTInv == IInv /\ TInv /\ ListDeployments => TInv'
  <1>. SUFFICES ASSUME IInv, TInv, ListDeployments PROVE TInv'
    OBVIOUS
  <1>. DEFINE now == Selected(deployments, dcmSelector)
              sorted == sortedByName(now)
              total == Cardinality(now)
              from == Smaller(offset, total)
              limit == Smaller(IF size <= 0 THEN defaultPageSize ELSE size, total - from)
  <1>1. /\ now = deployments /\ total \in Nat
        /\ from \in Nat /\ limit \in Nat /\ from + limit <= total
        /\ from <= offset /\ (from = offset \/ from = total)
        /\ limit = 0 => from = total
        /\ page' = [k \in 1..limit |->
                      [name |-> sorted[from + k], facts |-> facts[sorted[from + k]]]]
        /\ token' = IF from + limit < total THEN from + limit ELSE 0
        /\ IF limit = 0 THEN Reply(200) ELSE pc' = "pods" /\ UNCHANGED answer
        /\ seen' = now
        /\ lost' = IF told = <<>> THEN {} ELSE lost \cup (seen \ now)
        /\ added' = IF told = <<>> THEN {} ELSE added \cup (now \ seen)
    BY Listing, Zenon
  <1>2. built' = <<>> /\ UNCHANGED <<op, offset, told>> /\ UNCHANGED cluster
    BY DEF ListDeployments, Quietly
  <1>3. /\ deployments \subseteq Nat /\ IsFiniteSet(deployments) /\ offset \in Nat
        /\ deployments \subseteq made
    BY TraversalSets DEF IInv, TypeOK
  <1>. HIDE DEF now, sorted, from, limit
  <1>4. seen' = deployments /\ total = Cardinality(deployments)
    BY <1>1
  <1>. HIDE DEF total
  <1>5. Covered' = First(deployments, offset)
    <2>1. CASE limit = 0
      <3>1. total <= offset /\ token' = 0
        BY <1>1, <1>3, <2>1
      <3>2. Reached' \in {total, offset}
        BY <1>2, <1>4, <3>1 DEF Reached
      <3>3. total \in Nat /\ total >= total /\ offset >= total
        BY <1>1, <1>3, <3>1
      <3>4. First(deployments, offset) = deployments /\ First(deployments, total) = deployments
        BY <1>3, <1>4, <3>3, FirstOf, Zenon
      <3>. QED  BY <1>4, <3>2, <3>4 DEF Covered
    <2>2. CASE limit # 0
      <3>1. pc' = "pods"
        BY <1>1, <2>2
      <3>. QED  BY <1>2, <1>4, <3>1 DEF Covered, Reached
    <2>. QED  BY <2>1, <2>2
  <1>6. Recorded'
    <2>1. pc' \in {"answered", "pods"} /\ (pc' = "answered" => token' = 0)
      BY <1>1 DEF Reply
    <2>2. CASE told = <<>>
      <3>1. lost' = {} /\ added' = {} /\ Names(told') = {} /\ offset = 0
        BY <1>1, <1>2, <2>2 DEF TInv, Recorded, Names
      <3>. QED  BY <1>2, <1>3, <1>4, <2>1, <3>1 DEF Recorded, cluster
    <2>3. CASE told # <<>>
      <3>1. lost' = lost \cup (seen \ deployments) /\ added' = added \cup (deployments \ seen)
        BY <1>1, <2>3
      <3>2. /\ seen \subseteq made /\ lost \subseteq made
            /\ lost \cap (deployments \cup seen) = {}
            /\ added \subseteq seen \cup lost /\ Names(told) \subseteq seen \cup lost
        BY DEF TInv, Recorded
      <3>3. /\ lost' \subseteq made /\ lost' \cap deployments = {}
            /\ added' \subseteq deployments \cup lost' /\ Names(told) \subseteq deployments \cup lost'
        BY <3>1, <3>2
      <3>. QED  BY <1>2, <1>3, <1>4, <2>1, <2>3, <3>3 DEF Recorded, cluster
    <2>. QED  BY <2>2, <2>3
  <1>7. Cut'
    <2>. SUFFICES ASSUME pc' \in {"pods", "services"} PROVE Cut'
      BY DEF Cut
    <2>1. page' \in [1..limit -> {[name |-> sorted[from + k], facts |-> facts[sorted[from + k]]] :
                                    k \in 1..limit}]
      BY <1>1
    <2>2. Len(page') = limit
      BY <1>1, <2>1, FunctionIsSeq, Zenon
    <2>3. \A k \in 1..limit : page'[k].name = sorted[from + k]
      BY <1>1
    <2>4. Len(built') = 0 /\ from + 0 + limit = from + limit
          /\ \A k \in 1..limit : from + 0 + k = from + k
      BY <1>1, <1>2
    <2>5. /\ from = Smaller(offset', Cardinality(seen')) /\ sorted = sortedByName(seen')
          /\ total = Cardinality(seen')
      BY <1>1, <1>2, <1>4 DEF from, sorted, total
    <2>6. Len(built') = 0 /\ \A k \in 1..Len(built') : built'[k] = sorted[from + k]
      BY <1>2, <2>4
    <2>7. \A k \in 1..Len(page') : page'[k].name = sorted[from + Len(built') + k]
      BY <2>2, <2>3, <2>4
    <2>8. /\ from + Len(built') + Len(page') <= total
          /\ token' = IF from + Len(built') + Len(page') < total
                      THEN from + Len(built') + Len(page') ELSE 0
      BY <1>1, <2>2, <2>4
    <2>. QED  BY <2>5, <2>6, <2>7, <2>8 DEF Cut
  <1>8. /\ Cardinality((Covered' \ added') \ Names(told')) <= Cardinality(lost')
        /\ (Len(told') - Cardinality(Names(told')))
             + Cardinality(Names(told') \cap (seen' \ Covered')) <= Cardinality(added')
    <2>1. CASE told = <<>>
      <3>1. /\ lost' = {} /\ added' = {} /\ Names(told') = {} /\ Len(told') = 0
            /\ offset = 0
        BY <1>1, <1>2, <2>1 DEF TInv, Recorded, Names
      <3>2. Covered' = {}
        <4>1. /\ Cardinality(First(deployments, 0)) = Smaller(0, total) /\ total \in Nat
              /\ IsFiniteSet(First(deployments, 0))
          BY <1>1, <1>3, <1>4, FirstOf
        <4>2. Smaller(0, total) = 0
          BY <4>1 DEF Smaller
        <4>. QED  BY <1>5, <3>1, <4>1, <4>2, FS_EmptySet
      <3>3. /\ (Covered' \ added') \ Names(told') = {}
            /\ Names(told') \cap (seen' \ Covered') = {} /\ Cardinality({}) = 0
        BY <3>1, <3>2, FS_EmptySet
      <3>4. /\ Cardinality((Covered' \ added') \ Names(told')) = 0
            /\ Cardinality(Names(told') \cap (seen' \ Covered')) = 0
        BY <3>3
      <3>5. Cardinality(Names(told')) = 0 /\ Cardinality(lost') = 0 /\ Cardinality(added') = 0
        BY <3>1, <3>3
      <3>. QED  BY <3>1, <3>4, <3>5
    <2>2. CASE told # <<>>
      <3>1. /\ Cardinality((First(deployments, offset) \ added') \ Names(told))
                 <= Cardinality(lost')
            /\ (Len(told) - Cardinality(Names(told)))
                 + Cardinality(Names(told) \cap (deployments \ First(deployments, offset)))
                 <= Cardinality(added')
        BY <2>2, ListedAgain
      <3>. QED  BY <1>2, <1>4, <1>5, <3>1
    <2>. QED  BY <2>1, <2>2
  <1>9. SkipsSoFar' /\ RepeatsSoFar'
    BY <1>8 DEF SkipsSoFar, RepeatsSoFar
  <1>. QED  BY <1>6, <1>7, <1>9 DEF TInv

LEMMA NextTInv == IInv /\ TInv /\ [Next]_vars => TInv'
  <1>. SUFFICES ASSUME IInv, TInv, [Next]_vars PROVE TInv'
    OBVIOUS
  <1>1. CASE ClusterStep \/ UNCHANGED vars \/ Quiet
    BY <1>1, ClusterTInv DEF Quiet
  <1>2. CASE (\E n \in Name : Get(InstanceId[n])) \/ List \/ FindDeployment \/ CallFails
             \/ NextPage \/ Retry \/ ListPods
    BY <1>2, SimpleTInv, Zenon
  <1>3. CASE ListDeployments \/ ListServices
    BY <1>3, ListDeploymentsTInv, ListServicesTInv
  <1>. QED  BY <1>1, <1>2, <1>3 DEF Next, Call

LEMMA TraversalInvariance == Spec => [](IInv /\ TInv)
  BY Invariance, InitTInv, NextTInv, PTL DEF Spec

\* At the end of a traversal its pages cover the last listing.
LEMMA FinishedCovers == IInv /\ Finished => Covered = seen
  <1>. SUFFICES ASSUME IInv, Finished PROVE Covered = seen
    OBVIOUS
  <1>1. Reached = Cardinality(seen)
    BY DEF Finished, Reached
  <1>2. seen \subseteq Nat /\ IsFiniteSet(seen) /\ Cardinality(seen) \in Nat
        /\ Cardinality(seen) >= Cardinality(seen)
    BY TraversalSets
  <1>. QED  BY <1>1, <1>2, FirstOf, Zenon DEF Covered

\* Whatever is created and deleted between the pages and however often one fails
\* and is asked for again, a traversal leaves out no more of the containers that
\* were there all the time than others were deleted.
THEOREM SkipsBounded == Spec => []SkipsAtMostLost
  <1>1. IInv /\ TInv => SkipsAtMostLost
    BY FinishedCovers DEF SkipsAtMostLost, TInv, SkipsSoFar
  <1>. QED  BY <1>1, TraversalInvariance, PTL

\* And it repeats no more than others were created.
THEOREM RepeatsBounded == Spec => []RepeatsAtMostAdded
  <1>1. IInv /\ TInv => RepeatsAtMostAdded
    <2>. SUFFICES ASSUME IInv, TInv, Finished
                  PROVE  Len(told) - Cardinality(Names(told)) <= Cardinality(added)
      BY DEF RepeatsAtMostAdded
    <2>1. Names(told) \cap (seen \ Covered) = {}
      BY FinishedCovers
    <2>2. /\ Cardinality(Names(told) \cap (seen \ Covered)) = 0
          /\ Len(told) \in Nat /\ Cardinality(Names(told)) \in Nat
      BY <2>1, TraversalSets, FS_EmptySet, FS_CardinalityType
    <2>. QED  BY <2>2 DEF TInv, RepeatsSoFar
  <1>. QED  BY <1>1, TraversalInvariance, PTL
=============================================================================
