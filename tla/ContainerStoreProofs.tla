------------------------ MODULE ContainerStoreProofs ------------------------
(***************************************************************************)
(* Theorems about ContainerStore, for every set of requests and ids and    *)
(* every number of faults.                                                 *)
(*                                                                         *)
(* The inductive invariant says which objects a request may have made so   *)
(* far, given the call it makes next, and carries each property back to    *)
(* the moment a request looked at the cluster: what CheckDuplicate or      *)
(* FindDeployment saw, compared with what exists now.                      *)
(***************************************************************************)
EXTENDS ContainerStore, TLAPS

CreateCalls == {"check", "deploy", "service", "rollback"}
DeleteCalls == {"listServices", "deleteService", "deleteDeploy"}
GetCalls == {"listPods", "getService"}

\* Which operation makes which calls, who has an answer, who made the objects.
Control ==
    \A r \in Request :
        /\ pc[r] = "idle" <=> op[r] = "none"
        /\ pc[r] \in CreateCalls => op[r] = "create"
        /\ pc[r] \in DeleteCalls => op[r] = "delete"
        /\ pc[r] \in GetCalls => op[r] = "get"
        /\ pc[r] = "find" => op[r] \in {"delete", "get"}
        /\ pc[r] # "answered" => answer[r] = 0
        /\ r \in deployments =>
              op[r] = "create" /\ pc[r] \in {"service", "rollback"} \cup Over
        /\ r \in services =>
              op[r] = "create" /\ pc[r] \in {"rollback"} \cup Over

\* A late write was sent by a request that is past it: a Create makes its own
\* objects and takes them back only when it fails, everything else that is
\* deleted has the id of a Delete.
Late ==
    /\ late # {} => mishap # {}
    /\ belated \subseteq mishap
    /\ \A r \in Request :
         /\ <<"createDeployment", r>> \in late =>
               op[r] = "create" /\ pc[r] \in Over /\ r \in mishap
         /\ <<"createService", r>> \in late =>
               op[r] = "create" /\ pc[r] \in {"rollback"} \cup Over /\ r \in mishap
         /\ <<"deleteDeployment", r>> \in late =>
               \/ pc[r] \in Over /\ answer[r] # 201
               \/ Deletes(id[r]) # {} /\ op[r] = "create"

\* Requests that came before are over, and a request finds Deployments of its
\* own id.
Before ==
    \A r \in Request :
        /\ \A q \in prior[r] : pc[q] \in Over
        /\ \A q \in found[r] : op[q] = "create" /\ id[q] = id[r]
        /\ pc[r] = "idle" => found[r] = {}

\* A Create that has passed its check overlaps every other one of its id whose
\* Deployment exists, but for those made late.
Duplicates ==
    /\ \A q, r \in Request :
         pc[r] = "deploy" /\ q \in deployments /\ id[q] = id[r] =>
            Overlap(q, r) \/ q \in belated
    /\ DuplicatesOverlap

\* A Create that fails has taken back what it made, or is blamed.
Undone ==
    /\ FailedCreateLeavesNothing
    /\ \A r \in Request : pc[r] = "rollback" /\ r \notin mishap => r \notin services

\* While nobody asked to delete an id, the Deployment of a Create that is past
\* it and not rolled back exists, and a Create that saw none has no acknowledged one before it.
Visible ==
    /\ AckedIsVisible
    /\ \A c \in Request :
         /\ op[c] = "create"
         /\ pc[c] = "service" \/ answer[c] = 201
         /\ Deletes(id[c]) = {}
         => c \in deployments
    /\ \A r \in Request : \A c \in prior[r] \cap Creates(id[r]) :
         pc[r] \in {"deploy", "service"} /\ answer[c] = 201 => Deletes(id[r]) # {}

\* What exists beside the Deployment a Delete has found, and what exists once
\* it was answered 204, is made by a Create that was not over before it, or late.
Gone ==
    /\ \A d \in Request : \A c \in deployments :
         /\ id[c] = id[d]
         /\ \/ pc[d] \in DeleteCalls /\ c \notin found[d]
            \/ op[d] = "delete" /\ answer[d] = 204
         => c \notin prior[d] \/ c \in belated
    /\ DeletedIsGone

IInv == TypeOK /\ Control /\ Late /\ Before /\ Duplicates /\ Undone /\ Visible /\ Gone

-----------------------------------------------------------------------------
LEMMA InitIInv == Init => IInv
  <1>. SUFFICES ASSUME Init PROVE IInv
    OBVIOUS
  <1>. USE DEF Init
  <1>1. TypeOK
    BY FaultsAssumption DEF TypeOK
  <1>2. Control
    BY DEF Control, CreateCalls, DeleteCalls, GetCalls
  <1>3. Before
    BY DEF Before
  <1>4. Duplicates
    BY DEF Duplicates, DuplicatesOverlap
  <1>5. Undone
    BY DEF Undone, FailedCreateLeavesNothing
  <1>6. Visible
    BY DEF Visible, AckedIsVisible
  <1>7. Gone
    BY DEF Gone, DeletedIsGone
  <1>8. Late
    BY DEF Late
  <1>. QED  BY <1>1, <1>2, <1>3, <1>4, <1>5, <1>6, <1>7, <1>8 DEF IInv

\* The step of a request that is not over keeps what is said of late writes: it adds
\* none, or one of its own, for which it is blamed.
LEMMA LateKept ==
    ASSUME IInv, NEW r \in Request, pc[r] \in Calls,
           pc[r] \in CreateCalls => op[r] = "create",
           UNCHANGED <<op, id, belated>>, mishap \subseteq mishap',
           \A q \in Request \ {r} : pc'[q] = pc[q] /\ answer'[q] = answer[q],
           pc[r] = "rollback" => pc'[r] \in Over /\ answer'[r] = 500,
           \/ late' = late
           \/ /\ Blame(r)
              /\ \/ /\ late' = late \cup {<<"createDeployment", r>>}
                    /\ pc[r] \in CreateCalls /\ pc'[r] \in Over
                 \/ /\ late' = late \cup {<<"createService", r>>}
                    /\ pc[r] \in CreateCalls /\ pc'[r] \in {"rollback"} \cup Over
                 \/ \E o \in Request : late' = late \cup {<<"deleteService", o>>}
                 \/ \E o \in Request :
                       /\ late' = late \cup {<<"deleteDeployment", o>>}
                       /\ \/ o = r /\ pc[r] = "rollback"
                          \/ Deletes(id[o]) # {} /\ op[o] = "create"
    PROVE  Late'
  <1>. USE DEF IInv
  <1>1. (late' # {} => mishap' # {}) /\ belated' \subseteq mishap'
    BY DEF Late, Blame
  <1>. SUFFICES ASSUME NEW q \in Request
                PROVE  /\ <<"createDeployment", q>> \in late' =>
                             op[q] = "create" /\ pc'[q] \in Over /\ q \in mishap'
                       /\ <<"createService", q>> \in late' =>
                             op[q] = "create" /\ pc'[q] \in {"rollback"} \cup Over /\ q \in mishap'
                       /\ <<"deleteDeployment", q>> \in late' =>
                             \/ pc'[q] \in Over /\ answer'[q] # 201
                             \/ Deletes(id[q]) # {} /\ op[q] = "create"
    BY <1>1 DEF Late, Deletes
  <1>2. CASE q # r
    BY <1>2 DEF Late, Blame, Over
  <1>3. CASE q = r
    BY <1>3 DEF Late, Blame, Over, Calls
  <1>. QED  BY <1>2, <1>3

LEMMA CreateDeploymentIInv ==
    ASSUME IInv, NEW r \in Request, CreateDeployment(r)
    PROVE  IInv'
  <1>. USE DEF IInv
  <1>1. TypeOK'
    <2>1. pc' \in [Request -> Calls \cup Over \cup {"idle"}]
      BY DEF CreateDeployment, Goto, Answer, TypeOK, Calls, Over
    <2>2. answer' \in [Request -> {0, 200, 201, 204, 404, 409, 500}]
      BY DEF CreateDeployment, Goto, Answer, TypeOK
    <2>3. faults' \in 0..MaxFaults
      BY FaultsAssumption DEF CreateDeployment, ContextAlive, ContextOrFault, Fault, TypeOK
    <2>4. deployments' \in SUBSET Request /\ mishap' \in SUBSET Request
      BY DEF CreateDeployment, Blame, Blameless, TypeOK
    <2>5. late' \in SUBSET (Write \X Request)
      BY DEF CreateDeployment, Sent, NotSent, Write, TypeOK
    <2>. QED
      BY <2>1, <2>2, <2>3, <2>4, <2>5 DEF CreateDeployment, cluster, request, TypeOK
  <1>2. Control'
    BY DEF CreateDeployment, Goto, Answer, request, Control, TypeOK, Calls, Over,
           CreateCalls, DeleteCalls, GetCalls
  <1>3. Before'
    BY DEF CreateDeployment, Goto, Answer, request, Before, TypeOK, Over
  <1>4. Duplicates'
    BY DEF CreateDeployment, Goto, Answer, request, Before, TypeOK, Over, Duplicates,
           DuplicatesOverlap, Overlap
  <1>5. Undone'
    BY DEF CreateDeployment, Goto, Answer, request, TypeOK, Undone, Control, Over,
           FailedCreateLeavesNothing, Blame, Blameless, CreateCalls
  <1>6. Visible'
    BY DEF CreateDeployment, Goto, Answer, request, TypeOK, Visible, Control, Over,
           AckedIsVisible, Creates, Deletes, Before, CreateCalls
  <1>7. Gone'
    BY DEF CreateDeployment, Goto, Answer, request, TypeOK, Gone, Control, Over,
           DeletedIsGone, Creates, Deletes, Before, CreateCalls, DeleteCalls
  <1>8. Late'
    <2>1. \/ late' = late
          \/ Blame(r) /\ late' = late \cup {<<"createDeployment", r>>} /\ pc'[r] \in Over
      BY DEF CreateDeployment, Goto, Answer, Sent, NotSent, Blame, Over, TypeOK
    <2>2. /\ pc[r] = "deploy" /\ pc[r] \in Calls /\ (pc[r] \in CreateCalls => op[r] = "create")
          /\ UNCHANGED <<op, id, belated>> /\ mishap \subseteq mishap'
          /\ \A q \in Request \ {r} : pc'[q] = pc[q] /\ answer'[q] = answer[q]
          /\ pc[r] = "rollback" => pc'[r] \in Over /\ answer'[r] = 500
      BY DEF CreateDeployment, Goto, Answer, Blame, Blameless, request, TypeOK, Control, Calls, Over
    <2>. QED  BY <2>1, <2>2, LateKept DEF CreateCalls
  <1>. QED  BY <1>1, <1>2, <1>3, <1>4, <1>5, <1>6, <1>7, <1>8

LEMMA CheckDuplicateIInv ==
    ASSUME IInv, NEW r \in Request, CheckDuplicate(r)
    PROVE  IInv'
  <1>. USE DEF IInv
  <1>1. TypeOK'
    <2>1. pc' \in [Request -> Calls \cup Over \cup {"idle"}]
      BY DEF CheckDuplicate, Goto, Answer, TypeOK, Calls, Over
    <2>2. answer' \in [Request -> {0, 200, 201, 204, 404, 409, 500}]
      BY DEF CheckDuplicate, Goto, Answer, TypeOK
    <2>3. faults' \in 0..MaxFaults
      BY FaultsAssumption DEF CheckDuplicate, ContextAlive, ContextOrFault, Fault, TypeOK
    <2>. QED
      BY <2>1, <2>2, <2>3 DEF CheckDuplicate, cluster, request, TypeOK
  <1>2. Control'
    BY DEF CheckDuplicate, Goto, Answer, cluster, request, Control, TypeOK, Calls, Over,
           CreateCalls, DeleteCalls, GetCalls
  <1>3. Before'
    BY DEF CheckDuplicate, Goto, Answer, cluster, request, Before, TypeOK, Over, Calls
  <1>4. Duplicates'
    BY DEF CheckDuplicate, Goto, Answer, cluster, request, Before, TypeOK, Over, Duplicates,
           DuplicatesOverlap, Overlap, WithId
  <1>5. Undone'
    BY DEF CheckDuplicate, Goto, Answer, cluster, request, TypeOK, Undone, Control, Over,
           FailedCreateLeavesNothing, CreateCalls, DeleteCalls, GetCalls
  <1>6. Visible'
    BY DEF CheckDuplicate, Goto, Answer, cluster, request, TypeOK, Visible, Control, Over,
           AckedIsVisible, Creates, Deletes, Before, CreateCalls, DeleteCalls, GetCalls, WithId
  <1>7. Gone'
    BY DEF CheckDuplicate, Goto, Answer, cluster, request, TypeOK, Gone, Control, Over,
           DeletedIsGone, Creates, Deletes, Before, CreateCalls, DeleteCalls, WithId
  <1>8. Late'
    <2>1. /\ pc[r] \in Calls \ {"rollback"} /\ (pc[r] \in CreateCalls => op[r] = "create")
          /\ UNCHANGED <<op, id, late, belated, mishap>>
          /\ \A q \in Request \ {r} : pc'[q] = pc[q] /\ answer'[q] = answer[q]
      BY DEF CheckDuplicate, Goto, Answer, cluster, request, TypeOK, Control, Calls
    <2>. QED  BY <2>1, LateKept
  <1>. QED  BY <1>1, <1>2, <1>3, <1>4, <1>5, <1>6, <1>7, <1>8

LEMMA CreateServiceIInv ==
    ASSUME IInv, NEW r \in Request, CreateService(r)
    PROVE  IInv'
  <1>. USE DEF IInv
  <1>1. TypeOK'
    <2>1. pc' \in [Request -> Calls \cup Over \cup {"idle"}]
      BY DEF CreateService, Goto, Answer, TypeOK, Calls, Over
    <2>2. answer' \in [Request -> {0, 200, 201, 204, 404, 409, 500}]
      BY DEF CreateService, Goto, Answer, TypeOK
    <2>3. faults' \in 0..MaxFaults
      BY FaultsAssumption DEF CreateService, ContextAlive, ContextOrFault, Fault, TypeOK
    <2>4. services' \in SUBSET Request /\ mishap' \in SUBSET Request
      BY DEF CreateService, Blame, Blameless, TypeOK
    <2>5. late' \in SUBSET (Write \X Request)
      BY DEF CreateService, Sent, NotSent, Write, TypeOK
    <2>. QED
      BY <2>1, <2>2, <2>3, <2>4, <2>5 DEF CreateService, cluster, request, TypeOK
  <1>2. Control'
    BY DEF CreateService, Goto, Answer, cluster, request, Control, TypeOK, Calls, Over,
           CreateCalls, DeleteCalls, GetCalls
  <1>3. Before'
    BY DEF CreateService, Goto, Answer, cluster, request, Before, TypeOK, Over, Calls
  <1>4. Duplicates'
    BY DEF CreateService, Goto, Answer, cluster, request, Before, TypeOK, Over, Duplicates,
           DuplicatesOverlap, Overlap
  <1>5. Undone'
    BY DEF CreateService, Goto, Answer, cluster, request, TypeOK, Undone, Control, Over,
           FailedCreateLeavesNothing, Blame, Blameless, CreateCalls, DeleteCalls, GetCalls
  <1>6. Visible'
    BY DEF CreateService, Goto, Answer, cluster, request, TypeOK, Visible, Control, Over,
           AckedIsVisible, Creates, Deletes, Before, CreateCalls, DeleteCalls, GetCalls
  <1>7. Gone'
    BY DEF CreateService, Goto, Answer, cluster, request, TypeOK, Gone, Control, Over,
           DeletedIsGone, Creates, Deletes, Before, CreateCalls, DeleteCalls
  <1>8. Late'
    <2>1. \/ late' = late
          \/ Blame(r) /\ late' = late \cup {<<"createService", r>>} /\ pc'[r] = "rollback"
      BY DEF CreateService, Goto, Answer, Sent, NotSent, Blame, Over, TypeOK
    <2>2. /\ pc[r] = "service" /\ pc[r] \in Calls /\ (pc[r] \in CreateCalls => op[r] = "create")
          /\ UNCHANGED <<op, id, belated>> /\ mishap \subseteq mishap'
          /\ \A q \in Request \ {r} : pc'[q] = pc[q] /\ answer'[q] = answer[q]
          /\ pc[r] = "rollback" => pc'[r] \in Over /\ answer'[r] = 500
      BY DEF CreateService, Goto, Answer, Blame, Blameless, request, TypeOK, Control, Calls, Over
    <2>. QED  BY <2>1, <2>2, LateKept DEF CreateCalls
  <1>. QED  BY <1>1, <1>2, <1>3, <1>4, <1>5, <1>6, <1>7, <1>8

LEMMA RollbackIInv ==
    ASSUME IInv, NEW r \in Request, Rollback(r)
    PROVE  IInv'
  <1>. USE DEF IInv
  <1>1. TypeOK'
    <2>1. pc' \in [Request -> Calls \cup Over \cup {"idle"}]
      BY DEF Rollback, Goto, Answer, TypeOK, Calls, Over
    <2>2. answer' \in [Request -> {0, 200, 201, 204, 404, 409, 500}]
      BY DEF Rollback, Goto, Answer, TypeOK
    <2>3. faults' \in 0..MaxFaults
      BY FaultsAssumption DEF Rollback, Detached, Fault, TypeOK
    <2>4. deployments' \in SUBSET Request /\ mishap' \in SUBSET Request
      BY DEF Rollback, Blame, Blameless, TypeOK
    <2>5. late' \in SUBSET (Write \X Request)
      BY DEF Rollback, Sent, NotSent, Write, TypeOK
    <2>. QED
      BY <2>1, <2>2, <2>3, <2>4, <2>5 DEF Rollback, cluster, request, TypeOK
  <1>2. Control'
    BY DEF Rollback, Goto, Answer, cluster, request, Control, TypeOK, Calls, Over,
           CreateCalls, DeleteCalls, GetCalls
  <1>3. Before'
    BY DEF Rollback, Goto, Answer, cluster, request, Before, TypeOK, Over, Calls
  <1>4. Duplicates'
    BY DEF Rollback, Goto, Answer, cluster, request, Before, TypeOK, Over, Duplicates,
           DuplicatesOverlap, Overlap
  <1>5. Undone'
    BY DEF Rollback, Goto, Answer, cluster, request, TypeOK, Undone, Control, Over,
           FailedCreateLeavesNothing, Blame, Blameless, CreateCalls, DeleteCalls, GetCalls
  <1>6. Visible'
    BY DEF Rollback, Goto, Answer, cluster, request, TypeOK, Visible, Control, Over,
           AckedIsVisible, Creates, Deletes, Before, CreateCalls, DeleteCalls, GetCalls
  <1>7. Gone'
    BY DEF Rollback, Goto, Answer, cluster, request, TypeOK, Gone, Control, Over,
           DeletedIsGone, Creates, Deletes, Before, CreateCalls, DeleteCalls
  <1>8. Late'
    <2>1. \/ late' = late
          \/ Blame(r) /\ late' = late \cup {<<"deleteDeployment", r>>}
      BY DEF Rollback, Goto, Answer, Sent, NotSent, Blame, Over, TypeOK
    <2>2. /\ pc[r] = "rollback" /\ pc[r] \in Calls /\ (pc[r] \in CreateCalls => op[r] = "create")
          /\ UNCHANGED <<op, id, belated>> /\ mishap \subseteq mishap'
          /\ \A q \in Request \ {r} : pc'[q] = pc[q] /\ answer'[q] = answer[q]
          /\ pc[r] = "rollback" => pc'[r] \in Over /\ answer'[r] = 500
      BY DEF Rollback, Goto, Answer, Blame, Blameless, request, TypeOK, Control, Calls, Over
    <2>. QED  BY <2>1, <2>2, LateKept DEF CreateCalls
  <1>. QED  BY <1>1, <1>2, <1>3, <1>4, <1>5, <1>6, <1>7, <1>8

LEMMA FindDeploymentIInv ==
    ASSUME IInv, NEW r \in Request, FindDeployment(r)
    PROVE  IInv'
  <1>. USE DEF IInv
  <1>1. TypeOK'
    <2>1. pc' \in [Request -> Calls \cup Over \cup {"idle"}]
      BY DEF FindDeployment, Goto, Answer, TypeOK, Calls, Over
    <2>2. answer' \in [Request -> {0, 200, 201, 204, 404, 409, 500}]
      BY DEF FindDeployment, Goto, Answer, TypeOK
    <2>3. faults' \in 0..MaxFaults
      BY FaultsAssumption DEF FindDeployment, ContextAlive, ContextOrFault, Fault, TypeOK
    <2>4. found' \in [Request -> SUBSET Request]
      BY DEF FindDeployment, WithId, TypeOK
    <2>. QED
      BY <2>1, <2>2, <2>3, <2>4 DEF FindDeployment, cluster, request, TypeOK
  <1>2. Control'
    BY DEF FindDeployment, Goto, Answer, cluster, request, Control, TypeOK, Calls, Over,
           CreateCalls, DeleteCalls, GetCalls
  <1>3. Before'
    BY DEF FindDeployment, Goto, Answer, cluster, request, Before, TypeOK, Over, Calls, WithId, Control
  <1>4. Duplicates'
    BY DEF FindDeployment, Goto, Answer, cluster, request, Before, TypeOK, Over, Duplicates,
           DuplicatesOverlap, Overlap, WithId
  <1>5. Undone'
    BY DEF FindDeployment, Goto, Answer, cluster, request, TypeOK, Undone, Control, Over,
           FailedCreateLeavesNothing, CreateCalls, DeleteCalls, GetCalls
  <1>6. Visible'
    BY DEF FindDeployment, Goto, Answer, cluster, request, TypeOK, Visible, Control, Over,
           AckedIsVisible, Creates, Deletes, Before, CreateCalls, DeleteCalls, GetCalls, WithId
  <1>7. Gone'
    BY DEF FindDeployment, Goto, Answer, cluster, request, TypeOK, Gone, Control, Over,
           DeletedIsGone, Creates, Deletes, Before, CreateCalls, DeleteCalls, WithId
  <1>8. Late'
    <2>1. /\ pc[r] \in Calls \ {"rollback"} /\ (pc[r] \in CreateCalls => op[r] = "create")
          /\ UNCHANGED <<op, id, late, belated, mishap>>
          /\ \A q \in Request \ {r} : pc'[q] = pc[q] /\ answer'[q] = answer[q]
      BY DEF FindDeployment, Goto, Answer, cluster, request, TypeOK, Control, Calls
    <2>. QED  BY <2>1, LateKept
  <1>. QED  BY <1>1, <1>2, <1>3, <1>4, <1>5, <1>6, <1>7, <1>8

LEMMA ListServicesIInv ==
    ASSUME IInv, NEW r \in Request, ListServices(r)
    PROVE  IInv'
  <1>. USE DEF IInv
  <1>1. TypeOK'
    <2>1. pc' \in [Request -> Calls \cup Over \cup {"idle"}]
      BY DEF ListServices, Goto, Answer, TypeOK, Calls, Over
    <2>2. answer' \in [Request -> {0, 200, 201, 204, 404, 409, 500}]
      BY DEF ListServices, Goto, Answer, TypeOK
    <2>3. faults' \in 0..MaxFaults
      BY FaultsAssumption DEF ListServices, ContextAlive, ContextOrFault, Fault, TypeOK
    <2>4. todo' \in [Request -> SUBSET Request]
      BY DEF ListServices, WithId, TypeOK
    <2>. QED
      BY <2>1, <2>2, <2>3, <2>4 DEF ListServices, cluster, request, TypeOK
  <1>2. Control'
    BY DEF ListServices, Goto, Answer, cluster, request, Control, TypeOK, Calls, Over,
           CreateCalls, DeleteCalls, GetCalls
  <1>3. Before'
    BY DEF ListServices, Goto, Answer, cluster, request, Before, TypeOK, Over, Calls
  <1>4. Duplicates'
    BY DEF ListServices, Goto, Answer, cluster, request, Before, TypeOK, Over, Duplicates,
           DuplicatesOverlap, Overlap
  <1>5. Undone'
    BY DEF ListServices, Goto, Answer, cluster, request, TypeOK, Undone, Control, Over,
           FailedCreateLeavesNothing, CreateCalls, DeleteCalls, GetCalls
  <1>6. Visible'
    BY DEF ListServices, Goto, Answer, cluster, request, TypeOK, Visible, Control, Over,
           AckedIsVisible, Creates, Deletes, Before, CreateCalls, DeleteCalls, GetCalls
  <1>7. Gone'
    BY DEF ListServices, Goto, Answer, cluster, request, TypeOK, Gone, Control, Over,
           DeletedIsGone, Creates, Deletes, Before, CreateCalls, DeleteCalls
  <1>8. Late'
    <2>1. /\ pc[r] \in Calls \ {"rollback"} /\ (pc[r] \in CreateCalls => op[r] = "create")
          /\ UNCHANGED <<op, id, late, belated, mishap>>
          /\ \A q \in Request \ {r} : pc'[q] = pc[q] /\ answer'[q] = answer[q]
      BY DEF ListServices, Goto, Answer, cluster, request, TypeOK, Control, Calls
    <2>. QED  BY <2>1, LateKept
  <1>. QED  BY <1>1, <1>2, <1>3, <1>4, <1>5, <1>6, <1>7, <1>8

LEMMA DeleteServiceIInv ==
    ASSUME IInv, NEW r \in Request, DeleteService(r)
    PROVE  IInv'
  <1>. USE DEF IInv
  <1>1. TypeOK'
    <2>1. pc' \in [Request -> Calls \cup Over \cup {"idle"}]
      BY DEF DeleteService, Goto, Answer, TypeOK, Calls, Over
    <2>2. answer' \in [Request -> {0, 200, 201, 204, 404, 409, 500}]
      BY DEF DeleteService, Goto, Answer, TypeOK
    <2>3. faults' \in 0..MaxFaults
      BY FaultsAssumption DEF DeleteService, ContextAlive, ContextOrFault, Fault, TypeOK
    <2>4. services' \in SUBSET Request /\ todo' \in [Request -> SUBSET Request] /\ mishap' \in SUBSET Request
      BY DEF DeleteService, Blame, Blameless, TypeOK
    <2>5. late' \in SUBSET (Write \X Request)
      BY DEF DeleteService, Sent, NotSent, Write, TypeOK
    <2>. QED
      BY <2>1, <2>2, <2>3, <2>4, <2>5 DEF DeleteService, cluster, request, TypeOK
  <1>2. Control'
    BY DEF DeleteService, Goto, Answer, cluster, request, Control, TypeOK, Calls, Over,
           CreateCalls, DeleteCalls, GetCalls
  <1>3. Before'
    BY DEF DeleteService, Goto, Answer, cluster, request, Before, TypeOK, Over, Calls
  <1>4. Duplicates'
    BY DEF DeleteService, Goto, Answer, cluster, request, Before, TypeOK, Over, Duplicates,
           DuplicatesOverlap, Overlap
  <1>5. Undone'
    BY DEF DeleteService, Goto, Answer, cluster, request, TypeOK, Undone, Control, Over,
           FailedCreateLeavesNothing, Blame, Blameless, CreateCalls, DeleteCalls, GetCalls
  <1>6. Visible'
    BY DEF DeleteService, Goto, Answer, cluster, request, TypeOK, Visible, Control, Over,
           AckedIsVisible, Creates, Deletes, Before, CreateCalls, DeleteCalls, GetCalls
  <1>7. Gone'
    BY DEF DeleteService, Goto, Answer, cluster, request, TypeOK, Gone, Control, Over,
           DeletedIsGone, Creates, Deletes, Before, CreateCalls, DeleteCalls
  <1>8. Late'
    <2>1. \/ late' = late
          \/ Blame(r) /\ \E o \in Request : late' = late \cup {<<"deleteService", o>>}
      BY DEF DeleteService, Goto, Answer, Sent, NotSent, Blame, Over, TypeOK
    <2>2. /\ pc[r] \in Calls /\ (pc[r] \in CreateCalls => op[r] = "create")
          /\ UNCHANGED <<op, id, belated>> /\ mishap \subseteq mishap'
          /\ \A q \in Request \ {r} : pc'[q] = pc[q] /\ answer'[q] = answer[q]
          /\ pc[r] = "rollback" => pc'[r] \in Over /\ answer'[r] = 500
      BY DEF DeleteService, Goto, Answer, Blame, Blameless, request, TypeOK, Control, Calls, Over
    <2>. QED  BY <2>1, <2>2, LateKept
  <1>. QED  BY <1>1, <1>2, <1>3, <1>4, <1>5, <1>6, <1>7, <1>8

LEMMA DeleteDeploymentIInv ==
    ASSUME IInv, NEW r \in Request, DeleteDeployment(r)
    PROVE  IInv'
  <1>. USE DEF IInv
  <1>1. TypeOK'
    <2>1. pc' \in [Request -> Calls \cup Over \cup {"idle"}]
      BY DEF DeleteDeployment, Goto, Answer, TypeOK, Calls, Over
    <2>2. answer' \in [Request -> {0, 200, 201, 204, 404, 409, 500}]
      BY DEF DeleteDeployment, Goto, Answer, TypeOK
    <2>3. faults' \in 0..MaxFaults
      BY FaultsAssumption DEF DeleteDeployment, Detached, Fault, TypeOK
    <2>4. deployments' \in SUBSET Request /\ mishap' \in SUBSET Request
      BY DEF DeleteDeployment, Blame, Blameless, TypeOK
    <2>5. late' \in SUBSET (Write \X Request)
      BY DEF DeleteDeployment, Sent, NotSent, Write, TypeOK
    <2>. QED
      BY <2>1, <2>2, <2>3, <2>4, <2>5 DEF DeleteDeployment, cluster, request, TypeOK
  <1>2. Control'
    BY DEF DeleteDeployment, Goto, Answer, cluster, request, Control, TypeOK, Calls, Over,
           CreateCalls, DeleteCalls, GetCalls
  <1>3. Before'
    BY DEF DeleteDeployment, Goto, Answer, cluster, request, Before, TypeOK, Over, Calls
  <1>4. Duplicates'
    BY DEF DeleteDeployment, Goto, Answer, cluster, request, Before, TypeOK, Over, Duplicates,
           DuplicatesOverlap, Overlap
  <1>5. Undone'
    BY DEF DeleteDeployment, Goto, Answer, cluster, request, TypeOK, Undone, Control, Over,
           FailedCreateLeavesNothing, Blame, Blameless, CreateCalls, DeleteCalls, GetCalls
  <1>6. Visible'
    BY DEF DeleteDeployment, Goto, Answer, cluster, request, TypeOK, Visible, Control, Over,
           AckedIsVisible, Creates, Deletes, Before, CreateCalls, DeleteCalls, GetCalls
  <1>7. Gone'
    BY DEF DeleteDeployment, Goto, Answer, cluster, request, TypeOK, Gone, Control, Over,
           DeletedIsGone, Creates, Deletes, Before, CreateCalls, DeleteCalls
  <1>8. Late'
    <2>1. \/ late' = late
          \/ Blame(r) /\ \E o \in found[r] : late' = late \cup {<<"deleteDeployment", o>>}
      BY DEF DeleteDeployment, Goto, Answer, Sent, NotSent, Blame, Over, TypeOK
    <2>2. /\ pc[r] \in Calls /\ (pc[r] \in CreateCalls => op[r] = "create")
          /\ UNCHANGED <<op, id, belated>> /\ mishap \subseteq mishap'
          /\ \A q \in Request \ {r} : pc'[q] = pc[q] /\ answer'[q] = answer[q]
          /\ pc[r] = "rollback" => pc'[r] \in Over /\ answer'[r] = 500
      BY DEF DeleteDeployment, Goto, Answer, Blame, Blameless, request, TypeOK, Control, Calls, Over
    <2>3. \A o \in found[r] : o \in Request /\ Deletes(id[o]) # {} /\ op[o] = "create"
      BY DEF DeleteDeployment, Before, Control, DeleteCalls, Deletes, TypeOK
    <2>. QED  BY <2>1, <2>2, <2>3, LateKept
  <1>. QED  BY <1>1, <1>2, <1>3, <1>4, <1>5, <1>6, <1>7, <1>8

LEMMA ListPodsIInv ==
    ASSUME IInv, NEW r \in Request, ListPods(r)
    PROVE  IInv'
  <1>. USE DEF IInv
  <1>1. TypeOK'
    <2>1. pc' \in [Request -> Calls \cup Over \cup {"idle"}]
      BY DEF ListPods, Goto, Answer, TypeOK, Calls, Over
    <2>2. answer' \in [Request -> {0, 200, 201, 204, 404, 409, 500}]
      BY DEF ListPods, Goto, Answer, TypeOK
    <2>3. faults' \in 0..MaxFaults
      BY FaultsAssumption DEF ListPods, ContextAlive, ContextOrFault, Fault, TypeOK
    <2>. QED
      BY <2>1, <2>2, <2>3 DEF ListPods, cluster, request, TypeOK
  <1>2. Control'
    BY DEF ListPods, Goto, Answer, cluster, request, Control, TypeOK, Calls, Over,
           CreateCalls, DeleteCalls, GetCalls
  <1>3. Before'
    BY DEF ListPods, Goto, Answer, cluster, request, Before, TypeOK, Over, Calls
  <1>4. Duplicates'
    BY DEF ListPods, Goto, Answer, cluster, request, Before, TypeOK, Over, Duplicates,
           DuplicatesOverlap, Overlap
  <1>5. Undone'
    BY DEF ListPods, Goto, Answer, cluster, request, TypeOK, Undone, Control, Over,
           FailedCreateLeavesNothing, CreateCalls, DeleteCalls, GetCalls
  <1>6. Visible'
    BY DEF ListPods, Goto, Answer, cluster, request, TypeOK, Visible, Control, Over,
           AckedIsVisible, Creates, Deletes, Before, CreateCalls, DeleteCalls, GetCalls
  <1>7. Gone'
    BY DEF ListPods, Goto, Answer, cluster, request, TypeOK, Gone, Control, Over,
           DeletedIsGone, Creates, Deletes, Before, CreateCalls, DeleteCalls
  <1>8. Late'
    <2>1. /\ pc[r] \in Calls \ {"rollback"} /\ (pc[r] \in CreateCalls => op[r] = "create")
          /\ UNCHANGED <<op, id, late, belated, mishap>>
          /\ \A q \in Request \ {r} : pc'[q] = pc[q] /\ answer'[q] = answer[q]
      BY DEF ListPods, Goto, Answer, cluster, request, TypeOK, Control, Calls
    <2>. QED  BY <2>1, LateKept
  <1>. QED  BY <1>1, <1>2, <1>3, <1>4, <1>5, <1>6, <1>7, <1>8

LEMMA GetServiceIInv ==
    ASSUME IInv, NEW r \in Request, GetService(r)
    PROVE  IInv'
  <1>. USE DEF IInv
  <1>1. TypeOK'
    <2>1. pc' \in [Request -> Calls \cup Over \cup {"idle"}]
      BY DEF GetService, Goto, Answer, TypeOK, Calls, Over
    <2>2. answer' \in [Request -> {0, 200, 201, 204, 404, 409, 500}]
      BY DEF GetService, Goto, Answer, TypeOK
    <2>3. faults' \in 0..MaxFaults
      BY FaultsAssumption DEF GetService, ContextAlive, ContextOrFault, Fault, TypeOK
    <2>. QED
      BY <2>1, <2>2, <2>3 DEF GetService, cluster, request, TypeOK
  <1>2. Control'
    BY DEF GetService, Goto, Answer, cluster, request, Control, TypeOK, Calls, Over,
           CreateCalls, DeleteCalls, GetCalls
  <1>3. Before'
    BY DEF GetService, Goto, Answer, cluster, request, Before, TypeOK, Over, Calls
  <1>4. Duplicates'
    BY DEF GetService, Goto, Answer, cluster, request, Before, TypeOK, Over, Duplicates,
           DuplicatesOverlap, Overlap
  <1>5. Undone'
    BY DEF GetService, Goto, Answer, cluster, request, TypeOK, Undone, Control, Over,
           FailedCreateLeavesNothing, CreateCalls, DeleteCalls, GetCalls
  <1>6. Visible'
    BY DEF GetService, Goto, Answer, cluster, request, TypeOK, Visible, Control, Over,
           AckedIsVisible, Creates, Deletes, Before, CreateCalls, DeleteCalls, GetCalls
  <1>7. Gone'
    BY DEF GetService, Goto, Answer, cluster, request, TypeOK, Gone, Control, Over,
           DeletedIsGone, Creates, Deletes, Before, CreateCalls, DeleteCalls
  <1>8. Late'
    <2>1. /\ pc[r] \in Calls \ {"rollback"} /\ (pc[r] \in CreateCalls => op[r] = "create")
          /\ UNCHANGED <<op, id, late, belated, mishap>>
          /\ \A q \in Request \ {r} : pc'[q] = pc[q] /\ answer'[q] = answer[q]
      BY DEF GetService, Goto, Answer, cluster, request, TypeOK, Control, Calls
    <2>. QED  BY <2>1, LateKept
  <1>. QED  BY <1>1, <1>2, <1>3, <1>4, <1>5, <1>6, <1>7, <1>8

\* A request that begins takes its id: nobody has found it, nobody waits for it.
LEMMA BeginIInv ==
    ASSUME IInv, NEW r \in Request, Begin(r)
    PROVE  IInv'
  <1>. USE DEF IInv
  <1>. PICK o \in Operation, i \in Id :
         /\ op' = [op EXCEPT ![r] = o]
         /\ id' = [id EXCEPT ![r] = i]
         /\ IF o = "create" THEN exposed' \in {exposed, exposed \cup {r}}
                            ELSE UNCHANGED exposed
         /\ Goto(r, IF o = "create" THEN "check" ELSE "find")
    BY DEF Begin
  <1>0. pc[r] = "idle" /\ op[r] = "none" /\ answer[r] = 0 /\ found[r] = {}
    BY DEF Begin, Control, Before, TypeOK
  <1>1. TypeOK'
    BY DEF Begin, Goto, cluster, TypeOK, Calls, Over, Operation
  <1>2. Control'
    BY <1>0 DEF Begin, Goto, cluster, Control, TypeOK, Operation, Over,
           CreateCalls, DeleteCalls, GetCalls
  <1>3. Before'
    BY <1>0 DEF Begin, Goto, Before, TypeOK, Over
  <1>4. Duplicates'
    BY <1>0 DEF Begin, Goto, cluster, Before, Control, TypeOK, Over, Duplicates,
           DuplicatesOverlap, Overlap
  <1>5. Undone'
    BY <1>0 DEF Begin, Goto, cluster, TypeOK, Undone, Control, Over,
           FailedCreateLeavesNothing
  <1>6. Visible'
    <2>. USE <1>0 DEF Begin, Goto, cluster
    <2>. /\ op \in [Request -> Operation \cup {"none"}] /\ id \in [Request -> Id \cup {NoId}]
         /\ pc \in [Request -> Calls \cup Over \cup {"idle"}]
         /\ prior \in [Request -> SUBSET Request]
      BY DEF TypeOK
    <2>1. AckedIsVisible'
      BY DEF Visible, AckedIsVisible, Creates, Deletes, Before, Over
    <2>2. (\A c \in Request :
             op[c] = "create" /\ (pc[c] = "service" \/ answer[c] = 201) /\ Deletes(id[c]) = {}
             => c \in deployments)'
      BY DEF Visible, Deletes
    <2>3. (\A q \in Request : \A c \in prior[q] \cap Creates(id[q]) :
             pc[q] \in {"deploy", "service"} /\ answer[c] = 201 => Deletes(id[q]) # {})'
      BY DEF Visible, Creates, Deletes, Before, Over
    <2>. QED  BY <2>1, <2>2, <2>3 DEF Visible
  <1>7. Gone'
    <2>1. (\A d \in Request : \A c \in deployments :
             /\ id[c] = id[d]
             /\ \/ pc[d] \in DeleteCalls /\ c \notin found[d]
                \/ op[d] = "delete" /\ answer[d] = 204
             => c \notin prior[d] \/ c \in belated)'
      BY <1>0 DEF Begin, Goto, cluster, TypeOK, Gone, Control, Over, DeleteCalls
    <2>2. DeletedIsGone'
      <3>. SUFFICES ASSUME NEW q \in Request, NEW d \in (prior[q] \cap Deletes(id[q]))',
                           answer'[d] = 204, found'[q] # {}
                    PROVE  \E c \in Creates(id[q])' : c \notin prior'[d] \/ c \in belated'
        BY DEF DeletedIsGone
      <3>1. q # r /\ d # r
        BY <1>0 DEF Begin, Goto, Deletes
      <3>2. d \in prior[q] \cap Deletes(id[q]) /\ answer[d] = 204 /\ found[q] # {}
        BY <3>1 DEF Begin, Goto, Deletes, TypeOK
      <3>3. PICK c \in Creates(id[q]) : c \notin prior[d] \/ c \in belated
        BY <3>2 DEF Gone, DeletedIsGone
      <3>4. c # r /\ c \in Request
        BY <3>3, <1>0 DEF Creates
      <3>. QED  BY <3>1, <3>3, <3>4 DEF Begin, Creates, TypeOK, cluster
    <2>. QED  BY <2>1, <2>2 DEF Gone
  <1>8. Late'
    BY <1>0 DEF Begin, Goto, cluster, TypeOK, Late, Over, Deletes
  <1>. QED  BY <1>1, <1>2, <1>3, <1>4, <1>5, <1>6, <1>7, <1>8

LEMMA CancelIInv ==
    ASSUME IInv, NEW r \in Request, Cancel(r)
    PROVE  IInv'
  <1>. USE DEF IInv
  <1>1. TypeOK'
    BY FaultsAssumption DEF Cancel, Fault, request, cluster, TypeOK, Active
  <1>2. Control' /\ Before' /\ Duplicates' /\ Undone'
    BY DEF Cancel, request, cluster, Control, Before, Duplicates, DuplicatesOverlap,
           Overlap, Undone, FailedCreateLeavesNothing
  <1>3. Visible' /\ Gone'
    BY DEF Cancel, request, cluster, Visible, AckedIsVisible, Gone, DeletedIsGone,
           Creates, Deletes
  <1>4. Late'
    BY DEF Cancel, request, cluster, Late, Deletes
  <1>. QED  BY <1>1, <1>2, <1>3, <1>4

\* A late write changes one object of the cluster and nothing else.
LEMMA LateWriteIInv ==
    ASSUME IInv, NEW r \in Request, LateWrite(r)
    PROVE  IInv'
  <1>. USE DEF IInv, request
  <1>0. UNCHANGED <<op, id, exposed, prior, pc, found, todo, answer, ctxDone, faults, mishap>>
    BY DEF LateWrite
  <1>1. TypeOK'
    BY <1>0 DEF LateWrite, TypeOK
  <1>2. Control'
    BY <1>0 DEF LateWrite, Control, Late
  <1>3. Before'
    BY <1>0 DEF Before
  <1>4. Duplicates'
    BY <1>0 DEF LateWrite, Duplicates, DuplicatesOverlap, Overlap
  <1>5. Undone'
    BY <1>0 DEF LateWrite, Undone, FailedCreateLeavesNothing, Late
  <1>6. Visible'
    BY <1>0 DEF LateWrite, Visible, AckedIsVisible, Creates, Deletes, Late, Over
  <1>7. Gone'
    BY <1>0 DEF LateWrite, Gone, DeletedIsGone, Creates, Deletes
  <1>8. Late'
    BY <1>0 DEF LateWrite, Late, Deletes
  <1>. QED  BY <1>1, <1>2, <1>3, <1>4, <1>5, <1>6, <1>7, <1>8

\* A crash ends requests without an answer and leaves the cluster as it is.
LEMMA CrashIInv ==
    ASSUME IInv, Crash
    PROVE  IInv'
  <1>. USE DEF IInv
  <1>1. TypeOK'
    <2>1. late' \in SUBSET (Write \X Request)
      BY DEF Crash, InFlight, TypeOK
    <2>2. faults' \in 0..MaxFaults /\ pc' \in [Request -> Calls \cup Over \cup {"idle"}]
      BY FaultsAssumption DEF Crash, Fault, TypeOK, Active, Over
    <2>. QED  BY <2>1, <2>2 DEF Crash, request, TypeOK, Active
  <1>2. Control'
    BY DEF Crash, request, cluster, Control, TypeOK, Active, Calls, Over,
           CreateCalls, DeleteCalls, GetCalls
  <1>3. Before'
    BY DEF Crash, request, Before, TypeOK, Active, Calls, Over
  <1>4. Duplicates'
    BY DEF Crash, request, cluster, Duplicates, DuplicatesOverlap, Overlap, TypeOK,
           Active, Calls
  <1>5. Undone'
    BY DEF Crash, request, cluster, Undone, FailedCreateLeavesNothing, TypeOK,
           Active, Calls
  <1>6. Visible'
    BY DEF Crash, request, cluster, Visible, AckedIsVisible, Creates, Deletes, TypeOK,
           Active, Calls
  <1>7. Gone'
    BY DEF Crash, request, cluster, Gone, DeletedIsGone, Creates, Deletes, TypeOK,
           Active, Calls, DeleteCalls
  <1>8. Late'
    <2>0. PICK sent \in SUBSET UNION {InFlight(r) : r \in Active} : late' = late \cup sent
      BY DEF Crash
    <2>1. /\ UNCHANGED <<op, id, answer, belated>> /\ mishap' = mishap \cup Active
          /\ \A q \in Request : pc'[q] = IF q \in Active THEN "crashed" ELSE pc[q]
      BY DEF Crash, request, TypeOK
    <2>2. (late' # {} => mishap' # {}) /\ belated' \subseteq mishap'
      BY <2>0, <2>1 DEF Late
    <2>3. ASSUME NEW q \in Request, NEW w, <<w, q>> \in sent
          PROVE  \/ w \in {"createDeployment", "createService"} /\ q \in Active /\ op[q] = "create"
                 \/ w = "deleteService"
                 \/ w = "deleteDeployment" /\ q \in Active /\ answer[q] # 201
                 \/ w = "deleteDeployment" /\ Deletes(id[q]) # {} /\ op[q] = "create"
      <3>1. PICK r \in Active : <<w, q>> \in InFlight(r)
        BY <2>0, <2>3
      <3>2. CASE q = r /\ pc[r] \in {"deploy", "service", "rollback"}
        BY <3>1, <3>2 DEF InFlight, Control, CreateCalls
      <3>3. CASE w = "deleteService"
        BY <3>3
      <3>4. CASE w = "deleteDeployment" /\ q \in found[r] /\ pc[r] = "deleteDeploy"
        BY <3>4 DEF Before, Control, DeleteCalls, Deletes, Active
      <3>. QED  BY <3>1, <3>2, <3>3, <3>4 DEF InFlight
    <2>. SUFFICES ASSUME NEW q \in Request
                  PROVE  /\ <<"createDeployment", q>> \in late' =>
                               op[q] = "create" /\ pc'[q] \in Over /\ q \in mishap'
                         /\ <<"createService", q>> \in late' =>
                               op[q] = "create" /\ pc'[q] \in {"rollback"} \cup Over /\ q \in mishap'
                         /\ <<"deleteDeployment", q>> \in late' =>
                               \/ pc'[q] \in Over /\ answer'[q] # 201
                               \/ Deletes(id[q]) # {} /\ op[q] = "create"
      BY <2>1, <2>2 DEF Late, Deletes
    <2>4. CASE q \in Active
      BY <2>0, <2>1, <2>3, <2>4 DEF Late, Over, Active, Calls, Control
    <2>5. CASE q \notin Active
      BY <2>0, <2>1, <2>3, <2>5 DEF Late
    <2>. QED  BY <2>4, <2>5
  <1>. QED  BY <1>1, <1>2, <1>3, <1>4, <1>5, <1>6, <1>7, <1>8

LEMMA StutterIInv == IInv /\ UNCHANGED vars => IInv'
  <1>. SUFFICES ASSUME IInv, UNCHANGED vars PROVE IInv'
    OBVIOUS
  <1>. USE DEF IInv, vars
  <1>1. TypeOK' /\ Control' /\ Before'
    BY DEF TypeOK, Control, Before
  <1>2. Duplicates' /\ Undone'
    BY DEF Duplicates, DuplicatesOverlap, Overlap, Undone, FailedCreateLeavesNothing
  <1>3. Visible' /\ Gone' /\ Late'
    BY DEF Visible, AckedIsVisible, Gone, DeletedIsGone, Late, Creates, Deletes
  <1>. QED  BY <1>1, <1>2, <1>3

LEMMA NextIInv == IInv /\ [Next]_vars => IInv'
  <1>. SUFFICES ASSUME IInv, [Next]_vars PROVE IInv'
    OBVIOUS
  <1>1. CASE \E r \in Request : Begin(r) \/ Cancel(r) \/ LateWrite(r)
    BY <1>1, BeginIInv, CancelIInv, LateWriteIInv
  <1>2. CASE \E r \in Request : Step(r)
    <2>. PICK r \in Request : Step(r)
      BY <1>2
    <2>1. CASE CheckDuplicate(r) \/ CreateDeployment(r) \/ CreateService(r) \/ Rollback(r)
      BY <2>1, CheckDuplicateIInv, CreateDeploymentIInv, CreateServiceIInv, RollbackIInv
    <2>2. CASE FindDeployment(r) \/ ListServices(r) \/ DeleteService(r) \/ DeleteDeployment(r)
      BY <2>2, FindDeploymentIInv, ListServicesIInv, DeleteServiceIInv, DeleteDeploymentIInv
    <2>3. CASE ListPods(r) \/ GetService(r)
      BY <2>3, ListPodsIInv, GetServiceIInv
    <2>. QED  BY <2>1, <2>2, <2>3 DEF Step
  <1>3. CASE Crash
    BY <1>3, CrashIInv
  <1>4. CASE UNCHANGED vars
    BY <1>4, StutterIInv
  <1>. QED  BY <1>1, <1>2, <1>3, <1>4 DEF Next, Quiet

-----------------------------------------------------------------------------
\* The invariant from which everything below follows, whatever calls of Create,
\* Delete and Get interleave, whichever of them fail, and whenever their writes
\* have their effect.
THEOREM Invariance == Spec => []IInv
  BY InitIInv, NextIInv, PTL DEF Spec

\* The store's requests and the cluster keep their types.
THEOREM TypeCorrect == Spec => []TypeOK
  BY Invariance, PTL DEF IInv

\* Creates of one id that do not overlap never both leave a Deployment, unless one
\* was made after its Create had reported an error: otherwise the conflict check
\* of store_create.go:57-66 is enough for sequential clients.
THEOREM SequentialCreatesConflict == Spec => []DuplicatesOverlap
  BY Invariance, PTL DEF IInv, Duplicates

\* A container whose Create was answered 201 can be found until somebody asks
\* to delete its id (store_create.go, store.go findDeployment).
THEOREM AcknowledgedStays == Spec => []AckedIsVisible
  BY Invariance, PTL DEF IInv, Visible

\* A container whose Delete was answered 204 is not found again, unless a
\* Create of its id was under way, or its Deployment is made late (store_delete.go).
THEOREM DeletedStaysGone == Spec => []DeletedIsGone
  BY Invariance, PTL DEF IInv, Gone

\* A Create that was not answered 201 leaves no object behind, unless the code
\* was not told the truth or its rollback failed (store_create.go:86-101).
THEOREM FailedCreateIsUndone == Spec => []FailedCreateLeavesNothing
  BY Invariance, PTL DEF IInv, Undone
=============================================================================
