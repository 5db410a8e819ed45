----------------------- MODULE ContainerStoreLeftovers -----------------------
(***************************************************************************)
(* Theorems about what ContainerStore leaves in the cluster when all       *)
(* requests are over, on top of the invariant of ContainerStoreProofs.     *)
(*                                                                         *)
(* A Service without its Deployment, or a Deployment without its Service,  *)
(* is traced back to the Delete that took the other half away: what that   *)
(* Delete had found, and which Services it has still to delete.            *)
(***************************************************************************)
EXTENDS ContainerStoreProofs, FiniteSetTheorems

\* A Delete works on one Deployment, and on the Services it has listed.
Working ==
    /\ IsFiniteSet(deployments)
    /\ \A d \in Request :
         /\ pc[d] \in DeleteCalls => \E x \in Request : found[d] = {x}
         /\ pc[d] \in {"idle", "find", "listServices", "deleteDeploy"} => todo[d] = {}
         /\ \A s \in todo[d] : op[s] = "create" /\ id[s] = id[d]

\* A Service that is left, or will be made, without a Deployment: its Create
\* overlaps a Delete.  So it does when a Delete has no longer to delete the
\* Service of the Deployment it has found.
Orphans ==
    /\ \A s \in services \ deployments : \E d \in Deletes(id[s]) : Overlap(s, d)
    /\ \A r \in Request :
         pc[r] = "service" /\ r \notin deployments =>
            \E d \in Deletes(id[r]) : Overlap(r, d)
    /\ \A d \in Request :
         pc[d] \in {"deleteService", "deleteDeploy"} =>
            \A x \in found[d] \cap services : x \in todo[d] \/ Overlap(x, d)

\* Delete d is why Deployment r has no Service: they overlap, or d stopped at
\* another Service, or the Deployment is what it deletes next.
Excuses(d, r) ==
    \/ Overlap(r, d)
    \/ todo[d] # {} /\ r \notin todo[d]
    \/ pc[d] = "deleteDeploy" /\ r \in found[d]

Halves ==
    \A r \in deployments \cap exposed :
        \/ r \in services
        \/ pc[r] \in {"service", "rollback"}
        \/ \E d \in Deletes(id[r]) : Excuses(d, r)

LInv == Working /\ (mishap = {} => Orphans /\ Halves)

-----------------------------------------------------------------------------
\* A Delete in its last calls has found every Deployment of its id, but for those
\* whose Create overlaps it.
LEMMA FoundOrOverlap ==
    ASSUME IInv, mishap = {}, NEW d \in Request, pc[d] \in DeleteCalls,
           NEW c \in deployments, id[c] = id[d]
    PROVE  c \in found[d] \/ Overlap(c, d)
  <1>. c \in Request /\ op[c] = "create" /\ op[d] = "delete"
    BY DEF IInv, TypeOK, Control
  <1>1. c \in found[d] \/ c \notin prior[d]
    BY DEF IInv, Gone, Late
  <1>2. d \notin prior[c]
    BY DEF IInv, Before, Over, DeleteCalls
  <1>. QED  BY <1>1, <1>2 DEF Overlap

\* Two requests that are both under way overlap.
LEMMA ActiveOverlap ==
    ASSUME IInv, NEW q \in Request, NEW r \in Request, pc[q] \in Calls, pc[r] \in Calls
    PROVE  Overlap(q, r)
  BY DEF IInv, Before, Overlap, Calls, Over

\* What a Delete has found are Deployments of its id.
LEMMA FoundOfId ==
    ASSUME IInv, NEW d \in Request, NEW x \in found[d], pc[d] \in DeleteCalls
    PROVE  x \in Request /\ d \in Deletes(id[x])
  BY DEF IInv, Before, Control, TypeOK, Deletes

LEMMA InitLInv == Init => LInv
  <1>. SUFFICES ASSUME Init PROVE LInv
    OBVIOUS
  <1>1. Working
    BY FS_EmptySet DEF Init, Working, DeleteCalls
  <1>2. Orphans /\ Halves
    BY DEF Init, Orphans, Halves
  <1>. QED  BY <1>1, <1>2 DEF LInv

-----------------------------------------------------------------------------
(* Calls of Create.                                                        *)

LEMMA CreateDeploymentLInv ==
    ASSUME IInv, LInv, NEW r \in Request, CreateDeployment(r)
    PROVE  LInv'
  <1>. USE DEF LInv, CreateDeployment, Goto, Answer, Blame, Blameless, request
  <1>. /\ pc \in [Request -> Calls \cup Over \cup {"idle"}] /\ mishap \subseteq Request
       /\ deployments \subseteq Request
    BY DEF IInv, TypeOK
  <1>1. Working'
    BY FS_AddElement DEF Working, DeleteCalls
  <1>2. ASSUME mishap' = {} PROVE Orphans' /\ Halves'
    <2>1. Orphans /\ Halves /\ mishap = {}
      BY <1>2
    <2>2. Orphans'
      BY <2>1 DEF Orphans, Deletes, Overlap
    <2>3. Halves'
      <3>. SUFFICES ASSUME NEW c \in (deployments \cap exposed)', c \notin services',
                           pc'[c] \notin {"service", "rollback"}
                    PROVE  \E d \in Deletes(id[c])' : Excuses(d, c)'
        BY DEF Halves
      <3>1. c # r /\ c \in deployments
        <4>1. pc[r] = "deploy" /\ r \notin deployments
          BY DEF IInv, Control, Over
        <4>. QED  BY <1>2, <2>1, <4>1
      <3>2. PICK d \in Deletes(id[c]) : Excuses(d, c)
        BY <2>1, <3>1 DEF Halves
      <3>. QED  BY <3>2 DEF Excuses, Deletes, Overlap
    <2>. QED  BY <2>2, <2>3
  <1>. QED  BY <1>1, <1>2

LEMMA CreateServiceLInv ==
    ASSUME IInv, LInv, NEW r \in Request, CreateService(r)
    PROVE  LInv'
  <1>. USE DEF LInv, CreateService, Goto, Answer, Blame, Blameless, request
  <1>. /\ pc \in [Request -> Calls \cup Over \cup {"idle"}] /\ mishap \subseteq Request
       /\ deployments \subseteq Request
    BY DEF IInv, TypeOK
  <1>1. Working'
    BY DEF Working, DeleteCalls
  <1>2. ASSUME mishap' = {} PROVE Orphans' /\ Halves'
    <2>1. Orphans /\ Halves /\ mishap = {}
      BY <1>2
    <2>2. \A d \in Request : pc[d] \in {"deleteService", "deleteDeploy"} => Overlap(r, d)
      BY ActiveOverlap DEF Calls
    <2>3. Orphans'
      BY <1>2, <2>1, <2>2 DEF Orphans, Deletes, Overlap
    <2>4. Halves'
      <3>. SUFFICES ASSUME NEW c \in (deployments \cap exposed)', c \notin services',
                           pc'[c] \notin {"service", "rollback"}
                    PROVE  \E d \in Deletes(id[c])' : Excuses(d, c)'
        BY DEF Halves
      <3>1. c # r
        BY <1>2, <2>1
      <3>2. PICK d \in Deletes(id[c]) : Excuses(d, c)
        BY <1>2, <2>1, <3>1 DEF Halves
      <3>. QED  BY <3>2 DEF Excuses, Deletes, Overlap
    <2>. QED  BY <2>3, <2>4
  <1>. QED  BY <1>1, <1>2

\* The rollback of a Create without a mishap has no Service to leave behind.
LEMMA RollbackLInv ==
    ASSUME IInv, LInv, NEW r \in Request, Rollback(r)
    PROVE  LInv'
  <1>. USE DEF LInv, Rollback, Answer, Blame, Blameless, request
  <1>. pc \in [Request -> Calls \cup Over \cup {"idle"}] /\ mishap \subseteq Request
    BY DEF IInv, TypeOK
  <1>1. Working'
    BY FS_RemoveElement DEF Working, DeleteCalls
  <1>2. ASSUME mishap' = {} PROVE Orphans' /\ Halves'
    <2>1. Orphans /\ Halves /\ mishap = {} /\ deployments' = deployments \ {r}
      BY <1>2
    <2>2. r \notin services
      BY <2>1 DEF IInv, Undone
    <2>3. Orphans'
      BY <2>1, <2>2 DEF Orphans, Deletes, Overlap
    <2>4. Halves'
      BY <2>1 DEF Halves, Excuses, Deletes, Overlap
    <2>. QED  BY <2>3, <2>4
  <1>. QED  BY <1>1, <1>2

-----------------------------------------------------------------------------
(* Calls of Delete.                                                        *)

LEMMA FindDeploymentLInv ==
    ASSUME IInv, LInv, NEW r \in Request, FindDeployment(r)
    PROVE  LInv'
  <1>. USE DEF LInv, FindDeployment, Goto, Answer, request, cluster
  <1>. /\ pc \in [Request -> Calls \cup Over \cup {"idle"}]
       /\ found \in [Request -> SUBSET Request] /\ deployments \subseteq Request
    BY DEF IInv, TypeOK
  <1>1. Working'
    <2>1. ASSUME Cardinality(WithId(deployments, id[r])) = 1
          PROVE  \E x \in Request : WithId(deployments, id[r]) = {x}
      <3>1. IsFiniteSet(WithId(deployments, id[r])) /\ WithId(deployments, id[r]) \subseteq deployments
        BY FS_Subset DEF Working, WithId
      <3>. QED  BY <2>1, <3>1, FS_Singleton
    <2>. QED  BY <2>1 DEF Working, DeleteCalls
  <1>2. ASSUME mishap' = {} PROVE Orphans' /\ Halves'
    <2>1. Orphans /\ Halves
      BY <1>2
    <2>2. Orphans'
      BY <2>1 DEF Orphans, Deletes, Overlap
    <2>3. Halves'
      BY <2>1 DEF Halves, Excuses, Deletes, Overlap
    <2>. QED  BY <2>2, <2>3
  <1>. QED  BY <1>1, <1>2

\* What is listed is all that carries the id: a Service of the Deployment found
\* is among it, or has not been made yet.
LEMMA ListServicesLInv ==
    ASSUME IInv, LInv, NEW r \in Request, ListServices(r)
    PROVE  LInv'
  <1>. USE DEF LInv, ListServices, Goto, Answer, request, cluster
  <1>. /\ pc \in [Request -> Calls \cup Over \cup {"idle"}]
       /\ todo \in [Request -> SUBSET Request] /\ deployments \subseteq Request
    BY DEF IInv, TypeOK
  <1>1. Working'
    <2>1. \A s \in WithId(services, id[r]) : op[s] = "create" /\ id[s] = id[r]
      BY DEF IInv, TypeOK, Control, WithId
    <2>. QED  BY <2>1 DEF Working, DeleteCalls
  <1>2. ASSUME mishap' = {} PROVE Orphans' /\ Halves'
    <2>1. Orphans /\ Halves
      BY <1>2
    <2>2. \A x \in found[r] : id[x] = id[r]
      BY DEF IInv, Before
    <2>3. Orphans'
      BY <2>1, <2>2 DEF Orphans, Deletes, Overlap, WithId
    <2>4. todo[r] = {}
      BY DEF Working
    <2>5. Halves'
      <3>. SUFFICES ASSUME NEW c \in (deployments \cap exposed)', c \notin services',
                           pc'[c] \notin {"service", "rollback"}
                    PROVE  \E d \in Deletes(id[c])' : Excuses(d, c)'
        BY DEF Halves
      <3>1. PICK d \in Deletes(id[c]) : Excuses(d, c)
        BY <2>1 DEF Halves
      <3>. QED  BY <2>4, <3>1 DEF Excuses, Deletes, Overlap
    <2>. QED  BY <2>3, <2>5
  <1>. QED  BY <1>1, <1>2

LEMMA DeleteServiceLInv ==
    ASSUME IInv, LInv, NEW r \in Request, DeleteService(r)
    PROVE  LInv'
  <1>. USE DEF LInv, DeleteService, Goto, Answer, Blame, Blameless, request
  <1>. /\ pc \in [Request -> Calls \cup Over \cup {"idle"}] /\ mishap \subseteq Request
       /\ todo \in [Request -> SUBSET Request] /\ pc[r] = "deleteService"
    BY DEF IInv, TypeOK
  <1>1. Working'
    BY DEF Working, DeleteCalls
  <1>2. ASSUME mishap' = {} PROVE Orphans' /\ Halves'
    <2>1. Orphans /\ Halves /\ mishap = {}
      BY <1>2
    <2>2. CASE UNCHANGED <<services, todo>> /\ pc' = [pc EXCEPT ![r] = "answered"]
      <3>1. Orphans'
        BY <2>1, <2>2 DEF Orphans, Deletes, Overlap
      <3>2. Halves'
        BY <2>1, <2>2 DEF Halves, Excuses, Deletes, Overlap
      <3>. QED  BY <3>1, <3>2
    <2>3. CASE \E s \in todo[r] :
                 /\ s \in services /\ services' = services \ {s}
                 /\ todo' = [todo EXCEPT ![r] = @ \ {s}]
                 /\ pc' = [pc EXCEPT ![r] = IF todo[r] = {s} THEN "deleteDeploy"
                                                             ELSE "deleteService"]
      <3>. PICK s \in todo[r] :
             /\ s \in services /\ services' = services \ {s}
             /\ todo' = [todo EXCEPT ![r] = @ \ {s}]
             /\ pc' = [pc EXCEPT ![r] = IF todo[r] = {s} THEN "deleteDeploy"
                                                         ELSE "deleteService"]
        BY <2>3
      <3>1. Orphans'
        BY <2>1 DEF Orphans, Deletes, Overlap
      <3>2. \A c \in deployments : id[c] = id[r] => c \in found[r] \/ Overlap(c, r)
        BY <2>1, FoundOrOverlap DEF DeleteCalls
      <3>3. Halves'
        <4>. SUFFICES ASSUME NEW c \in (deployments \cap exposed)', c \notin services',
                             pc'[c] \notin {"service", "rollback"}
                      PROVE  \E d \in Deletes(id[c])' : Excuses(d, c)'
          BY DEF Halves
        <4>. c \in Request /\ op[r] = "delete" /\ op[c] = "create" /\ c # r
          BY DEF IInv, TypeOK, Control, DeleteCalls
        <4>1. CASE c = s
          <5>1. id[c] = id[r] /\ r \in Deletes(id[c])
            BY <4>1 DEF Working, Deletes
          <5>2. CASE todo[r] = {s}
            BY <5>1, <5>2, <3>2 DEF Excuses, Deletes, Overlap
          <5>3. CASE todo[r] # {s}
            BY <4>1, <5>1, <5>3 DEF Excuses, Deletes
          <5>. QED  BY <5>2, <5>3
        <4>2. CASE c # s
          <5>1. PICK d \in Deletes(id[c]) : Excuses(d, c)
            BY <2>1, <4>2 DEF Halves
          <5>2. CASE d # r
            BY <5>1, <5>2 DEF Excuses, Deletes, Overlap
          <5>3. CASE d = r
            <6>1. c \in found[r] \/ Overlap(c, r)
              BY <5>1, <5>3, <3>2 DEF Deletes
            <6>2. Overlap(c, r) \/ c \notin todo[r]
              BY <5>1, <5>3 DEF Excuses
            <6>. QED  BY <5>1, <5>3, <6>1, <6>2 DEF Excuses, Deletes, Overlap
          <5>. QED  BY <5>2, <5>3
        <4>. QED  BY <4>1, <4>2
      <3>. QED  BY <3>1, <3>3
    <2>. QED  BY <1>2, <2>2, <2>3
  <1>. QED  BY <1>1, <1>2

\* The Deployment that goes takes its excuse along; a Service that stays behind,
\* or is still to be made, is the one of a Create that overlaps.
LEMMA DeleteDeploymentLInv ==
    ASSUME IInv, LInv, NEW r \in Request, DeleteDeployment(r)
    PROVE  LInv'
  <1>. USE DEF LInv, DeleteDeployment, Answer, Blame, Blameless, request
  <1>. /\ pc \in [Request -> Calls \cup Over \cup {"idle"}] /\ mishap \subseteq Request
       /\ pc[r] = "deleteDeploy" /\ deployments \subseteq Request
    BY DEF IInv, TypeOK
  <1>0. PICK x \in Request : found[r] = {x}
    BY DEF Working, DeleteCalls
  <1>1. Working'
    <2>1. IsFiniteSet(deployments \ found[r])
      BY <1>0, FS_RemoveElement DEF Working
    <2>2. UNCHANGED <<op, id, found, todo>> /\ deployments' \in {deployments, deployments \ found[r]}
          /\ pc' = [pc EXCEPT ![r] = "answered"]
      OBVIOUS
    <2>. QED  BY <2>1, <2>2 DEF Working, DeleteCalls
  <1>2. ASSUME mishap' = {} PROVE Orphans' /\ Halves'
    <2>1. Orphans /\ Halves /\ mishap = {}
      BY <1>2
    <2>2. r \in Deletes(id[x])
      BY <1>0, FoundOfId DEF DeleteCalls
    <2>3. pc[x] = "service" \/ x \in services => Overlap(x, r)
      BY <1>0, <2>1, ActiveOverlap DEF Orphans, Working, Calls
    <2>4. Orphans'
      BY <1>0, <1>2, <2>1, <2>2, <2>3 DEF Orphans, Deletes, Overlap
    <2>5. Halves'
      <3>. SUFFICES ASSUME NEW c \in (deployments \cap exposed)', c \notin services',
                           pc'[c] \notin {"service", "rollback"}
                    PROVE  \E d \in Deletes(id[c])' : Excuses(d, c)'
        BY DEF Halves
      <3>1. PICK d \in Deletes(id[c]) : Excuses(d, c)
        BY <1>2, <2>1 DEF Halves
      <3>2. d = r /\ c \in found[r] => c \notin deployments'
        BY <1>0, <1>2, <2>1
      <3>. QED  BY <3>1, <3>2 DEF Excuses, Deletes, Overlap
    <2>. QED  BY <2>4, <2>5
  <1>. QED  BY <1>1, <1>2

-----------------------------------------------------------------------------
(* Everything else.                                                        *)

LEMMA BeginLInv ==
    ASSUME IInv, LInv, NEW r \in Request, Begin(r)
    PROVE  LInv'
  <1>. USE DEF LInv, Begin, Goto, cluster
  <1>. PICK o \in Operation, i \in Id :
         /\ op' = [op EXCEPT ![r] = o]
         /\ id' = [id EXCEPT ![r] = i]
         /\ IF o = "create" THEN exposed' \in {exposed, exposed \cup {r}}
                            ELSE UNCHANGED exposed
         /\ Goto(r, IF o = "create" THEN "check" ELSE "find")
    OBVIOUS
  <1>0. /\ pc[r] = "idle" /\ op[r] = "none" /\ found[r] = {} /\ todo[r] = {}
        /\ r \notin deployments /\ r \notin services
    BY DEF IInv, Control, Before, TypeOK, Working, Over
  <1>. /\ pc \in [Request -> Calls \cup Over \cup {"idle"}]
       /\ op \in [Request -> Operation \cup {"none"}] /\ id \in [Request -> Id \cup {NoId}]
       /\ prior \in [Request -> SUBSET Request] /\ todo \in [Request -> SUBSET Request]
       /\ deployments \subseteq Request /\ services \subseteq Request
    BY DEF IInv, TypeOK
  <1>1. Working'
    BY <1>0 DEF Working, DeleteCalls
  <1>2. ASSUME mishap' = {} PROVE Orphans' /\ Halves'
    <2>1. Orphans /\ Halves
      BY <1>2
    <2>2. \A c \in Request : \A d \in Deletes(id[c]) :
            c # r => d \in Deletes(id[c])' /\ (Overlap(c, d) => Overlap(c, d)')
      BY <1>0 DEF Deletes, Overlap
    <2>3. Orphans'
      <3>1. (\A s \in services \ deployments : \E d \in Deletes(id[s]) : Overlap(s, d))'
        BY <1>0, <2>1, <2>2 DEF Orphans
      <3>2. (\A q \in Request :
              pc[q] = "service" /\ q \notin deployments =>
                 \E d \in Deletes(id[q]) : Overlap(q, d))'
        BY <1>0, <2>1, <2>2 DEF Orphans
      <3>3. (\A d \in Request :
              pc[d] \in {"deleteService", "deleteDeploy"} =>
                 \A x \in found[d] \cap services : x \in todo[d] \/ Overlap(x, d))'
        BY <1>0, <2>1 DEF Orphans, Overlap
      <3>. QED  BY <3>1, <3>2, <3>3 DEF Orphans
    <2>4. Halves'
      <3>. SUFFICES ASSUME NEW c \in (deployments \cap exposed)', c \notin services',
                           pc'[c] \notin {"service", "rollback"}
                    PROVE  \E d \in Deletes(id[c])' : Excuses(d, c)'
        BY DEF Halves
      <3>1. PICK d \in Deletes(id[c]) : Excuses(d, c)
        BY <1>0, <2>1 DEF Halves
      <3>2. c # r /\ d # r
        BY <1>0, <3>1 DEF Deletes
      <3>. QED  BY <1>0, <2>2, <3>1, <3>2 DEF Excuses
    <2>. QED  BY <2>3, <2>4
  <1>. QED  BY <1>1, <1>2

\* A crash is a mishap.
LEMMA CrashLInv == IInv /\ LInv /\ Crash => LInv'
  BY DEF IInv, TypeOK, LInv, Working, Crash, Active, request, cluster, DeleteCalls, Over

LEMMA OthersLInv ==
    ASSUME IInv, LInv, NEW r \in Request,
           Cancel(r) \/ CheckDuplicate(r) \/ ListPods(r) \/ GetService(r)
    PROVE  LInv'
  <1>. USE DEF LInv, Cancel, CheckDuplicate, ListPods, GetService, Goto, Answer,
         request, cluster
  <1>. pc \in [Request -> Calls \cup Over \cup {"idle"}] /\ deployments \subseteq Request
    BY DEF IInv, TypeOK
  <1>1. Working'
    BY DEF Working, DeleteCalls
  <1>2. Orphans => Orphans'
    BY DEF Orphans, Deletes, Overlap
  <1>3. Halves => Halves'
    <2>. HAVE Halves
    <2>. SUFFICES ASSUME NEW c \in (deployments \cap exposed)', c \notin services',
                         pc'[c] \notin {"service", "rollback"}
                  PROVE  \E d \in Deletes(id[c])' : Excuses(d, c)'
      BY DEF Halves
    <2>1. PICK d \in Deletes(id[c]) : Excuses(d, c)
      BY DEF Halves
    <2>. QED  BY <2>1 DEF Excuses, Deletes, Overlap
  <1>. QED  BY <1>1, <1>2, <1>3

\* A late write has a mishap before it.
LEMMA LateWriteLInv ==
    ASSUME IInv, LInv, NEW r \in Request, LateWrite(r)
    PROVE  LInv'
  <1>1. Working'
    BY FS_AddElement, FS_RemoveElement DEF LInv, Working, LateWrite, request
  <1>2. mishap' # {}
    BY DEF IInv, Late, LateWrite
  <1>. QED  BY <1>1, <1>2 DEF LInv

LEMMA NextLInv == IInv /\ LInv /\ [Next]_vars => LInv'
  <1>. SUFFICES ASSUME IInv, LInv, [Next]_vars PROVE LInv'
    OBVIOUS
  <1>1. CASE \E r \in Request : Begin(r) \/ Cancel(r) \/ LateWrite(r)
    BY <1>1, BeginLInv, OthersLInv, LateWriteLInv
  <1>2. CASE \E r \in Request : Step(r)
    <2>. PICK r \in Request : Step(r)
      BY <1>2
    <2>1. CASE CreateDeployment(r) \/ CreateService(r) \/ Rollback(r)
      BY <2>1, CreateDeploymentLInv, CreateServiceLInv, RollbackLInv
    <2>2. CASE FindDeployment(r) \/ ListServices(r) \/ DeleteService(r) \/ DeleteDeployment(r)
      BY <2>2, FindDeploymentLInv, ListServicesLInv, DeleteServiceLInv, DeleteDeploymentLInv
    <2>3. CASE CheckDuplicate(r) \/ ListPods(r) \/ GetService(r)
      BY <2>3, OthersLInv
    <2>. QED  BY <2>1, <2>2, <2>3 DEF Step
  <1>3. CASE Crash
    BY <1>3, CrashLInv
  <1>4. CASE UNCHANGED vars
    BY <1>4 DEF vars, LInv, Working, Orphans, Halves, Excuses, Deletes, Overlap
  <1>. QED  BY <1>1, <1>2, <1>3, <1>4 DEF Next, Quiet

-----------------------------------------------------------------------------
\* What follows rests on both invariants.
THEOREM LeftoversTraced == Spec => [](IInv /\ LInv)
  BY InitIInv, NextIInv, InitLInv, NextLInv, PTL DEF Spec

\* A Service nobody can reach is left only by a Create that overlapped a Delete of
\* its id, or by something that failed for good (store_delete.go:20-36).
THEOREM OrphansOverlap == Spec => []OrphanServiceExcused
  <1>1. LInv => OrphanServiceExcused
    BY DEF LInv, Orphans, OrphanServiceExcused
  <1>. QED  BY <1>1, LeftoversTraced, PTL

\* A Deployment that asked for a Service has it, unless a Delete overlapped its
\* Create, met another Service of the id, or something failed for good
\* (store_create.go:81-101, store_delete.go:27-41).
THEOREM WholeContainers == Spec => []NoHalfContainer
  <1>1. IInv /\ LInv => NoHalfContainer
    <2>. SUFFICES ASSUME IInv, LInv, Active = {}, mishap = {},
                         NEW r \in deployments \cap exposed, r \notin services
                  PROVE  \E d \in Deletes(id[r]) : Overlap(r, d) \/ todo[d] \ {r} # {}
      BY DEF NoHalfContainer
    <2>1. \A q \in Request : pc[q] \notin Calls
      BY DEF Active
    <2>2. r \in Request /\ pc[r] \notin {"service", "rollback"}
      BY <2>1 DEF IInv, TypeOK, Calls
    <2>3. PICK d \in Deletes(id[r]) : Excuses(d, r)
      BY <2>2 DEF LInv, Halves
    <2>4. pc[d] # "deleteDeploy"
      BY <2>1 DEF Deletes, Calls
    <2>. QED  BY <2>3, <2>4 DEF Excuses
  <1>. QED  BY <1>1, LeftoversTraced, PTL
=============================================================================
