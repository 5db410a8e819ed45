--------------------------- MODULE StatusMapping ---------------------------
(***************************************************************************)
(* How a container's status is derived from what the cluster shows: the    *)
(* phase table shared by the API and the monitor, the monitor's choice     *)
(* among several Pods and its reconciliation of a Deployment with a Pod,   *)
(* and the API's choice (internal/kubernetes and internal/monitoring).     *)
(* A Pod is its phase here, a Deployment the facts that these functions    *)
(* read of it; None stands for an object that is not there (Go's nil).     *)
(***************************************************************************)
EXTENDS Naturals, FiniteSets

None == "none"

Phase == {"Pending", "Running", "Succeeded", "Failed", "Unknown"}

\* replicas = 0; the ReplicaFailure condition is True; neither.
DeployState == {"zero", "replicaFailure", "ok"}

ContainerStatus == {"PENDING", "RUNNING", "FAILED", "UNKNOWN", "DELETED"}

\* A mutant of MapPodPhaseToStatus: the phase is passed on as it is.
PhaseUnmapped(phase) == phase

\* The status of a phase; Succeeded has none.
MapPodPhaseToStatus(phase) ==
    CASE phase = "Pending" -> "PENDING"
      [] phase = "Running" -> "RUNNING"
      [] phase = "Failed" -> "FAILED"
      [] phase = "Unknown" -> "UNKNOWN"
      [] OTHER -> None

\* How concerning a phase is; 0 for one that is not known.
podPhasePriority(phase) ==
    CASE phase = "Failed" -> 4
      [] phase = "Unknown" -> 3
      [] phase = "Pending" -> 2
      [] phase = "Running" -> 1
      [] OTHER -> 0

\* The phase lookupPodByIndex picks among the phases of an instance's Pods.
WorstPhase(phases) ==
    IF phases = {} THEN None
    ELSE CHOOSE p \in phases :
           \A q \in phases : podPhasePriority(q) <= podPhasePriority(p)

\* A mutant of ReconcileStatus: a Deployment that has failed comes first.
ReconcileDeployFirst(deploy, pod) ==
    IF deploy \in {"zero", "replicaFailure"} THEN "FAILED"
    ELSE IF pod # None THEN MapPodPhaseToStatus(pod)
    ELSE IF deploy = None THEN "DELETED" ELSE "PENDING"

\* The status to publish, or None when nothing is to be published.
ReconcileStatus(deploy, pod) ==
    IF pod # None THEN MapPodPhaseToStatus(pod)
    ELSE CASE deploy = None -> "DELETED"
           [] deploy \in {"zero", "replicaFailure"} -> "FAILED"
           [] OTHER -> "PENDING"
=============================================================================
