---------------------------- MODULE MCStoreReads ----------------------------
(***************************************************************************)
(* StoreReads for TLC: three containers, the first and the last with one   *)
(* id, and the specs that may be asked for them.                           *)
(***************************************************************************)
EXTENDS StoreReads

MCInstanceId == <<"a", "b", "a">>

Port(p, v) == [port |-> p, visibility |-> v]
Memory(n, u) == [n |-> n, unit |-> u]
NoLabels == [k \in {} |-> "user"]

Mixed ==
    [cpu |-> [min |-> 1, max |-> 2],
     memory |-> [min |-> Memory(1024, "MB"), max |-> Memory(1536, "MB")],
     labels |-> [k \in {"team"} |-> "user"], process |-> "given",
     ports |-> <<Port(80, "internal"), Port(81, "none"), Port(82, "external")>>]

Internal ==
    [cpu |-> [min |-> 1, max |-> 1],
     memory |-> [min |-> Memory(0, "GB"), max |-> Memory(1024, "TB")],
     labels |-> NoLabels, process |-> "empty",
     ports |-> <<Port(80, "internal"), Port(81, "none"), Port(80, "none")>>]

\* Beyond MaxMemory: it is let pass although it requests more than its limit.
Huge ==
    [cpu |-> [min |-> 1, max |-> 1],
     memory |-> [min |-> Memory(2047, "TB"), max |-> Memory(1600, "TB")],
     labels |-> NoLabels, process |-> "absent", ports |-> <<>>]

\* Refused: the unit decides, and the label is the provider's own.
TooSmall == [Huge EXCEPT !.memory.min = Memory(1, "GB"), !.memory.max = Memory(512, "MB")]
Disguised == [Huge EXCEPT !.labels = [k \in {"managed-by"} |-> "user"]]

MCAsked == <<{Huge, Disguised}, {Mixed}, {Internal, TooSmall}>>

MCDeployFacts == {{}, {"unavailable", "replicaFailure"}, {"zero"}}
=============================================================================
