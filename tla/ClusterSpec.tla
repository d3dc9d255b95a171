---------------------------- MODULE ClusterSpec ----------------------------
(***************************************************************************)
(* The sizes a spec asks for (pkg/apis/clusterlabs/v1alpha1/cluster.go).   *)
(* A *int32 is the empty sequence (nil) or a sequence of one integer.      *)
(***************************************************************************)
EXTENDS Integers, Sequences

minClusterSize == 3

GetNumReplicas(replicas) ==
    IF replicas = <<>> THEN minClusterSize
    ELSE IF replicas[1] < 0 THEN 0
    ELSE IF replicas[1] > 0 /\ replicas[1] < minClusterSize THEN minClusterSize
    ELSE replicas[1]

\* The sizes GetNumReplicas can ask for.
NumReplicas == {n \in Nat : n = 0 \/ n >= minClusterSize}

GetNumPrimaries(primaries, replicas) ==
    LET n == GetNumReplicas(replicas)
    IN  IF primaries = <<>> THEN n
        ELSE IF primaries[1] < 0 THEN 1
        ELSE IF primaries[1] > n THEN n
        ELSE primaries[1]

\* Mutant: a change of the size alone is ignored.
isSpecEqualPausedOnly(s1, s2) == s1.paused = s2.paused

\* Updates that change nothing else are ignored.  The number of primaries is
\* compared too; nothing but reconciliation depends on it, so specs leave it out.
isSpecEqual(s1, s2) ==
    GetNumReplicas(s1.replicas) = GetNumReplicas(s2.replicas) /\ s1.paused = s2.paused
============================================================================
