---------------------------- MODULE Environment ----------------------------
(***************************************************************************)
(* What the operator acts upon: the Pods of one StatefulSet, the           *)
(* application inside each, and the calls that reach them.  The code under *)
(* src/ fixes what a call means (ExecWithOptions, the exit codes, the      *)
(* label); Kubernetes and the application themselves are external.         *)
(*                                                                         *)
(* An application that runs as primary belongs to a lineage: seeding       *)
(* starts a lineage, joining adopts one.  Two lineages alive at the same   *)
(* time are a split brain.  data[p] is the replication sequence number on  *)
(* the volume of p, which outlives the Pod; committed is the last number a *)
(* client was told is written.                                             *)
(***************************************************************************)
EXTENDS Members, ClusterSpec

CONSTANTS
    Pods,              \* ordinals of the Pods that may exist
    Replicas,          \* GetNumReplicas() of the current spec
    Primaries,         \* GetNumPrimaries() of the current spec
    HasSeed,           \* is a "seed" command configured?
    HasSecondary,      \* is a "secondary" command configured?
    FailedStartLeaves, \* what a failing start command may leave behind
    Faults,            \* kinds of fault that may happen
    MaxFaults,         \* bound: how many faults a behaviour may have
    MaxSeq             \* bound: highest sequence number a client reaches

PodStates == {"absent", "Pending", "Running", "Terminating"}
AppStates == {"stopped", "starting", "secondary", "primary", "broken"}
FaultKinds == {"appStops", "appBreaks", "appDemoted", "podDies", "status",
               "sequence", "start", "stop", "delete", "tag", "get", "operator"}

ASSUME EnvironmentAssumption ==
    /\ Pods \subseteq Nat /\ IsFiniteSet(Pods)
    /\ Replicas \in NumReplicas /\ Primaries \in Nat
    /\ HasSeed \in BOOLEAN /\ HasSecondary \in BOOLEAN
    /\ FailedStartLeaves \subseteq AppStates /\ FailedStartLeaves # {}
    /\ Faults \subseteq FaultKinds
    /\ MaxFaults \in Nat /\ MaxSeq \in Nat

VARIABLES
    pod,       \* pod[p]: phase, or "absent"; a terminating Pod still lists as Running
    app,       \* app[p]: the application in p
    lineage,   \* lineage[p]: 0, or the lineage p is a primary of
    label,     \* label[p]: does rss-active-member=true select p?
    data,      \* data[p]: sequence number on the volume of p
    committed, \* last sequence number a client was told is written
    faults     \* number of faults so far

world == <<pod, app, lineage, label, data, committed>>
env == <<world, faults>>

EnvTypeOK ==
    /\ pod \in [Pods -> PodStates]
    /\ app \in [Pods -> AppStates]
    /\ lineage \in [Pods -> Nat]
    /\ label \in [Pods -> BOOLEAN]
    /\ data \in [Pods -> Nat]
    /\ committed \in Nat
    /\ faults \in 0..MaxFaults

\* The operator finds a cluster whose volumes may already hold data and where
\* an earlier operator may have left primaries running; a Pod beyond the
\* replica count is left over from a larger cluster.
EnvInit ==
    /\ pod = [p \in Pods |-> IF p < Replicas THEN "Running" ELSE "Terminating"]
    /\ app \in [Pods -> {"stopped", "primary"}]
    /\ lineage = [p \in Pods |-> IF app[p] = "primary" THEN 1 ELSE 0]
    /\ label = [p \in Pods |-> app[p] = "primary"]
    /\ data \in [Pods -> 0..MaxSeq]
    /\ committed \in {data[p] : p \in Pods}
    /\ \A p \in Pods : data[p] <= committed /\ (app[p] = "primary" => data[p] = committed)
    /\ faults = 0

Fault(kind) ==
    /\ kind \in Faults
    /\ faults < MaxFaults
    /\ faults' = faults + 1

Alive(p) == pod[p] \in {"Running", "Terminating"}

LivePrimaries == {p \in Pods : app[p] = "primary"}

\* The lineage of a primary that starts without joining another one.
NewLineage(p) ==
    CHOOSE g \in 1..(Cardinality(Pods) + 1) :
        \A q \in LivePrimaries \ {p} : lineage[q] # g

\* The application of p enters state s; what runs as a primary takes lineage g.
AppBecomes(p, s, g) ==
    /\ app' = [app EXCEPT ![p] = s]
    /\ lineage' = [lineage EXCEPT ![p] = IF s = "primary" THEN g ELSE 0]

----------------------------------------------------------------------------
(***************************************************************************)
(* Calls.  execute() runs a command in a Pod.  ExecWithOptions looks the   *)
(* Pod up first and reports success, with no output, when it cannot be     *)
(* found; a Pod that is not running yet refuses the command.               *)
(***************************************************************************)

\* parseExitCode: no error is 0, a command's own exit code is kept, any
\* other failure is 1.
StatusCode(s) ==
    CASE s = "secondary" -> 0
      [] s = "primary"   -> 8
      [] s = "broken"    -> 1
      [] OTHER           -> 7

StatusCall(p, rc) ==
    /\ UNCHANGED <<pod, app, lineage, data, committed>>
    /\ \/ Alive(p) /\ rc = StatusCode(app[p]) /\ UNCHANGED faults
       \/ pod[p] = "absent" /\ rc = 0 /\ UNCHANGED faults
       \/ pod[p] = "Pending" /\ rc = 1 /\ UNCHANGED faults
       \/ Alive(p) /\ rc = 1 /\ Fault("status")
       \/ pod[p] # "absent" /\ rc = 0 /\ Fault("get")

\* The sequence command, which leaves the operator with sequence number seq
\* where it had old: a failure or empty output keeps old, output that is not
\* a number is read as 0.
SequenceCall(p, old, seq) ==
    /\ UNCHANGED world
    /\ \/ Alive(p) /\ seq = data[p] /\ UNCHANGED faults
       \/ ~Alive(p) /\ seq = old /\ UNCHANGED faults
       \/ Alive(p) /\ seq \in {old, 0} /\ Fault("sequence")
       \/ pod[p] # "absent" /\ seq = old /\ Fault("get")

\* A start command for p given the host names of the primaries in "known".
\* Without any it founds a lineage; otherwise it joins a live primary, and
\* fails when there is none.
StartCall(p, command, known, ok) ==
    LET role    == IF command = "secondary" THEN "secondary" ELSE "primary"
        sources == IF app[p] = "primary" THEN {p} ELSE LivePrimaries
    IN
    /\ UNCHANGED <<pod, committed>>
    /\ \/ Alive(p) /\ known = {} /\ ok /\ UNCHANGED <<data, faults>>
          /\ AppBecomes(p, role, NewLineage(p))
       \/ Alive(p) /\ known # {} /\ ok /\ UNCHANGED faults
          /\ \E q \in sources :
                /\ AppBecomes(p, role, lineage[q])
                /\ data' = [data EXCEPT ![p] = data[q]]
       \/ Alive(p) /\ known # {} /\ sources = {} /\ ~ok
          /\ UNCHANGED <<app, lineage, data, faults>>
       \/ Alive(p) /\ ~ok /\ Fault("start") /\ UNCHANGED data
          /\ \E s \in FailedStartLeaves : AppBecomes(p, s, NewLineage(p))
       \/ ~Alive(p) /\ ok = (pod[p] = "absent")
          /\ UNCHANGED <<app, lineage, data, faults>>
       \/ pod[p] # "absent" /\ ok /\ Fault("get")
          /\ UNCHANGED <<app, lineage, data>>

StopCall(p, ok) ==
    /\ UNCHANGED <<data, committed>>
    /\ \/ Alive(p) /\ ok /\ UNCHANGED faults /\ AppBecomes(p, "stopped", 0)
       \/ Alive(p) /\ ~ok /\ Fault("stop")
          /\ \E s \in {app[p], "stopped"} : AppBecomes(p, s, lineage[p])
       \/ ~Alive(p) /\ ok = (pod[p] = "absent") /\ UNCHANGED <<app, lineage, faults>>
       \/ pod[p] # "absent" /\ ok /\ Fault("get") /\ UNCHANGED <<app, lineage>>

\* Pods().Delete: the Pod terminates later.  A missing Pod is an error.
\* Whether a call fails through an API fault is not counted in "faults".
DeleteCall(p, ok) ==
    \/ pod[p] # "absent" /\ ok
       /\ pod' = [pod EXCEPT ![p] = IF @ = "Pending" THEN "absent" ELSE "Terminating"]
    \/ (pod[p] = "absent" \/ "delete" \in Faults) /\ ~ok /\ UNCHANGED pod

\* tagAppMember: errors are logged and otherwise ignored.
tagAppMember(p, online) ==
    \/ pod[p] # "absent" /\ label' = [label EXCEPT ![p] = online]
    \/ (pod[p] = "absent" \/ "tag" \in Faults) /\ UNCHANGED label

----------------------------------------------------------------------------
(***************************************************************************)
(* Steps of the outside world.                                             *)
(***************************************************************************)
AppStops(p) ==
    /\ app[p] # "stopped" /\ Fault("appStops") /\ AppBecomes(p, "stopped", 0)
    /\ UNCHANGED <<pod, label, data, committed>>

AppBreaks(p) ==
    /\ app[p] \in {"secondary", "primary"} /\ Fault("appBreaks")
    /\ AppBecomes(p, "broken", 0)
    /\ UNCHANGED <<pod, label, data, committed>>

AppDemoted(p) ==
    /\ app[p] = "primary" /\ Fault("appDemoted") /\ AppBecomes(p, "secondary", 0)
    /\ UNCHANGED <<pod, label, data, committed>>

\* A start command that outlived its timeout finishes on its own.
StartFinishes(p) ==
    /\ app[p] = "starting"
    /\ \E s \in {"primary", "stopped"} : AppBecomes(p, s, NewLineage(p))
    /\ UNCHANGED <<pod, label, data, committed, faults>>

Vanish(p) ==
    /\ pod' = [pod EXCEPT ![p] = "absent"]
    /\ label' = [label EXCEPT ![p] = FALSE]
    /\ AppBecomes(p, "stopped", 0)
    /\ UNCHANGED <<data, committed>>

PodDies(p) == pod[p] # "absent" /\ Fault("podDies") /\ Vanish(p)

PodGone(p) == pod[p] = "Terminating" /\ Vanish(p) /\ UNCHANGED faults

\* The StatefulSet controller brings back the Pods the spec asks for.
PodCreated(p) ==
    /\ pod[p] = "absent" /\ p < Replicas
    /\ pod' = [pod EXCEPT ![p] = "Pending"]
    /\ UNCHANGED <<app, lineage, label, data, committed, faults>>

PodRuns(p) ==
    /\ pod[p] = "Pending"
    /\ pod' = [pod EXCEPT ![p] = "Running"]
    /\ UNCHANGED <<app, lineage, label, data, committed, faults>>

\* A client writes through primary p: its whole lineage has the write, and
\* some secondaries.
Write(p) ==
    /\ app[p] = "primary" /\ committed < MaxSeq
    /\ committed' = committed + 1
    /\ \E S \in SUBSET {q \in Pods : app[q] = "secondary"} :
          data' = [q \in Pods |->
                     IF q \in S \/ (app[q] = "primary" /\ lineage[q] = lineage[p])
                     THEN committed + 1 ELSE data[q]]
    /\ UNCHANGED <<pod, app, lineage, label, faults>>

KubernetesStep ==
    \E p \in Pods : PodGone(p) \/ PodCreated(p) \/ PodRuns(p) \/ StartFinishes(p)

FaultStep ==
    \E p \in Pods : AppStops(p) \/ AppBreaks(p) \/ AppDemoted(p) \/ PodDies(p)

EnvStep == KubernetesStep \/ FaultStep \/ \E p \in Pods : Write(p)
============================================================================
