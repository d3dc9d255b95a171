------------------------------ MODULE Template ------------------------------
(***************************************************************************)
(* What the operator makes of a custom resource (CR): whether it accepts   *)
(* it (pkg/apis/clusterlabs/v1alpha1/cluster.go, cluster_tls.go) and the   *)
(* Service, Secret and StatefulSet it creates for it                       *)
(* (pkg/cluster/statefulset.go, pkg/util/k8sutil/k8sutil.go).              *)
(*                                                                         *)
(* A label set, like a selector, is a function from keys to values.  A     *)
(* name the code builds by adding a fixed text is a pair.  Fields that are *)
(* copied from the CR as they are, such as tolerations, are left out.      *)
(***************************************************************************)
EXTENDS ClusterSpec, FiniteSets

\* A CR: [name, uid, labels, spec].  Its spec: [replicas, paused, tls, commands,
\* containers, volumes, secrets, servicePorts, antiAffinity, chaosLevel].  Its
\* tls is <<>> (nil) or <<[operator, server, peer]>>, in which a secret that is
\* not named is "".

AsOwner(cr) == cr.uid
ServiceName(name) == <<name, "svc">>
prefixedName(name) == <<"rss", name>>

LabelsForCluster(name) ==
    [k \in {"app", "rss-operator-managed"} |-> IF k = "app" THEN name ELSE "true"]

Selects(selector, labels) ==
    \A k \in DOMAIN selector : k \in DOMAIN labels /\ labels[k] = selector[k]

\* The first argument wins.
mergeLabels(labels, otherLabels) ==
    [k \in DOMAIN labels \union DOMAIN otherLabels |->
        IF k \in DOMAIN labels THEN labels[k] ELSE otherLabels[k]]

----------------------------------------------------------------------------
\* A static policy names a secret for the operator if and only if it names one for
\* the members.
ValidateTLS(tls) == tls = <<>> \/ (tls[1].operator = "") = (tls[1].server = "")
IsSecureClient(tls) == tls # <<>> /\ tls[1].operator # ""

RequiredCommands == {"sequence", "status", "stop", "primary"}
ReservedLabels == {"app", "rss-operator-managed", "rss-cluster"}

\* Mutant: reserved labels are accepted.
ValidateNoLabels(cr) ==
    /\ ValidateTLS(cr.spec.tls) /\ RequiredCommands \subseteq cr.spec.commands
    /\ cr.spec.containers # <<>>
    /\ \A i \in DOMAIN cr.spec.containers : cr.spec.containers[i].image # ""

\* Of the labels in use here the reserved ones are "app" and those that begin with
\* "rss".
Validate(cr) ==
    /\ ValidateTLS(cr.spec.tls) /\ RequiredCommands \subseteq cr.spec.commands
    /\ DOMAIN cr.labels \intersect ReservedLabels = {}
    /\ cr.spec.containers # <<>>
    /\ \A i \in DOMAIN cr.spec.containers : cr.spec.containers[i].image # ""

----------------------------------------------------------------------------
GetServicePorts(spec) == IF spec.servicePorts # <<>> THEN spec.servicePorts ELSE <<"dummy">>

makeStatefulSetService(cr) ==
    [name     |-> ServiceName(cr.name),
     labels   |-> mergeLabels(cr.labels, LabelsForCluster(cr.name)),
     selector |-> LabelsForCluster(cr.name),
     ports    |-> GetServicePorts(cr.spec)]

\* The references to the rule files, sorted by key; a key is a number here.
makeRuleConfigMapListFile(configMaps) ==
    CHOOSE s \in [1..Cardinality(configMaps) -> configMaps] :
        \A i, j \in DOMAIN s : i < j => s[i].key < s[j].key

makeEmptyConfig(cr, configMaps) ==
    [name   |-> prefixedName(cr.name),
     labels |-> mergeLabels(LabelsForCluster(cr.name), cr.labels),
     owner  |-> AsOwner(cr),
     data   |-> makeRuleConfigMapListFile(configMaps)]

Secrets(cr) == [i \in DOMAIN cr.spec.secrets |-> <<"secret", cr.spec.secrets[i]>>]

\* One container of the Pod, with what the operator adds to it.
makeContainer(cr, c) ==
    LET chaos == cr.spec.chaosLevel IN
    [image  |-> c.image,
     env    |-> c.env \o <<"SERVICE_NAME", "POD_NAME", "POD_NAMESPACE">>
                  \o IF chaos # <<>> /\ chaos[1] > 0 THEN <<"CHAOS_LEVEL", "CHAOS_MODULO">>
                     ELSE <<>>,
     mounts |-> c.mounts \o <<"podinfo">> \o Secrets(cr)]

\* Every container adds the volumes it mounts, also if another one did so before.
makeVolumes(cr) ==
    LET own == <<"podinfo">> \o Secrets(cr)
    IN  cr.spec.volumes \o [i \in 1..Len(cr.spec.containers) * Len(own)
                              |-> own[((i - 1) % Len(own)) + 1]]

applyPodSpecPolicy(cr, affinity) ==
    IF cr.spec.antiAffinity THEN <<[k \in {"rss-cluster"} |-> cr.name]>> ELSE affinity

makeStatefulSetSpec(cr) ==
    [serviceName |-> ServiceName(cr.name),
     replicas    |-> GetNumReplicas(cr.spec.replicas),
     labels      |-> mergeLabels(LabelsForCluster(cr.name), cr.labels),
     containers  |-> [i \in DOMAIN cr.spec.containers |-> makeContainer(cr, cr.spec.containers[i])],
     volumes     |-> makeVolumes(cr),
     affinity    |-> applyPodSpecPolicy(cr, <<>>)]

makeStatefulSet(cr) ==
    [name   |-> prefixedName(cr.name),
     labels |-> mergeLabels(LabelsForCluster(cr.name), cr.labels),
     owner  |-> AsOwner(cr),
     spec   |-> makeStatefulSetSpec(cr)]
=============================================================================
