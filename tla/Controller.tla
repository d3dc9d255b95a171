----------------------------- MODULE Controller -----------------------------
(***************************************************************************)
(* The controller and all its clusters: users create, edit, delete and     *)
(* re-create custom resources (CRs); the informer tells the controller,    *)
(* late and sometimes only in summary (pkg/controller/informer.go); the    *)
(* controller keeps a map from names to clusters                           *)
(* (handleClusterEvent in pkg/controller/controller.go); each cluster has a *)
(* goroutine of its own (pkg/cluster/cluster.go), which creates objects     *)
(* that Kubernetes collects once their owner is gone.                       *)
(*                                                                         *)
(* Lifecycle looks closely at one CR that stays; here CRs come and go, and  *)
(* of a status only the phase is kept.  Every CR gets a new uid.  A         *)
(* goroutine is known by the uid of the CR it was started for; it creates   *)
(* at most one StatefulSet, so that uid stands for the StatefulSet's too.   *)
(***************************************************************************)
EXTENDS Template

CONSTANTS
    Names,      \* names of CRs
    Forms,      \* what users write: [labels, spec]
    NewForms,   \* what they write first
    MaxUid,     \* bound: how many CRs are ever created
    EventCap,   \* capacity of eventCh (100 in the code)
    Cases       \* bound: the sets of troubles that may come together

Uids == 1..MaxUid

ASSUME ControllerAssumption ==
    MaxUid \in Nat /\ EventCap \in Nat \ {0} /\ NewForms \subseteq Forms

VARIABLES
    crs,      \* crs[n]: the CR on the API server, or <<>>
    services, secrets, sts, \* what exists there for the CR called n, or <<>>
    watch,    \* watch[n]: what the informer has still to deliver, oldest first
    store,    \* store[n]: the informer's copy, or <<>>
    sending,  \* the event that waits for room in eventCh, or <<>>
    clusters, \* clusters[n]: the controller's map; 0 where it has no entry
    gor,      \* gor[u]: the goroutine started for u
    uid,      \* how many CRs were created
    troubles  \* history: what has happened out of the ordinary, each at most once

objects == <<services, secrets, sts>>
informer == <<watch, store, sending>>
vars == <<crs, objects, uid, informer, clusters, gor, troubles>>

\* A user edits a CR; a user re-uses a name before all traces of it are gone; the
\* informer loses its connection; an API call fails; the operator dies.
Troubles == {"edit", "haste", "list", "fault", "crash"}

Phases == {"None", "Creating", "Running", "Failed"}
Labels == {f.labels : f \in Forms}
Specs == {f.spec : f \in Forms}
CRs == [name : Names, labels : Labels, spec : Specs, uid : Uids, version : Nat, phase : Phases]

PCs == {"none", "setup", "service", "secret", "sts", "start", "run", "drain", "round",
        "patch", "setupFailed", "failing", "exited"}

NoGoroutine == [pc |-> "none", stop |-> FALSE, eventCh |-> <<>>, rss |-> <<>>, phase |-> "None"]

Init ==
    /\ crs = [n \in Names |-> <<>>] /\ services = crs /\ secrets = crs /\ sts = crs
    /\ uid = 0 /\ troubles = {}
    /\ watch = crs /\ store = crs /\ sending = <<>>
    /\ clusters = [n \in Names |-> 0] /\ gor = [u \in Uids |-> NoGoroutine]

Trouble(t) ==
    /\ t \notin troubles /\ troubles' = troubles \union {t}
    /\ \E c \in Cases : troubles' \subseteq c

Fault == Trouble("fault")

Live(u) == gor[u].pc \notin {"none", "exited"}
NameOf(u) == gor[u].rss.name

\* Whose object this is, 0 if there is none.
Owner(o) == IF o = <<>> THEN 0 ELSE o[1].owner

----------------------------------------------------------------------------
\* The API server stores o; the informer will hear of it.
Put(o) ==
    /\ crs' = [crs EXCEPT ![o.name] = <<o>>]
    /\ watch' = [watch EXCEPT ![o.name] = Append(@, [type |-> "put", obj |-> o])]

\* Of earlier CRs of this name nothing is left that users can see, and the informer
\* has told the controller; a goroutine may still be busy.
Gone(n) == secrets[n] = <<>> /\ sts[n] = <<>> /\ watch[n] = <<>>

UserCreates(n) ==
    /\ crs[n] = <<>> /\ uid < MaxUid /\ uid' = uid + 1
    /\ IF Gone(n) THEN UNCHANGED troubles ELSE Trouble("haste")
    /\ \E f \in NewForms : Put([name |-> n, labels |-> f.labels, spec |-> f.spec, uid |-> uid',
                             version |-> 1, phase |-> "None"])
    /\ UNCHANGED <<objects, store, sending, clusters, gor>>

UserEdits(n) ==
    /\ crs[n] # <<>> /\ Trouble("edit")
    /\ LET o == crs[n][1] IN
       \E f \in Forms :
          /\ <<f.labels, f.spec>> # <<o.labels, o.spec>>
          /\ Put([o EXCEPT !.labels = f.labels, !.spec = f.spec, !.version = @ + 1])
    /\ UNCHANGED <<objects, uid, store, sending, clusters, gor>>

UserDeletes(n) ==
    /\ crs[n] # <<>> /\ crs' = [crs EXCEPT ![n] = <<>>]
    /\ watch' = [watch EXCEPT ![n] = Append(@, [type |-> "delete", obj |-> crs[n][1]])]
    /\ UNCHANGED <<objects, uid, store, sending, clusters, gor, troubles>>

\* Kubernetes collects what has an owner that is gone.
Dead(owner) == ~\E n \in Names : crs[n] # <<>> /\ crs[n][1].uid = owner

Collect(n) ==
    /\ \E o \in {sts[n], secrets[n]} : o # <<>> /\ Dead(Owner(o))
    /\ LET kept(o) == IF o # <<>> /\ Dead(Owner(o)) THEN <<>> ELSE o IN
       sts' = [sts EXCEPT ![n] = kept(@)] /\ secrets' = [secrets EXCEPT ![n] = kept(@)]
    /\ UNCHANGED <<crs, services, uid, informer, clusters, gor, troubles>>

----------------------------------------------------------------------------
\* The informer lost its connection and lists all CRs.  What happened in between
\* it never learns: a CR that was deleted and created again looks edited.
Relist ==
    /\ sending = <<>> /\ Trouble("list")
    /\ watch' = [n \in Names |->
                   IF crs[n] # <<>> THEN <<[type |-> "put", obj |-> crs[n][1]]>>
                   ELSE IF store[n] # <<>> THEN <<[type |-> "delete", obj |-> store[n][1]]>>
                   ELSE <<>>]
    /\ UNCHANGED <<crs, objects, uid, store, sending, clusters, gor>>

\* New: the goroutine starts with setup().
New(o) == [NoGoroutine EXCEPT !.pc = "setup", !.rss = o, !.phase = o.phase]

\* send, when there is room.
Send(u, o) == gor' = [gor EXCEPT ![u].eventCh = Append(@, o)]

\* Mutant: an event is sent whether or not there is room.
syncEtcdClusUnbounded(n, o) ==
    /\ UNCHANGED sending
    /\ IF o.phase = "Failed" \/ ~Validate(o) THEN UNCHANGED <<clusters, gor>>
       ELSE IF clusters[n] # 0 THEN Send(clusters[n], o) /\ UNCHANGED clusters
       ELSE /\ clusters' = [clusters EXCEPT ![n] = o.uid]
            /\ gor' = [gor EXCEPT ![o.uid] = New(o)]

\* handleClusterEvent for a CR that exists: a new one gets a goroutine, a known one
\* the event.  A failed or invalid one is ignored.
syncEtcdClus(n, o) ==
    IF o.phase = "Failed" \/ ~Validate(o) THEN UNCHANGED <<sending, clusters, gor>>
    ELSE IF clusters[n] = 0 THEN
        /\ clusters' = [clusters EXCEPT ![n] = o.uid]
        /\ gor' = [gor EXCEPT ![o.uid] = New(o)] /\ UNCHANGED sending
    ELSE IF Len(gor[clusters[n]].eventCh) < EventCap THEN
        Send(clusters[n], o) /\ UNCHANGED <<sending, clusters>>
    ELSE sending' = <<o>> /\ UNCHANGED <<clusters, gor>>

\* Mutant: the goroutine is forgotten, not stopped.
onDeleteForgets(n, o) ==
    /\ clusters' = [clusters EXCEPT ![n] = 0] /\ UNCHANGED <<sending, gor>>

\* Mutant: the goroutine is stopped but stays in the map.
onDeleteKeeps(n, o) ==
    /\ UNCHANGED <<sending, clusters>>
    /\ IF clusters[n] = 0 THEN UNCHANGED gor
       ELSE gor' = [gor EXCEPT ![clusters[n]].stop = TRUE]

\* handleClusterEvent for one that was deleted.  The goroutine is stopped, unless
\* the CR failed; nothing happens if the CR has become invalid.
onDeleteEtcdClus(n, o) ==
    /\ UNCHANGED sending
    /\ IF o.phase = "Failed" THEN clusters' = [clusters EXCEPT ![n] = 0] /\ UNCHANGED gor
       ELSE IF ~Validate(o) \/ clusters[n] = 0 THEN UNCHANGED <<clusters, gor>>
       ELSE /\ gor' = [gor EXCEPT ![clusters[n]].stop = TRUE]
            /\ clusters' = [clusters EXCEPT ![n] = 0]

\* The informer delivers to the handlers, one event at a time.
Deliver(n) ==
    /\ sending = <<>> /\ watch[n] # <<>> /\ watch' = [watch EXCEPT ![n] = Tail(@)]
    /\ LET d == Head(watch[n]) IN
       IF d.type = "put"
       THEN store' = [store EXCEPT ![n] = <<d.obj>>] /\ syncEtcdClus(n, d.obj)
       ELSE store' = [store EXCEPT ![n] = <<>>] /\ onDeleteEtcdClus(n, d.obj)
    /\ UNCHANGED <<crs, objects, uid, troubles>>

\* A send that waited finds room.
Sent ==
    /\ sending # <<>> /\ sending' = <<>>
    /\ LET o == sending[1] IN
       Len(gor[clusters[o.name]].eventCh) < EventCap /\ Send(clusters[o.name], o)
    /\ UNCHANGED <<crs, objects, uid, watch, store, clusters, troubles>>

\* The operator ends; the next one lists all CRs.
Restarted ==
    /\ watch' = [n \in Names |-> IF crs[n] = <<>> THEN <<>>
                                  ELSE <<[type |-> "put", obj |-> crs[n][1]]>>]
    /\ store' = [n \in Names |-> <<>>] /\ sending' = <<>>
    /\ clusters' = [n \in Names |-> 0] /\ gor' = [u \in Uids |-> NoGoroutine]
    /\ UNCHANGED <<crs, objects, uid>>

Crash == Trouble("crash") /\ Restarted

\* A send that waits for a minute ends the operator (pkg/controller/util.go).
PanicTimer == sending # <<>> /\ Restarted /\ UNCHANGED troubles

----------------------------------------------------------------------------
\* Goroutine u becomes g.  Once it returns, what it held is gone, but events may
\* still be sent to it.
Becomes(u, g) ==
    gor' = [gor EXCEPT ![u] =
              IF g.pc # "exited" THEN g
              ELSE [NoGoroutine EXCEPT !.pc = "exited", !.stop = g.stop, !.eventCh = g.eventCh]]

GoTo(u, pc) == Becomes(u, [gor[u] EXCEPT !.pc = pc])

\* An update of o would succeed.
Current(o) ==
    crs[o.name] # <<>> /\ crs[o.name][1].uid = o.uid /\ crs[o.name][1].version = o.version

\* updateCRStatus of goroutine u, which then goes on at pc.  c.rss takes the phase
\* before the call and keeps it if the call fails, which it does if the CR is not
\* the one, or not the version, the goroutine knows.
updateCRStatus(u, phase, ok, pc) ==
    LET o == gor[u].rss
        new == [o EXCEPT !.phase = phase, !.version = @ + 1]
    IN
    \/ /\ ok /\ o.phase = phase
       /\ Becomes(u, [gor[u] EXCEPT !.pc = pc, !.phase = phase])
       /\ UNCHANGED <<crs, watch, troubles>>
    \/ /\ ok /\ o.phase # phase /\ Current(o) /\ Put(new)
       /\ Becomes(u, [gor[u] EXCEPT !.pc = pc, !.phase = phase, !.rss = new])
       /\ UNCHANGED troubles
    \/ /\ ~ok /\ o.phase # phase
       /\ Fault \/ (~Current(o) /\ UNCHANGED troubles)
       /\ Becomes(u, [gor[u] EXCEPT !.pc = pc, !.phase = phase, !.rss.phase = phase])
       /\ UNCHANGED <<crs, watch>>

\* setup() and the beginning of create(); loading the TLS data may fail.
Setup(u) ==
    /\ gor[u].pc = "setup"
    /\ \/ /\ gor[u].phase = "None"
          /\ \E ok \in BOOLEAN :
                updateCRStatus(u, "Creating", ok, IF ok THEN "service" ELSE "setupFailed")
       \/ /\ gor[u].phase = "Running" /\ GoTo(u, "start") /\ UNCHANGED <<crs, watch, troubles>>
       \/ /\ gor[u].phase \notin {"None", "Running"}
          /\ GoTo(u, "setupFailed") /\ UNCHANGED <<crs, watch, troubles>>
       \/ /\ gor[u].phase \in {"None", "Running"} /\ IsSecureClient(gor[u].rss.spec.tls) /\ Fault
          /\ GoTo(u, "setupFailed") /\ UNCHANGED <<crs, watch>>
    /\ UNCHANGED <<objects, uid, store, sending, clusters>>

CreateFails(u) ==
    /\ gor[u].pc \in {"service", "secret", "sts"} /\ GoTo(u, "setupFailed")
    /\ Fault \/ (gor[u].pc = "sts" /\ sts[NameOf(u)] # <<>> /\ UNCHANGED troubles)
    /\ UNCHANGED <<crs, objects, uid, informer, clusters>>

\* The Service is written anew.
CreateService(u) ==
    /\ gor[u].pc = "service" /\ GoTo(u, "secret")
    /\ services' = [services EXCEPT ![NameOf(u)] = <<makeStatefulSetService(gor[u].rss)>>]
    /\ UNCHANGED <<crs, secrets, sts, uid, informer, clusters, troubles>>

\* An old Secret is kept.  The watch for config maps starts only in run(), so no
\* rule files are known yet.
CreateSecret(u) ==
    /\ gor[u].pc = "secret" /\ GoTo(u, "sts")
    /\ secrets' = [secrets EXCEPT ![NameOf(u)] = IF @ # <<>> THEN @
                                                  ELSE <<makeEmptyConfig(gor[u].rss, {})>>]
    /\ UNCHANGED <<crs, services, sts, uid, informer, clusters, troubles>>

CreateSts(u) ==
    /\ gor[u].pc = "sts" /\ sts[NameOf(u)] = <<>> /\ GoTo(u, "start")
    /\ sts' = [sts EXCEPT ![NameOf(u)] = <<makeStatefulSet(gor[u].rss)>>]
    /\ UNCHANGED <<crs, services, secrets, uid, informer, clusters, troubles>>

\* New reports a failed setup once and ends the goroutine.
SetupFailed(u) ==
    /\ gor[u].pc = "setupFailed"
    /\ \E ok \in BOOLEAN : updateCRStatus(u, "Failed", ok, "exited")
    /\ UNCHANGED <<objects, uid, store, sending, clusters>>

\* run() up to its loop.
Start(u) ==
    /\ gor[u].pc = "start"
    /\ \E ok \in BOOLEAN : updateCRStatus(u, "Running", ok, "run")
    /\ UNCHANGED <<objects, uid, store, sending, clusters>>

\* Mutant: stopCh is not among the cases of the select.
BackRuns(u) == "run"

\* Back at the top of the loop.  Once stopCh is closed the select does not wait
\* for the timer any more.
Back(u) == IF gor[u].stop THEN "drain" ELSE "run"

Stop(u) ==
    /\ gor[u].pc \in {"run", "drain"} /\ gor[u].stop /\ GoTo(u, "exited")
    /\ UNCHANGED <<crs, objects, uid, informer, clusters, troubles>>

\* The timer branch: podOwner accepts the Pods of the StatefulSet that has the
\* right name at this moment.  stopCh may be closed just as the timer fires.
pollPods(u) ==
    /\ gor[u].pc = "run" /\ gor[u].eventCh = <<>>
    /\ \/ Fault /\ GoTo(u, Back(u))
       \/ GoTo(u, "round") /\ UNCHANGED troubles
    /\ UNCHANGED <<crs, objects, uid, informer, clusters>>

\* The rest of the round works on those Pods by name, and reports the status.
RoundEnds(u) ==
    /\ gor[u].pc = "round"
    /\ \E ok \in BOOLEAN : updateCRStatus(u, gor[u].phase, ok, Back(u))
    /\ UNCHANGED <<objects, uid, store, sending, clusters>>

\* handleUpdateEvent up to the patch.  Sizes are positive here: Lifecycle has the
\* guard against coming back from zero.
HandleUpdateEvent(u) ==
    LET ev == Head(gor[u].eventCh)
        take(pc) == Becomes(u, [gor[u] EXCEPT !.pc = pc, !.rss = ev, !.eventCh = Tail(@)])
    IN
    /\ gor[u].pc \in {"run", "drain"} /\ gor[u].eventCh # <<>>
    /\ \/ /\ isSpecEqual(ev.spec, gor[u].rss.spec)
          /\ take(Back(u)) /\ UNCHANGED troubles
       \/ /\ ~isSpecEqual(ev.spec, gor[u].rss.spec)
          /\ \/ sts[ev.name] # <<>> /\ take("patch") /\ UNCHANGED troubles
             \/ sts[ev.name] = <<>> /\ take("failing") /\ UNCHANGED troubles
             \/ Fault /\ take("failing")
    /\ UNCHANGED <<crs, objects, uid, informer, clusters>>

\* The patch goes to the StatefulSet that has the right name at this moment.
PatchSts(u) ==
    LET n == NameOf(u) IN
    /\ gor[u].pc = "patch"
    /\ \/ /\ sts[n] # <<>> /\ GoTo(u, Back(u)) /\ UNCHANGED troubles
          /\ sts' = [sts EXCEPT ![n][1].spec.replicas = GetNumReplicas(gor[u].rss.spec.replicas)]
       \/ sts[n] = <<>> /\ GoTo(u, "failing") /\ UNCHANGED <<sts, troubles>>
       \/ Fault /\ GoTo(u, "failing") /\ UNCHANGED sts
    /\ UNCHANGED <<crs, services, secrets, uid, informer, clusters>>

\* reportFailedStatus retries until updateCRStatus returns no error, which it does
\* not the second time, since there is nothing new to write.
ReportFailedStatus(u) ==
    /\ gor[u].pc = "failing"
    /\ \E ok \in BOOLEAN : updateCRStatus(u, "Failed", ok, IF ok THEN "exited" ELSE "failing")
    /\ UNCHANGED <<objects, uid, store, sending, clusters>>

Goroutine(u) ==
    \/ Setup(u) \/ CreateFails(u) \/ CreateService(u) \/ CreateSecret(u) \/ CreateSts(u)
    \/ SetupFailed(u) \/ Start(u) \/ Stop(u) \/ pollPods(u) \/ RoundEnds(u)
    \/ HandleUpdateEvent(u) \/ PatchSts(u) \/ ReportFailedStatus(u)

Next ==
    \/ \E n \in Names : \/ UserCreates(n) \/ UserEdits(n) \/ UserDeletes(n)
                        \/ Collect(n) \/ Deliver(n)
    \/ \E u \in Uids : Goroutine(u)
    \/ Relist \/ Sent \/ Crash \/ PanicTimer

\* Goroutines, the informer and Kubernetes keep running.  A send that stays
\* blocked ends the operator.
Fairness ==
    /\ \A n \in Names : WF_vars(Collect(n)) /\ WF_vars(Deliver(n))
    /\ \A u \in Uids : WF_vars(Goroutine(u))
    /\ WF_vars(Sent) /\ WF_vars(PanicTimer)

Spec == Init /\ [][Next]_vars
FairSpec == Spec /\ Fairness

----------------------------------------------------------------------------
Events == [type : {"put", "delete"}, obj : CRs]
Goroutines == [pc : PCs, stop : BOOLEAN, eventCh : Seq(CRs), rss : {<<>>} \union CRs,
               phase : Phases]

TypeOK ==
    /\ crs \in [Names -> Seq(CRs)] /\ store \in [Names -> Seq(CRs)] /\ sending \in Seq(CRs)
    /\ \A n \in Names : Len(crs[n]) <= 1 /\ Len(store[n]) <= 1
    /\ Len(sending) <= 1
    /\ watch \in [Names -> Seq(Events)]
    /\ clusters \in [Names -> 0..MaxUid] /\ gor \in [Uids -> Goroutines]
    /\ \A u \in Uids : /\ Live(u) => gor[u].rss \in CRs
                       /\ Len(gor[u].eventCh) <= EventCap
    /\ uid \in 0..MaxUid /\ troubles \subseteq Troubles

\* Every goroutine can still be stopped: it was told to stop, or the controller's
\* map has it under its name.  So no cluster has two goroutines that go on, also
\* if CRs fail, become invalid, or are deleted and created again unnoticed.
Reachable ==
    \A u \in Uids : Live(u) => gor[u].stop \/ clusters[NameOf(u)] = u

\* A round works on Pods by name, those of the StatefulSet that has the right name.
\* From its beginning to its end that StatefulSet is the cluster's own.
ManagesOwn ==
    \A u \in Uids : gor[u].pc = "round" => Owner(sts[NameOf(u)]) \in {0, gor[u].rss.uid}

\* Whatever exists for a cluster carries its labels, so it is found under them;
\* the Service and pollPods select the cluster's Pods and no other's.
Labelled ==
    \A n \in Names :
        LET L == LabelsForCluster(n) IN
        /\ services[n] # <<>> => Selects(L, services[n][1].labels)
        /\ secrets[n] # <<>> => Selects(L, secrets[n][1].labels)
        /\ sts[n] # <<>> => Selects(L, sts[n][1].labels)
        /\ \A m \in Names : sts[m] # <<>> =>
              /\ Selects(L, sts[m][1].spec.labels) = (m = n)
              /\ services[n] # <<>> =>
                    Selects(services[n][1].selector, sts[m][1].spec.labels) = (m = n)

----------------------------------------------------------------------------
(***************************************************************************)
(* The inductive invariant behind Reachable and Labelled.                  *)
(***************************************************************************)

\* The CRs called n that exist or that the informer has yet to speak of, and the
\* uids that goroutine u works for or will be told of.
Seen(n) ==
    {crs[n][i] : i \in DOMAIN crs[n]} \union {store[n][i] : i \in DOMAIN store[n]}
      \union {watch[n][i].obj : i \in DOMAIN watch[n]}
Known(u) == {u, gor[u].rss.uid} \union {gor[u].eventCh[i].uid : i \in DOMAIN gor[u].eventCh}

\* With all events delivered the informer's copy is what the API server has, and
\* the last event leads there.
Informed(n) ==
    IF watch[n] = <<>> THEN store[n] = crs[n]
    ELSE LET d == watch[n][Len(watch[n])] IN
         crs[n] = IF d.type = "put" THEN <<d.obj>> ELSE <<>>

\* Events come in the order of uids, and none for a CR after the one that deletes it.
InOrder(w) ==
    \A i, j \in DOMAIN w : i < j =>
        /\ w[i].obj.uid <= w[j].obj.uid
        /\ w[i].type = "delete" => w[i].obj.uid < w[j].obj.uid

\* Before the news that a CR failed there is no other that could start a goroutine.
FailedLast(n) ==
    \A i, j \in DOMAIN watch[n] : (i < j /\ watch[n][j].obj.phase = "Failed") =>
        watch[n][i].type = "put" /\ (watch[n][i].obj.phase = "Failed" \/ clusters[n] # 0)

InformerInv == \A n \in Names : Informed(n) /\ InOrder(watch[n]) /\ FailedLast(n)

\* Every uid belongs to one name, owner[u]; whatever is known under a name is its own.
Named(owner) ==
    /\ \A n \in Names :
          /\ \A o \in Seen(n) : o.name = n /\ o.uid <= uid /\ owner[o.uid] = n
          /\ clusters[n] # 0 => clusters[n] <= uid /\ owner[clusters[n]] = n
    /\ \A u \in Uids : Live(u) =>
          /\ \A k \in Known(u) : k <= uid /\ owner[k] = NameOf(u)
          /\ \A i \in DOMAIN gor[u].eventCh : gor[u].eventCh[i].name = NameOf(u)
    /\ sending # <<>> => sending[1].uid <= uid /\ owner[sending[1].uid] = sending[1].name

NamesInv == \E owner \in [1..uid -> Names] : Named(owner)

\* The map holds no goroutine that was told to stop; a send waits for one in the map.
MapInv ==
    /\ \A n \in Names : clusters[n] # 0 => ~gor[clusters[n]].stop
    /\ sending # <<>> => clusters[sending[1].name] # 0

\* No goroutine is ahead of the informer, and one that was told to stop can not
\* meet the CRs it knows again.
KnownInv ==
    /\ \A u \in Uids : Live(u) => \A o \in Seen(NameOf(u)), k \in Known(u) :
          k <= o.uid /\ (gor[u].stop => k < o.uid)
    /\ sending # <<>> => \A o \in Seen(sending[1].name) : sending[1].uid <= o.uid

\* A goroutine that reports a failure ends, so nobody works for a CR that failed.
FailedInv ==
    /\ \A u \in Uids : Live(u) /\ gor[u].phase = "Failed" => gor[u].pc = "failing"
    /\ \A n \in Names : \A o \in Seen(n) : o.phase = "Failed" =>
          \A u \in Uids : Live(u) /\ NameOf(u) = n => gor[u].stop

\* Goroutines only get to know CRs that were accepted.
Unreserved(o) == DOMAIN o.labels \intersect ReservedLabels = {}
AcceptedInv ==
    /\ \A u \in Uids : Live(u) =>
          Unreserved(gor[u].rss) /\ \A i \in DOMAIN gor[u].eventCh : Unreserved(gor[u].eventCh[i])
    /\ sending # <<>> => Unreserved(sending[1])

\* The objects of a cluster are labelled, and select, by its name.
ObjectsInv ==
    /\ DOMAIN services = Names /\ DOMAIN secrets = Names /\ DOMAIN sts = Names
    /\ \A n \in Names :
          LET L == LabelsForCluster(n) IN
          /\ services[n] # <<>> =>
                services[n][1].selector = L /\ Selects(L, services[n][1].labels)
          /\ secrets[n] # <<>> => Selects(L, secrets[n][1].labels)
          /\ sts[n] # <<>> =>
                LET s == sts[n][1] IN
                /\ sts[n] = <<s>> /\ {"labels", "owner", "spec"} \subseteq DOMAIN s
                /\ "labels" \in DOMAIN s.spec
                /\ Selects(L, s.labels) /\ Selects(L, s.spec.labels)

ControllerInv ==
    /\ TypeOK /\ InformerInv /\ NamesInv /\ MapInv /\ KnownInv /\ FailedInv
    /\ Reachable /\ AcceptedInv /\ ObjectsInv

----------------------------------------------------------------------------
\* A goroutine that is told to stop does, wherever it is and whatever is queued.
Stops == \A u \in Uids : gor[u].stop ~> ~Live(u)

\* A CR that users do not edit gets a StatefulSet of its own or is reported as
\* failed, if no call fails and no name was re-used in haste.
Served ==
    \A u \in Uids : \A n \in Names :
        (crs[n] # <<>> /\ crs[n][1].uid = u)
          ~> \/ troubles \intersect {"edit", "haste", "fault"} # {}
             \/ crs[n] = <<>> \/ crs[n][1].uid # u
             \/ crs[n][1].phase = "Failed" \/ ~Validate(crs[n][1])
             \/ Owner(sts[n]) = u
=============================================================================
