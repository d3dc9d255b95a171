----------------------------- MODULE Lifecycle -----------------------------
(***************************************************************************)
(* The life of one cluster, from its custom resource (CR) to the size of   *)
(* its StatefulSet: the goroutine that New starts (pkg/cluster/cluster.go: *)
(* setup, create, run, handleUpdateEvent, updateCRStatus,                  *)
(* reportFailedStatus), the controller that feeds it                       *)
(* (pkg/controller/informer.go, controller.go), the API server that keeps  *)
(* the CR, and users who edit the spec at any time.                        *)
(*                                                                         *)
(* The API server compares resource versions for equality only, so a copy  *)
(* of the CR carries whether it is still the current version.  What a      *)
(* reconciliation round reports about members and conditions is one        *)
(* abstract value, the view.  The CR is never deleted here.                *)
(***************************************************************************)
EXTENDS ClusterSpec, Naturals

CONSTANTS
    Specs,       \* specs a user may write: [replicas, paused]
    Views,       \* what a round may report
    Established, \* does the operator already run the cluster at the start?
    EventCap,    \* capacity of eventCh (100 in the code)
    WatchCap,    \* bound: how far the informer is behind before it re-lists
    MaxChanges,  \* bound: how often users edit the spec
    MaxCrashes,  \* bound: how often the operator dies
    Faults,      \* kinds of API failure that may happen
    MaxFaults    \* bound: how many API failures a behaviour may have

LifecycleFaults == {"update", "setup", "create", "sts", "list", "podDies"}

ASSUME LifecycleAssumption ==
    /\ Specs \subseteq [replicas : Seq(Int), paused : BOOLEAN]
    /\ \A s \in Specs : Len(s.replicas) <= 1
    /\ Established \in BOOLEAN
    /\ EventCap \in Nat \ {0} /\ WatchCap \in Nat \ {0}
    /\ MaxChanges \in Nat /\ MaxCrashes \in Nat /\ MaxFaults \in Nat
    /\ Faults \subseteq LifecycleFaults /\ Views # {}

VARIABLES
    cr,      \* the CR on the API server: [spec, status]
    pods,    \* how many Pods of the StatefulSet run
    sts,     \* replicas of the StatefulSet: <<>> (there is none) or <<n>>
    watch,   \* CR versions the informer has still to deliver, oldest first
    known,   \* is the cluster in the controller's map?
    eventCh, \* events sent to the goroutine
    pc,      \* where the goroutine is
    rss,     \* c.rss
    status,  \* c.status
    wanted,  \* history: the last spec a user wrote
    changes, crashes, faults

server == <<cr, pods, sts, wanted, changes>>
goroutine == <<pc, rss, status>>
budget == <<crashes, faults>>
vars == <<server, watch, known, eventCh, goroutine, budget>>

ClusterPhases == {"None", "Creating", "Running", "Paused", "Failed"}

\* The fields of a ClusterStatus that decisions depend on; members, conditions and
\* the reason of the phase are in the view.
ClusterStatus == [phase : ClusterPhases, restore : Nat, view : Views, controlPaused : BOOLEAN]

\* A copy of the CR.
Copy == [spec : Specs, status : ClusterStatus, current : BOOLEAN]

NewStatus == [phase |-> "None", restore |-> 0, view |-> CHOOSE v \in Views : TRUE,
              controlPaused |-> FALSE]

PCs == {"none", "setup", "create", "setupFailed", "start", "run", "record",
        "reconcile", "again", "patch", "failing", "exited"}

TypeOK ==
    /\ cr \in [spec : Specs, status : ClusterStatus]
    /\ sts \in Seq(NumReplicas) /\ Len(sts) <= 1
    /\ pods \in Nat
    /\ watch \in Seq(Copy) /\ Len(watch) <= WatchCap
    /\ eventCh \in Seq(Copy) /\ Len(eventCh) <= EventCap
    /\ known \in BOOLEAN /\ pc \in PCs /\ (pc = "none") = ~known
    /\ rss \in Copy /\ status \in ClusterStatus
    /\ wanted \in Specs /\ changes \in 0..MaxChanges
    /\ crashes \in 0..MaxCrashes /\ faults \in 0..MaxFaults

Current(spec, st) == [spec |-> spec, status |-> st, current |-> TRUE]
Outdated(o) == [o EXCEPT !.current = FALSE]
AllOutdated(q) == [i \in DOMAIN q |-> Outdated(q[i])]

Init ==
    \E s \in Specs :
        /\ cr = [spec |-> s,
                 status |-> IF Established THEN [NewStatus EXCEPT !.phase = "Running"]
                            ELSE NewStatus]
        /\ sts = IF Established THEN <<GetNumReplicas(s.replicas)>> ELSE <<>>
        /\ pods = IF Established THEN sts[1] ELSE 0
        /\ watch = IF Established THEN <<>> ELSE <<Current(s, cr.status)>>
        /\ known = Established /\ eventCh = <<>>
        /\ pc = IF Established THEN "run" ELSE "none"
        /\ rss = Current(s, cr.status) /\ status = cr.status
        /\ wanted = s /\ changes = 0 /\ crashes = 0 /\ faults = 0

Fault(kind) == kind \in Faults /\ faults < MaxFaults /\ faults' = faults + 1

----------------------------------------------------------------------------
\* The API server stores o; the informer will see it.  An informer that is
\* WatchCap versions behind lists again and skips what lies between.
Stored(o) ==
    LET q == AllOutdated(watch)
    IN  watch' = IF Len(q) < WatchCap THEN Append(q, o)
                 ELSE [q EXCEPT ![Len(q)] = o]

\* Mutant: the CR is written without comparing versions.
updateCRStatusBlindly(o, q, st, ok) ==
    /\ status' = st /\ ok /\ UNCHANGED faults
    /\ cr' = [spec |-> o.spec, status |-> st]
    /\ rss' = Current(o.spec, st) /\ Stored(rss') /\ eventCh' = AllOutdated(q)

\* updateCRStatus when o is c.rss, st is c.status and q is what eventCh holds.
\* c.rss takes the new status before the call, whether or not the call succeeds:
\* after a failure the next updateCRStatus finds nothing to write.
updateCRStatus(o, q, st, ok) ==
    /\ status' = st
    /\ \/ /\ o.status = st /\ ok
          /\ rss' = o /\ eventCh' = q /\ UNCHANGED <<cr, watch, faults>>
       \/ /\ o.status # st /\ ok /\ o.current
          /\ cr' = [spec |-> o.spec, status |-> st]
          /\ rss' = Current(o.spec, st) /\ Stored(rss')
          /\ eventCh' = AllOutdated(q) /\ UNCHANGED faults
       \/ /\ o.status # st /\ ~ok
          /\ rss' = [o EXCEPT !.status = st] /\ eventCh' = q /\ UNCHANGED <<cr, watch>>
          /\ \/ ~o.current /\ UNCHANGED faults
             \/ o.current /\ Fault("update")

\* The common case, where the caller ignores the error.
Report(st) == \E ok \in BOOLEAN : updateCRStatus(rss, eventCh, st, ok)

SetPhase(p) == [status EXCEPT !.phase = p]

----------------------------------------------------------------------------
\* Mutant: a cluster that was being created counts as running.
SetupAdopts ==
    /\ pc = "setup"
    /\ \/ /\ status.phase = "None"
          /\ \E ok \in BOOLEAN :
                /\ updateCRStatus(rss, eventCh, SetPhase("Creating"), ok)
                /\ pc' = IF ok THEN "create" ELSE "setupFailed"
       \/ /\ status.phase # "None"
          /\ pc' = "start" /\ UNCHANGED <<cr, watch, eventCh, rss, status, faults>>
    /\ UNCHANGED <<pods, sts, wanted, changes, known, crashes>>

\* setup() decides by the phase it finds in the CR.  A cluster that should be
\* created is first marked as being created; the TLS data may fail to load.
Setup ==
    /\ pc = "setup"
    /\ \/ /\ status.phase = "None"
          /\ \E ok \in BOOLEAN :
                /\ updateCRStatus(rss, eventCh, SetPhase("Creating"), ok)
                /\ pc' = IF ok THEN "create" ELSE "setupFailed"
       \/ /\ status.phase = "Running"
          /\ pc' = "start" /\ UNCHANGED <<cr, watch, eventCh, rss, status, faults>>
       \/ /\ status.phase \notin {"None", "Running"}
          /\ pc' = "setupFailed" /\ UNCHANGED <<cr, watch, eventCh, rss, status, faults>>
       \/ /\ status.phase \in {"None", "Running"} /\ Fault("setup")
          /\ pc' = "setupFailed" /\ UNCHANGED <<cr, watch, eventCh, rss, status>>
    /\ UNCHANGED <<pods, sts, wanted, changes, known, crashes>>

\* Mutant: an error from the API server is dropped.
CreateRegardless ==
    /\ pc = "create" /\ pc' = "start"
    /\ \/ sts' = <<GetNumReplicas(rss.spec.replicas)>> /\ UNCHANGED faults
       \/ Fault("create") /\ UNCHANGED sts
    /\ UNCHANGED <<cr, pods, wanted, changes, watch, known, eventCh, rss, status, crashes>>

\* The rest of create(): services, secret and, last, the StatefulSet, which must
\* not exist yet.
Create ==
    /\ pc = "create"
    /\ \/ /\ sts = <<>>
          /\ sts' = <<GetNumReplicas(rss.spec.replicas)>> /\ pc' = "start"
          /\ UNCHANGED faults
       \/ /\ sts # <<>> /\ pc' = "setupFailed" /\ UNCHANGED <<sts, faults>>
       \/ /\ Fault("create") /\ pc' = "setupFailed" /\ UNCHANGED sts
    /\ UNCHANGED <<cr, pods, wanted, changes, watch, known, eventCh, rss, status, crashes>>

\* Mutant: the goroutine goes on after it reported the failure.
SetupFailedGoesOn ==
    /\ pc = "setupFailed"
    /\ Report(SetPhase("Failed"))
    /\ pc' = "start"
    /\ UNCHANGED <<pods, sts, wanted, changes, known, crashes>>

\* Mutant: the goroutine ends without a report.
SetupFailedSilently ==
    /\ pc = "setupFailed" /\ pc' = "exited"
    /\ UNCHANGED <<server, watch, known, eventCh, rss, status, budget>>

\* New reports a failed setup once and ends the goroutine; the controller still
\* has the cluster in its map.
SetupFailed ==
    /\ pc = "setupFailed"
    /\ Report(SetPhase("Failed"))
    /\ pc' = "exited"
    /\ UNCHANGED <<pods, sts, wanted, changes, known, crashes>>

\* run() up to its loop.
Start ==
    /\ pc = "start"
    /\ Report(SetPhase("Running"))
    /\ pc' = "run"
    /\ UNCHANGED <<pods, sts, wanted, changes, known, crashes>>

\* The timer branch up to and including updateMemberStatus.  What follows
\* depends on the Pods: none running or one pending (which only a Pod that does
\* not run can be) ends the round, the right number of them is recorded.  Every
\* event starts the wait anew, so the timer fires only when none is waiting.
Timer ==
    /\ pc = "run" /\ eventCh = <<>>
    /\ \/ /\ rss.spec.paused
          /\ status' = [status EXCEPT !.controlPaused = TRUE]
          /\ UNCHANGED <<cr, watch, eventCh, pc, rss, faults>>
       \/ /\ ~rss.spec.paused /\ Fault("list")
          /\ status' = [status EXCEPT !.controlPaused = FALSE]
          /\ UNCHANGED <<cr, watch, eventCh, pc, rss>>
       \/ /\ ~rss.spec.paused
          /\ \E v \in Views : Report([status EXCEPT !.controlPaused = FALSE, !.view = v])
          /\ \/ (pods = 0 \/ <<pods>> # sts) /\ pc' = "run"
             \/ pods # 0 /\ pc' = IF pods = GetNumReplicas(rss.spec.replicas)
                                  THEN "record" ELSE "reconcile"
    /\ UNCHANGED <<pods, sts, wanted, changes, known, crashes>>

\* As many Pods run as the spec asks for: that number is kept for a restart.
RecordReplicas ==
    /\ pc = "record"
    /\ Report([status EXCEPT !.restore = GetNumReplicas(rss.spec.replicas)])
    /\ pc' = "reconcile"
    /\ UNCHANGED <<pods, sts, wanted, changes, known, crashes>>

\* reconcile() ends with a report; after a failed replicate() it runs once more.
ReportMembers ==
    /\ pc \in {"reconcile", "again"}
    /\ \E v \in Views : Report([status EXCEPT !.view = v])
    /\ pc' \in {"run", IF pc = "reconcile" THEN "again" ELSE "run"}
    /\ UNCHANGED <<pods, sts, wanted, changes, known, crashes>>

\* Mutant: a size that is too small is reported and then applied.
HandleUpdateEventGoesOn ==
    LET ev  == Head(eventCh)
        low == sts = <<0>> /\ GetNumReplicas(ev.spec.replicas) < ev.status.restore
    IN
    /\ pc = "run" /\ eventCh # <<>> /\ pc' = "patch"
    /\ \E ok \in BOOLEAN :
          updateCRStatus(ev, Tail(eventCh), IF low THEN SetPhase("Paused") ELSE status, ok)
    /\ UNCHANGED <<pods, sts, wanted, changes, known, crashes>>

\* handleUpdateEvent, the whole of it but the patch.  The guard against coming
\* back from zero too small reads the CR's status, not the one in memory.
HandleUpdateEvent ==
    LET ev      == Head(eventCh)
        size    == GetNumReplicas(ev.spec.replicas)
        low     == sts = <<0>> /\ size # 0 /\ size < ev.status.restore
        take(p) == \E ok \in BOOLEAN, v \in Views :
                      updateCRStatus(ev, Tail(eventCh), [SetPhase(p) EXCEPT !.view = v], ok)
        keep    == rss' = ev /\ eventCh' = Tail(eventCh) /\ UNCHANGED <<cr, watch, status>>
    IN
    /\ pc = "run" /\ eventCh # <<>>
    /\ \/ /\ isSpecEqual(ev.spec, rss.spec)
          /\ keep /\ UNCHANGED <<pc, faults>>
       \/ /\ ~isSpecEqual(ev.spec, rss.spec) /\ Fault("sts")
          /\ keep /\ pc' = "failing"
       \/ /\ ~isSpecEqual(ev.spec, rss.spec) /\ low
          /\ take("Paused") /\ UNCHANGED pc
       \/ /\ ~isSpecEqual(ev.spec, rss.spec) /\ ~low
          /\ IF sts # <<size>> /\ status.phase = "Paused" THEN take("Running")
             ELSE keep /\ UNCHANGED faults
          /\ pc' = "patch"
    /\ UNCHANGED <<pods, sts, wanted, changes, known, crashes>>

PatchSts ==
    /\ pc = "patch"
    /\ \/ sts' = <<GetNumReplicas(rss.spec.replicas)>> /\ pc' = "run" /\ UNCHANGED faults
       \/ Fault("sts") /\ pc' = "failing" /\ UNCHANGED sts
    /\ UNCHANGED <<cr, pods, wanted, changes, watch, known, eventCh, rss, status, crashes>>

\* reportFailedStatus retries until updateCRStatus returns no error.  That error
\* is a new one, never a "conflict" or "not found", so the code that fetches the
\* latest version before the next try is not reached.
ReportFailedStatus ==
    /\ pc = "failing"
    /\ \E ok \in BOOLEAN :
          /\ updateCRStatus(rss, eventCh, SetPhase("Failed"), ok)
          /\ pc' = IF ok THEN "exited" ELSE "failing"
    /\ UNCHANGED <<pods, sts, wanted, changes, known, crashes>>

----------------------------------------------------------------------------
\* The informer hands the next version to handleClusterEvent: failed clusters
\* are ignored, an unknown one gets a goroutine, a known one gets the event, for
\* which send waits until eventCh has room.
Deliver ==
    /\ watch # <<>> /\ watch' = Tail(watch)
    /\ LET o == Head(watch) IN
       \/ /\ o.status.phase = "Failed"
          /\ UNCHANGED <<known, eventCh, goroutine>>
       \/ /\ o.status.phase # "Failed" /\ ~known
          /\ known' = TRUE /\ pc' = "setup" /\ rss' = o /\ status' = o.status
          /\ UNCHANGED eventCh
       \/ /\ o.status.phase # "Failed" /\ known /\ Len(eventCh) < EventCap
          /\ eventCh' = Append(eventCh, o)
          /\ UNCHANGED <<known, goroutine>>
    /\ UNCHANGED <<server, budget>>

\* The operator process ends and a new one lists the CR.
Restarted ==
    /\ known' = FALSE /\ eventCh' = <<>> /\ pc' = "none"
    /\ watch' = <<Current(cr.spec, cr.status)>>
    /\ rss' = watch'[1] /\ status' = cr.status
    /\ UNCHANGED <<server, faults>>

Crash == crashes < MaxCrashes /\ crashes' = crashes + 1 /\ Restarted

\* An event that waits too long for room in eventCh ends the operator.  That is
\* certain when nobody reads eventCh any more; a goroutine that is only slow may
\* do so too, which is one of the crashes.
PanicTimer ==
    /\ pc = "exited"
    /\ watch # <<>> /\ Head(watch).status.phase # "Failed"
    /\ known /\ Len(eventCh) = EventCap
    /\ Restarted /\ UNCHANGED crashes

----------------------------------------------------------------------------
\* A user edits the spec.
ChangeSpec ==
    /\ changes < MaxChanges /\ changes' = changes + 1
    /\ \E s \in Specs \ {cr.spec} :
          /\ wanted' = s /\ cr' = [cr EXCEPT !.spec = s]
          /\ Stored(Current(s, cr.status))
    /\ rss' = Outdated(rss) /\ eventCh' = AllOutdated(eventCh)
    /\ UNCHANGED <<pods, sts, known, pc, status, budget>>

\* The StatefulSet controller moves one Pod at a time towards the size it is
\* given; a Pod that terminates counts as running until it is gone.
PodStep ==
    /\ sts # <<>>
    /\ \/ pods < sts[1] /\ pods' = pods + 1
       \/ pods > sts[1] /\ pods' = pods - 1
    /\ UNCHANGED <<cr, sts, wanted, changes, watch, known, eventCh, goroutine, budget>>

PodDies ==
    /\ pods > 0 /\ pods' = pods - 1 /\ Fault("podDies")
    /\ UNCHANGED <<cr, sts, wanted, changes, watch, known, eventCh, goroutine, crashes>>

Goroutine ==
    \/ Setup \/ Create \/ SetupFailed \/ Start \/ RecordReplicas \/ ReportMembers
    \/ HandleUpdateEvent \/ PatchSts \/ ReportFailedStatus

Next ==
    \/ Goroutine \/ Timer \/ Deliver
    \/ Crash \/ PanicTimer \/ ChangeSpec \/ PodStep \/ PodDies

\* The goroutine, the informer and the StatefulSet controller keep running, and
\* a send that stays blocked does end the operator.
Fairness ==
    /\ WF_vars(Goroutine \/ Timer) /\ WF_vars(Deliver) /\ WF_vars(PanicTimer)
    /\ WF_vars(PodStep)

Spec == Init /\ [][Next]_vars
FairSpec == Spec /\ Fairness

----------------------------------------------------------------------------
\* Writing the status never overwrites what a user wrote into the spec, however
\* users and the operator interleave (the compare-and-swap in updateCRStatus).
SpecKept == cr.spec = wanted

\* A cluster whose CR says it runs, or is paused, has a StatefulSet, also after
\* a crash at any point of create().
RunningHasSts == cr.status.phase \in {"Running", "Paused"} => sts # <<>>

\* The inductive invariant behind SpecKept and RunningHasSts.  A copy of the CR
\* that is current has the current spec, and any copy that says the cluster runs
\* or is paused was made after its StatefulSet was created.
CopyOK(o) ==
    /\ o.current => o.spec = cr.spec
    /\ o.status.phase \in {"Running", "Paused"} => sts # <<>>

CopiesOK ==
    /\ CopyOK(rss)
    /\ \A i \in DOMAIN watch : CopyOK(watch[i])
    /\ \A i \in DOMAIN eventCh : CopyOK(eventCh[i])

\* So does the status in memory, and the goroutine gets past setup() only with a
\* StatefulSet.
PastSetup ==
    /\ status.phase \in {"Running", "Paused"} => sts # <<>>
    /\ pc \notin {"none", "setup", "create", "setupFailed", "exited"} => sts # <<>>

\* Together they are inductive: see LifecycleProofs.
StsInv == TypeOK /\ SpecKept /\ RunningHasSts /\ CopiesOK /\ PastSetup

\* A failed cluster stays failed: no goroutine, old or new, revives it.
FailedIsFinal == [][cr.status.phase = "Failed" => cr'.status.phase = "Failed"]_vars

\* While a running goroutine considers the cluster paused because the spec asks
\* for too few replicas, no Pods are asked for, whatever was edited, lost or
\* delivered late in the meantime (the guard in handleUpdateEvent).
PausedBlocks == status.phase = "Paused" /\ pc = "run" => sts = <<0>>

\* What FailedIsFinal rests on: once the CR says Failed, nobody who could still
\* write it has a current copy.  Copies on their way from the API server have its
\* status as long as they are current; a failed one is not handed on.  A goroutine
\* that goes on does not itself consider the cluster failed.
FailedInv ==
    /\ \A i \in DOMAIN watch : watch[i].current => watch[i].status = cr.status
    /\ \A i \in DOMAIN eventCh : eventCh[i].current => cr.status.phase # "Failed"
    /\ pc \notin {"none", "exited"} /\ rss.current => cr.status.phase # "Failed"
    /\ pc \notin {"none", "exited", "failing"} => status.phase # "Failed"

\* What PausedBlocks rests on: a round leaves the pause alone, and the patch that
\* follows an edit is made without leaving it only if it asks for no Pods again.
PausedInv ==
    status.phase = "Paused" =>
        /\ pc \in {"run", "record", "reconcile", "again", "patch"} => sts = <<0>>
        /\ pc = "patch" => GetNumReplicas(rss.spec.replicas) = 0

\* The inductive invariant of the whole module.
LifecycleInv == StsInv /\ FailedInv /\ PausedInv

\* The spec of the newest version that the goroutine has or has yet to receive.
Newest(w, e, r) ==
    IF w # <<>> THEN w[Len(w)].spec
    ELSE IF e # <<>> THEN e[Len(e)].spec
    ELSE r.spec

\* No edit is lost on its way from the API server to the goroutine, whatever the
\* informer skips and the operator's own writes overtake: the last version under
\* way, or else c.rss, has the spec of the CR.  Only versions of a failed cluster
\* are dropped, and a new process starts with an empty eventCh.
EditsKept ==
    /\ known \/ eventCh = <<>>
    /\ \A i \in DOMAIN watch :
          watch[i].status.phase = "Failed" => cr.status.phase = "Failed"
    /\ cr.status.phase # "Failed" => Newest(watch, eventCh, rss) = cr.spec

\* Until an operator process ends, the StatefulSet has the size of c.rss whenever
\* no patch is due, or the cluster is paused.
SizeApplied ==
    /\ pc \in {"none", "setup", "create"} => sts = <<>>
    /\ \/ pc = "start"
       \/ pc \in {"run", "record", "reconcile", "again"} /\ status.phase # "Paused"
       => sts = <<GetNumReplicas(rss.spec.replicas)>>

\* A goroutine that waits with nothing under way has applied the last edit, unless
\* the cluster failed or is paused (run() and handleUpdateEvent).
EditsApplied ==
    /\ pc = "run" /\ eventCh = <<>> /\ watch = <<>>
    /\ cr.status.phase # "Failed" /\ status.phase # "Paused"
    => sts = <<GetNumReplicas(cr.spec.replicas)>>

\* The operator process goes on; known is never reset otherwise.
LivesOn == known => known'

\* Users' edits reach the StatefulSet once there is one, unless the cluster failed
\* or is paused.  Not so after a crash: an edit made while the operator is down is
\* compared with nothing and never applied.
StsFollowsSpec ==
    <>[](\/ sts \in {<<>>, <<GetNumReplicas(cr.spec.replicas)>>}
         \/ cr.status.phase = "Failed" \/ status.phase = "Paused"
         \/ crashes + faults > 0)

\* A new cluster gets its StatefulSet or is reported as failed, if no more than
\* one thing goes wrong: a call that fails or a crash of the operator anywhere in
\* setup() and create().  Not so after an edit: setup() meets a conflict, and so
\* does the only attempt to report that it failed.
CreatedOrFailed ==
    <>(sts # <<>> \/ cr.status.phase = "Failed" \/ crashes + faults > 1 \/ changes > 0)
============================================================================
