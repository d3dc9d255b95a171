-------------------------- MODULE LifecycleProofs --------------------------
(***************************************************************************)
(* Proofs about Lifecycle, for any specs, views, channel and watch         *)
(* capacities, and any number of edits, crashes and API failures.          *)
(***************************************************************************)
EXTENDS Lifecycle, SequenceTheorems, TLAPS

\* A sequence of copies of the CR, all of them as CopiesOK asks.
Copies(q) == q \in Seq(Copy) /\ \A i \in DOMAIN q : CopyOK(q[i])

\* GetNumReplicas asks for no size but zero or at least the minimum.
LEMMA ReplicasType ==
    ASSUME NEW s \in Specs
    PROVE  GetNumReplicas(s.replicas) \in NumReplicas
<1>1. s.replicas \in Seq(Int) /\ Len(s.replicas) <= 1  BY LifecycleAssumption
<1>2. s.replicas # <<>> => s.replicas[1] \in Int  BY <1>1
<1> QED  BY <1>1, <1>2 DEF GetNumReplicas, NumReplicas, minClusterSize

\* The size of a StatefulSet that was just written.
LEMMA SizeType ==
    ASSUME NEW s \in Specs
    PROVE  /\ <<GetNumReplicas(s.replicas)>> \in Seq(NumReplicas)
           /\ Len(<<GetNumReplicas(s.replicas)>>) <= 1
           /\ <<GetNumReplicas(s.replicas)>> # <<>>
BY ReplicasType

\* A new cluster has a status.
LEMMA NewStatusType ==
    /\ NewStatus \in ClusterStatus
    /\ [NewStatus EXCEPT !.phase = "Running"] \in ClusterStatus
    /\ NewStatus.phase = "None"
<1>1. (CHOOSE v \in Views : TRUE) \in Views  BY LifecycleAssumption
<1> QED  BY <1>1 DEF NewStatus, ClusterStatus, ClusterPhases

\* A copy that the API server has just made.
LEMMA CurrentType ==
    ASSUME NEW s \in Specs, NEW st \in ClusterStatus
    PROVE  /\ Current(s, st) \in Copy /\ Current(s, st).current
           /\ Current(s, st).spec = s /\ Current(s, st).status = st
BY DEF Copy, Current

\* A copy that the API server has replaced.
LEMMA OutdatedType ==
    ASSUME NEW o \in Copy
    PROVE  /\ Outdated(o) \in Copy /\ ~Outdated(o).current
           /\ Outdated(o).spec = o.spec /\ Outdated(o).status = o.status
BY DEF Copy, Outdated

\* A copy whose status was replaced in memory only.
LEMMA WithStatusType ==
    ASSUME NEW o \in Copy, NEW st \in ClusterStatus
    PROVE  /\ [o EXCEPT !.status = st] \in Copy
           /\ [o EXCEPT !.status = st].spec = o.spec
           /\ [o EXCEPT !.status = st].status = st
           /\ [o EXCEPT !.status = st].current = o.current
BY DEF Copy

\* A whole queue of copies that the API server has replaced.
LEMMA AllOutdatedType ==
    ASSUME NEW q \in Seq(Copy)
    PROVE  /\ AllOutdated(q) \in Seq(Copy)
           /\ Len(AllOutdated(q)) = Len(q) /\ DOMAIN AllOutdated(q) = DOMAIN q
           /\ \A i \in DOMAIN q : /\ ~AllOutdated(q)[i].current
                                  /\ AllOutdated(q)[i].status = q[i].status
<1>1. AllOutdated(q) = [i \in 1..Len(q) |-> Outdated(q[i])]  BY DEF AllOutdated
<1>2. \A i \in 1..Len(q) : /\ Outdated(q[i]) \in Copy /\ ~Outdated(q[i]).current
                           /\ Outdated(q[i]).status = q[i].status
  <2> TAKE i \in 1..Len(q)
  <2>1. q[i] \in Copy  OBVIOUS
  <2> QED  BY <2>1 DEF Copy, Outdated
<1> HIDE DEF AllOutdated
<1> QED  BY <1>1, <1>2

\* After the API server stored o, the watch queue is within its bound and holds
\* o and copies that are no longer current.
LEMMA StoredType ==
    ASSUME watch \in Seq(Copy), Len(watch) <= WatchCap, NEW o \in Copy, Stored(o)
    PROVE  /\ watch' \in Seq(Copy) /\ Len(watch') <= WatchCap
           /\ \A i \in DOMAIN watch' :
                 \/ watch'[i] = o
                 \/ /\ i \in DOMAIN watch /\ ~watch'[i].current
                    /\ watch'[i].status = watch[i].status
<1> DEFINE q == AllOutdated(watch)
<1>1. q \in Seq(Copy) /\ Len(q) = Len(watch) /\ DOMAIN q = DOMAIN watch
  BY AllOutdatedType
<1>2. \A i \in DOMAIN watch : ~q[i].current /\ q[i].status = watch[i].status
  BY AllOutdatedType
<1>3. WatchCap \in Nat \ {0}  BY LifecycleAssumption
<1> HIDE DEF q
<1>4. CASE Len(q) < WatchCap
  <2>1. watch' = Append(q, o)  BY <1>4 DEF Stored, q
  <2>2. watch' \in Seq(Copy) /\ Len(watch') = Len(q) + 1  BY <2>1, <1>1
  <2>3. \A i \in 1..Len(watch') : i <= Len(q) => watch'[i] = q[i]  BY <2>1, <1>1
  <2>4. watch'[Len(q) + 1] = o  BY <2>1, <1>1
  <2> QED  BY <2>2, <2>3, <2>4, <1>1, <1>2, <1>3, <1>4
<1>5. CASE ~(Len(q) < WatchCap)
  <2>1. watch' = [q EXCEPT ![Len(q)] = o]  BY <1>5 DEF Stored, q
  <2>2. Len(q) \in 1..Len(q)  BY <1>1, <1>3, <1>5
  <2>3. /\ watch' \in Seq(Copy) /\ Len(watch') = Len(q)
        /\ \A i \in 1..Len(q) : watch'[i] = IF i = Len(q) THEN o ELSE q[i]
    <3> DEFINE e(i) == IF i = Len(q) THEN o ELSE q[i]
    <3>1. q \in [1..Len(q) -> Copy]  BY <1>1
    <3>2. watch' = [i \in 1..Len(q) |-> e(i)]  BY <2>1, <3>1, Zenon
    <3>3. \A i \in 1..Len(q) : e(i) \in Copy  BY <3>1
    <3> HIDE DEF e
    <3>4. /\ watch' \in Seq(Copy) /\ Len(watch') = Len(q)
          /\ \A i \in 1..Len(q) : watch'[i] = e(i)
      BY <3>2, <3>3, <1>1
    <3> QED  BY <3>4 DEF e
  <2> QED  BY <2>3, <1>1, <1>2
<1> QED  BY <1>4, <1>5

\* A failure that is counted stays within its budget.
LEMMA FaultType ==
    ASSUME faults \in 0..MaxFaults, NEW k, Fault(k)
    PROVE  faults' \in 0..MaxFaults
BY LifecycleAssumption DEF Fault

\* What updateCRStatus leaves behind, wherever it is called from.
UpdateDone ==
    /\ cr' \in [spec : Specs, status : ClusterStatus]
    /\ watch' \in Seq(Copy) /\ Len(watch') <= WatchCap
    /\ eventCh' \in Seq(Copy)
    /\ rss' \in Copy /\ status' \in ClusterStatus /\ faults' \in 0..MaxFaults
    /\ SpecKept' /\ RunningHasSts' /\ CopiesOK'

\* updateCRStatus keeps every copy of the CR as it should be: it writes only from
\* a current copy, which has the user's spec, and it makes all others outdated.
LEMMA UpdateInv ==
    ASSUME TypeOK, SpecKept, RunningHasSts, CopiesOK,
           NEW o \in Copy, CopyOK(o), NEW q, Copies(q),
           NEW st \in ClusterStatus,
           st.phase \in {"Running", "Paused"} => sts # <<>>,
           NEW ok \in BOOLEAN, updateCRStatus(o, q, st, ok),
           sts' = sts, wanted' = wanted
    PROVE  UpdateDone /\ Len(eventCh') = Len(q) /\ status' = st
<1>1. status' = st  BY DEF updateCRStatus
<1>2. CASE o.status = st /\ rss' = o /\ eventCh' = q /\ UNCHANGED <<cr, watch, faults>>
  BY <1>1, <1>2 DEF UpdateDone, TypeOK, SpecKept, RunningHasSts, CopiesOK, CopyOK, Copies
<1>3. CASE /\ o.current /\ cr' = [spec |-> o.spec, status |-> st]
           /\ rss' = Current(o.spec, st) /\ Stored(rss')
           /\ eventCh' = AllOutdated(q) /\ UNCHANGED faults
  <2>1. o.spec \in Specs /\ o.spec = cr.spec  BY <1>3 DEF Copy, CopyOK
  <2>2. cr'.spec = cr.spec /\ cr'.status = st  BY <1>3, <2>1
  <2>3. cr' \in [spec : Specs, status : ClusterStatus]  BY <1>3, <2>1
  <2>4. rss' \in Copy /\ rss'.spec = o.spec /\ rss'.status = st
    BY <1>3, <2>1, CurrentType
  <2>5. CopyOK(rss)'  BY <2>1, <2>2, <2>4 DEF CopyOK
  <2>6. /\ watch' \in Seq(Copy) /\ Len(watch') <= WatchCap
        /\ \A i \in DOMAIN watch' :
              \/ watch'[i] = rss'
              \/ /\ i \in DOMAIN watch /\ ~watch'[i].current
                 /\ watch'[i].status = watch[i].status
    BY <1>3, <2>4, StoredType DEF TypeOK
  <2>7. \A i \in DOMAIN watch' : CopyOK(watch[i])'
    BY <2>5, <2>6 DEF CopyOK, CopiesOK
  <2>8. /\ eventCh' \in Seq(Copy) /\ Len(eventCh') = Len(q) /\ DOMAIN eventCh' = DOMAIN q
        /\ \A i \in DOMAIN q : ~eventCh'[i].current /\ eventCh'[i].status = q[i].status
    BY <1>3, AllOutdatedType DEF Copies
  <2>9. \A i \in DOMAIN eventCh' : CopyOK(eventCh[i])'
    BY <2>8 DEF CopyOK, Copies
  <2> QED
    BY <1>1, <1>3, <2>2, <2>3, <2>4, <2>5, <2>6, <2>7, <2>8, <2>9
    DEF UpdateDone, TypeOK, SpecKept, RunningHasSts, CopiesOK
<1>4. CASE /\ rss' = [o EXCEPT !.status = st] /\ eventCh' = q /\ UNCHANGED <<cr, watch>>
           /\ UNCHANGED faults \/ Fault("update")
  <2>1. /\ rss' \in Copy /\ rss'.spec = o.spec /\ rss'.status = st
        /\ rss'.current = o.current
    BY <1>4, WithStatusType
  <2>2. CopyOK(rss)'  BY <1>4, <2>1 DEF CopyOK
  <2>3. faults' \in 0..MaxFaults  BY <1>4, FaultType DEF TypeOK
  <2> QED
    BY <1>1, <1>4, <2>1, <2>2, <2>3
    DEF UpdateDone, TypeOK, SpecKept, RunningHasSts, CopiesOK, CopyOK, Copies
<1> QED  BY <1>2, <1>3, <1>4 DEF updateCRStatus

\* What a place of the goroutine takes for granted.
Placed(p) ==
    /\ p \in PCs \ {"none"}
    /\ p \notin {"setup", "create", "setupFailed", "exited"} => sts # <<>>

\* A step of the goroutine that ends in updateCRStatus keeps the invariant, if the
\* copy o and the queue q it goes on with are as they should be.
LEMMA ReportedInv ==
    ASSUME StsInv, pc # "none",
           NEW o \in Copy, CopyOK(o), NEW q, Copies(q), Len(q) <= Len(eventCh),
           NEW st \in ClusterStatus,
           st.phase \in {"Running", "Paused"} => sts # <<>>,
           NEW ok \in BOOLEAN, updateCRStatus(o, q, st, ok), Placed(pc'),
           UNCHANGED <<pods, sts, wanted, changes, known, crashes>>
    PROVE  StsInv'
<1>1. UpdateDone /\ Len(eventCh') = Len(q) /\ status' = st
  BY UpdateInv DEF StsInv
<1>2. Len(eventCh') <= EventCap
  <2>1. eventCh \in Seq(Copy) /\ q \in Seq(Copy) /\ Len(eventCh) <= EventCap
    BY DEF StsInv, TypeOK, Copies
  <2> QED  BY <1>1, <2>1, LifecycleAssumption
<1>3. TypeOK'  BY <1>1, <1>2 DEF UpdateDone, StsInv, TypeOK, Placed
<1>4. PastSetup'  BY <1>1 DEF Placed, PastSetup
<1> QED  BY <1>1, <1>3, <1>4 DEF StsInv, UpdateDone

\* The same for the copy and the queue the goroutine already has.
LEMMA ReportInv ==
    ASSUME StsInv, pc # "none", NEW st \in ClusterStatus,
           st.phase \in {"Running", "Paused"} => sts # <<>>,
           NEW ok \in BOOLEAN, updateCRStatus(rss, eventCh, st, ok), Placed(pc'),
           UNCHANGED <<pods, sts, wanted, changes, known, crashes>>
    PROVE  StsInv'
<1>1. /\ rss \in Copy /\ CopyOK(rss) /\ Copies(eventCh) /\ Len(eventCh) <= Len(eventCh)
  BY DEF StsInv, TypeOK, CopiesOK, Copies
<1> QED  BY <1>1, ReportedInv

\* A step that leaves the CR and all its copies alone, and deletes no
\* StatefulSet, keeps the invariant.
LEMMA QuietInv ==
    ASSUME StsInv, UNCHANGED <<cr, watch, eventCh, rss, wanted, changes, known, crashes>>,
           sts' \in Seq(NumReplicas), Len(sts') <= 1, sts # <<>> => sts' # <<>>,
           pods' \in Nat, faults' \in 0..MaxFaults,
           status' \in ClusterStatus, status'.phase = status.phase,
           \/ pc' = pc
           \/ pc # "none" /\ Placed(pc)'
    PROVE  StsInv'
<1>1. TypeOK'  BY DEF StsInv, TypeOK, Placed
<1>2. SpecKept' /\ RunningHasSts'  BY DEF StsInv, SpecKept, RunningHasSts
<1>3. CopiesOK'  BY DEF StsInv, CopiesOK, CopyOK
<1>4. PastSetup'  BY DEF StsInv, PastSetup, Placed
<1> QED  BY <1>1, <1>2, <1>3, <1>4 DEF StsInv

\* The phase that an action writes into the status in memory.
LEMMA SetPhaseType ==
    ASSUME TypeOK, NEW p \in ClusterPhases
    PROVE  SetPhase(p) \in ClusterStatus /\ SetPhase(p).phase = p
BY DEF SetPhase, TypeOK, ClusterStatus

\* setup() writes a phase that needs no StatefulSet, or goes on only where the
\* CR already said Running.
LEMMA SetupInv == StsInv /\ Setup => StsInv'
<1> SUFFICES ASSUME StsInv, Setup PROVE StsInv'  OBVIOUS
<1> USE DEF PCs, ClusterPhases
<1>1. TypeOK  BY DEF StsInv
<1>2. ASSUME NEW ok \in BOOLEAN, updateCRStatus(rss, eventCh, SetPhase("Creating"), ok),
             pc' = IF ok THEN "create" ELSE "setupFailed"
      PROVE  StsInv'
  <2>1. /\ SetPhase("Creating") \in ClusterStatus
        /\ SetPhase("Creating").phase \notin {"Running", "Paused"}
    BY <1>1, SetPhaseType
  <2>2. Placed(pc')  BY <1>2 DEF Placed
  <2> QED  BY <1>2, <2>1, <2>2, ReportInv DEF Setup
<1>3. CASE /\ status.phase = "Running" /\ pc' = "start"
           /\ UNCHANGED <<cr, watch, eventCh, rss, status, faults>>
  <2>1. Placed(pc)'  BY <1>3 DEF Placed, StsInv, PastSetup, Setup
  <2> QED  BY <1>1, <1>3, <2>1, QuietInv DEF TypeOK, Setup
<1>4. CASE /\ pc' = "setupFailed" /\ UNCHANGED <<cr, watch, eventCh, rss, status>>
           /\ UNCHANGED faults \/ Fault("setup")
  <2>1. Placed(pc)'  BY <1>4 DEF Placed
  <2>2. faults' \in 0..MaxFaults  BY <1>1, <1>4, FaultType DEF TypeOK
  <2> QED  BY <1>1, <1>4, <2>1, <2>2, QuietInv DEF TypeOK, Setup
<1> QED  BY <1>2, <1>3, <1>4 DEF Setup

\* create() goes on only after it created the StatefulSet.
LEMMA CreateInv == StsInv /\ Create => StsInv'
<1> SUFFICES ASSUME StsInv, Create PROVE StsInv'  OBVIOUS
<1> USE DEF PCs
<1>1. TypeOK  BY DEF StsInv
<1>2. CASE /\ sts' = <<GetNumReplicas(rss.spec.replicas)>> /\ pc' = "start" /\ UNCHANGED faults
  <2>1. rss.spec \in Specs  BY <1>1 DEF TypeOK, Copy
  <2>2. sts' \in Seq(NumReplicas) /\ Len(sts') <= 1 /\ sts' # <<>>
    BY <1>2, <2>1, SizeType
  <2>3. Placed(pc)'  BY <1>2, <2>2 DEF Placed
  <2> QED  BY <1>1, <1>2, <2>2, <2>3, QuietInv DEF TypeOK, Create
<1>3. CASE pc' = "setupFailed" /\ UNCHANGED sts /\ (UNCHANGED faults \/ Fault("create"))
  <2>1. Placed(pc)'  BY <1>3 DEF Placed
  <2>2. faults' \in 0..MaxFaults  BY <1>1, <1>3, FaultType DEF TypeOK
  <2> QED  BY <1>1, <1>3, <2>1, <2>2, QuietInv DEF TypeOK, Create
<1> QED  BY <1>2, <1>3 DEF Create

\* A failed setup is reported and ends the goroutine.
LEMMA SetupFailedInv == StsInv /\ SetupFailed => StsInv'
<1> SUFFICES ASSUME StsInv, SetupFailed PROVE StsInv'  OBVIOUS
<1>1. PICK ok \in BOOLEAN : updateCRStatus(rss, eventCh, SetPhase("Failed"), ok)
  BY DEF SetupFailed, Report
<1>2. /\ SetPhase("Failed") \in ClusterStatus
      /\ SetPhase("Failed").phase \notin {"Running", "Paused"}
  BY SetPhaseType DEF StsInv, ClusterPhases
<1>3. Placed(pc')  BY DEF Placed, SetupFailed, PCs
<1> QED  BY <1>1, <1>2, <1>3, ReportInv DEF SetupFailed

\* run() is entered with a StatefulSet.
LEMMA StartInv == StsInv /\ Start => StsInv'
<1> SUFFICES ASSUME StsInv, Start PROVE StsInv'  OBVIOUS
<1>1. PICK ok \in BOOLEAN : updateCRStatus(rss, eventCh, SetPhase("Running"), ok)
  BY DEF Start, Report
<1>2. SetPhase("Running") \in ClusterStatus
  BY SetPhaseType DEF StsInv, ClusterPhases
<1>3. sts # <<>>  BY DEF StsInv, PastSetup, Start
<1>4. Placed(pc')  BY <1>3 DEF Placed, Start, PCs
<1> QED  BY <1>1, <1>2, <1>3, <1>4, ReportInv DEF Start

\* A failure to report is retried, and it is no phase that needs a StatefulSet.
LEMMA ReportFailedStatusInv == StsInv /\ ReportFailedStatus => StsInv'
<1> SUFFICES ASSUME StsInv, ReportFailedStatus PROVE StsInv'  OBVIOUS
<1>1. PICK ok \in BOOLEAN : /\ updateCRStatus(rss, eventCh, SetPhase("Failed"), ok)
                            /\ pc' = IF ok THEN "exited" ELSE "failing"
  BY DEF ReportFailedStatus
<1>2. /\ SetPhase("Failed") \in ClusterStatus
      /\ SetPhase("Failed").phase \notin {"Running", "Paused"}
  BY SetPhaseType DEF StsInv, ClusterPhases
<1>3. Placed(pc')  BY <1>1, Zenon DEF Placed, ReportFailedStatus, PCs, StsInv, PastSetup
<1> QED  BY <1>1, <1>2, <1>3, ReportInv DEF ReportFailedStatus

\* The timer branch of run() changes no phase.
LEMMA TimerInv == StsInv /\ Timer => StsInv'
<1> SUFFICES ASSUME StsInv, Timer PROVE StsInv'  OBVIOUS
<1>1. TypeOK /\ sts # <<>>  BY Zenon DEF StsInv, PastSetup, Timer
<1>2. ASSUME NEW b \in BOOLEAN, status' = [status EXCEPT !.controlPaused = b],
             UNCHANGED <<cr, watch, eventCh, pc, rss>>, UNCHANGED faults \/ Fault("list")
      PROVE  StsInv'
  <2>0. status \in ClusterStatus  BY <1>1 DEF TypeOK
  <2>1. status' \in ClusterStatus /\ status'.phase = status.phase
    BY <1>2, <2>0 DEF ClusterStatus
  <2>2. faults' \in 0..MaxFaults  BY <1>1, <1>2, FaultType, Zenon DEF TypeOK
  <2> QED  BY <1>1, <1>2, <2>1, <2>2, QuietInv DEF TypeOK, Timer
<1>3. ASSUME NEW v \in Views, NEW ok \in BOOLEAN,
             updateCRStatus(rss, eventCh, [status EXCEPT !.controlPaused = FALSE, !.view = v], ok),
             pc' \in {"run", "record", "reconcile"}
      PROVE  StsInv'
  <2> DEFINE st == [status EXCEPT !.controlPaused = FALSE, !.view = v]
  <2>0. status \in ClusterStatus  BY <1>1 DEF TypeOK
  <2>1. st \in ClusterStatus /\ st.phase = status.phase
    BY <2>0 DEF ClusterStatus
  <2>2. Placed(pc')  BY <1>1, <1>3 DEF Placed, PCs
  <2> HIDE DEF st
  <2>3. updateCRStatus(rss, eventCh, st, ok)  BY <1>3 DEF st
  <2> QED  BY <1>1, <2>1, <2>2, <2>3, ReportInv DEF Timer
<1> QED  BY <1>2, <1>3, Zenon DEF Timer, Report

\* The number of replicas that is recorded is one a StatefulSet may have.
LEMMA RecordReplicasInv == StsInv /\ RecordReplicas => StsInv'
<1> SUFFICES ASSUME StsInv, RecordReplicas PROVE StsInv'  OBVIOUS
<1> DEFINE st == [status EXCEPT !.restore = GetNumReplicas(rss.spec.replicas)]
<1>1. TypeOK /\ sts # <<>>  BY DEF StsInv, PastSetup, RecordReplicas
<1>2. GetNumReplicas(rss.spec.replicas) \in Nat
  <2>1. rss.spec \in Specs  BY <1>1 DEF TypeOK, Copy
  <2> QED  BY <2>1, ReplicasType DEF NumReplicas
<1>3. st \in ClusterStatus /\ st.phase = status.phase
  BY <1>1, <1>2 DEF TypeOK, ClusterStatus
<1>4. PICK ok \in BOOLEAN : updateCRStatus(rss, eventCh, st, ok)
  BY DEF RecordReplicas, Report
<1>5. Placed(pc')  BY <1>1 DEF Placed, RecordReplicas, PCs
<1> HIDE DEF st
<1> QED  BY <1>1, <1>3, <1>4, <1>5, ReportInv DEF RecordReplicas

\* reconcile() reports members and conditions, never another phase.
LEMMA ReportMembersInv == StsInv /\ ReportMembers => StsInv'
<1> SUFFICES ASSUME StsInv, ReportMembers PROVE StsInv'  OBVIOUS
<1>1. TypeOK /\ sts # <<>>  BY DEF StsInv, PastSetup, ReportMembers
<1>2. PICK v \in Views, ok \in BOOLEAN :
         updateCRStatus(rss, eventCh, [status EXCEPT !.view = v], ok)
  BY DEF ReportMembers, Report
<1> DEFINE st == [status EXCEPT !.view = v]
<1>3. st \in ClusterStatus /\ st.phase = status.phase
  BY <1>1 DEF TypeOK, ClusterStatus
<1>4. Placed(pc')  BY <1>1 DEF Placed, ReportMembers, PCs
<1>5. updateCRStatus(rss, eventCh, st, ok)  BY <1>2
<1> HIDE DEF st
<1> QED  BY <1>1, <1>3, <1>4, <1>5, ReportInv DEF ReportMembers

\* The patch replaces the size of a StatefulSet that is there.
LEMMA PatchStsInv == StsInv /\ PatchSts => StsInv'
<1> SUFFICES ASSUME StsInv, PatchSts PROVE StsInv'  OBVIOUS
<1> USE DEF PCs
<1>1. TypeOK /\ sts # <<>>  BY DEF StsInv, PastSetup, PatchSts
<1>2. CASE sts' = <<GetNumReplicas(rss.spec.replicas)>> /\ pc' = "run" /\ UNCHANGED faults
  <2>1. rss.spec \in Specs  BY <1>1 DEF TypeOK, Copy
  <2>2. sts' \in Seq(NumReplicas) /\ Len(sts') <= 1 /\ sts' # <<>>
    BY <1>2, <2>1, SizeType
  <2>3. Placed(pc)'  BY <1>2, <2>2 DEF Placed
  <2> QED  BY <1>1, <1>2, <2>2, <2>3, QuietInv DEF TypeOK, PatchSts
<1>3. CASE Fault("sts") /\ pc' = "failing" /\ UNCHANGED sts
  <2>1. Placed(pc)'  BY <1>1, <1>3 DEF Placed
  <2>2. faults' \in 0..MaxFaults  BY <1>1, <1>3, FaultType DEF TypeOK
  <2> QED  BY <1>1, <1>3, <2>1, <2>2, QuietInv DEF TypeOK, PatchSts
<1> QED  BY <1>2, <1>3 DEF PatchSts

\* The first copy of a queue and the others.
LEMMA HeadTail ==
    ASSUME NEW q, Copies(q), q # <<>>
    PROVE  /\ Head(q) \in Copy /\ CopyOK(Head(q))
           /\ Copies(Tail(q)) /\ Len(Tail(q)) <= Len(q)
<1>1. q \in Seq(Copy) /\ Len(q) \in Nat  BY DEF Copies
<1>2. /\ Head(q) \in Copy /\ Tail(q) \in Seq(Copy) /\ Len(Tail(q)) = Len(q) - 1
      /\ \A i \in 1..Len(Tail(q)) : Tail(q)[i] = q[i + 1]
  BY <1>1
<1>3. CopyOK(Head(q))
  <2>1. Head(q) = q[1] /\ 1 \in DOMAIN q  BY <1>1
  <2> QED  BY <2>1 DEF Copies
<1>4. ASSUME NEW i \in DOMAIN Tail(q) PROVE CopyOK(Tail(q)[i])
  <2>1. i \in 1..Len(Tail(q)) /\ i + 1 \in DOMAIN q  BY <1>1, <1>2
  <2> QED  BY <1>2, <2>1 DEF Copies
<1> QED  BY <1>1, <1>2, <1>3, <1>4 DEF Copies

\* handleUpdateEvent goes on with a copy from eventCh, which is as good as any.
LEMMA HandleUpdateEventInv == StsInv /\ HandleUpdateEvent => StsInv'
<1> SUFFICES ASSUME StsInv, HandleUpdateEvent PROVE StsInv'  OBVIOUS
<1> DEFINE ev == Head(eventCh)
           q  == Tail(eventCh)
<1>1. /\ TypeOK /\ sts # <<>> /\ eventCh # <<>> /\ pc = "run"
      /\ UNCHANGED <<pods, sts, wanted, changes, known, crashes>>
  BY DEF StsInv, PastSetup, HandleUpdateEvent
<1>2. Copies(eventCh)  BY DEF StsInv, TypeOK, CopiesOK, Copies
<1>3. ev \in Copy /\ CopyOK(ev) /\ Copies(q) /\ Len(q) <= Len(eventCh)
  BY <1>1, <1>2, HeadTail
<1>4. pc' \in {"run", "failing", "patch"}  BY <1>1 DEF HandleUpdateEvent
<1>5. Placed(pc')  BY <1>1, <1>4 DEF Placed, PCs
<1>6. \/ /\ rss' = ev /\ eventCh' = q /\ UNCHANGED <<cr, watch, status>>
         /\ UNCHANGED faults \/ Fault("sts")
      \/ \E p \in {"Paused", "Running"}, ok \in BOOLEAN, v \in Views :
            updateCRStatus(ev, q, [SetPhase(p) EXCEPT !.view = v], ok)
  BY DEF HandleUpdateEvent
<1> HIDE DEF ev, q
<1>7. CASE /\ rss' = ev /\ eventCh' = q /\ UNCHANGED <<cr, watch, status>>
           /\ UNCHANGED faults \/ Fault("sts")
  <2>1. faults' \in 0..MaxFaults  BY <1>1, <1>7, FaultType DEF TypeOK
  <2>2. Len(q) <= EventCap
    <3>1. Len(q) \in Nat /\ Len(eventCh) \in Nat /\ Len(eventCh) <= EventCap
      BY <1>1, <1>3 DEF TypeOK, Copies
    <3> QED  BY <3>1, <1>3, LifecycleAssumption
  <2>3. TypeOK'  BY <1>1, <1>3, <1>5, <1>7, <2>1, <2>2 DEF TypeOK, Placed, Copies
  <2>4. SpecKept' /\ RunningHasSts'
    BY <1>1, <1>7 DEF StsInv, SpecKept, RunningHasSts
  <2>5. CopiesOK'  BY <1>1, <1>3, <1>7 DEF StsInv, CopiesOK, CopyOK, Copies
  <2>6. PastSetup'  BY <1>1 DEF PastSetup
  <2> QED  BY <2>3, <2>4, <2>5, <2>6 DEF StsInv
<1>8. ASSUME NEW p \in {"Paused", "Running"}, NEW ok \in BOOLEAN, NEW v \in Views,
             updateCRStatus(ev, q, [SetPhase(p) EXCEPT !.view = v], ok)
      PROVE  StsInv'
  <2> DEFINE st == [SetPhase(p) EXCEPT !.view = v]
  <2>1. SetPhase(p) \in ClusterStatus  BY <1>1, SetPhaseType DEF ClusterPhases
  <2>2. st \in ClusterStatus  BY <2>1 DEF ClusterStatus
  <2>3. updateCRStatus(ev, q, st, ok)  BY <1>8
  <2> HIDE DEF st
  <2> QED  BY <1>1, <1>3, <1>5, <2>2, <2>3, ReportedInv
<1> QED  BY <1>6, <1>7, <1>8

\* The informer only moves copies.
LEMMA DeliverInv == StsInv /\ Deliver => StsInv'
<1> SUFFICES ASSUME StsInv, Deliver PROVE StsInv'  OBVIOUS
<1> DEFINE o == Head(watch)
           q == Tail(watch)
<1>1. /\ TypeOK /\ watch # <<>> /\ watch' = q /\ UNCHANGED <<server, budget>>
      /\ Copies(watch) /\ Copies(eventCh)
  BY DEF Deliver, StsInv, TypeOK, CopiesOK, Copies
<1>2. o \in Copy /\ CopyOK(o) /\ Copies(q) /\ Len(q) <= Len(watch)
  BY <1>1, HeadTail
<1>3. \/ UNCHANGED <<known, eventCh, goroutine>>
      \/ /\ ~known /\ known' = TRUE /\ pc' = "setup" /\ rss' = o /\ status' = o.status
         /\ UNCHANGED eventCh
      \/ /\ Len(eventCh) < EventCap /\ eventCh' = Append(eventCh, o)
         /\ UNCHANGED <<known, goroutine>>
  BY DEF Deliver
<1> HIDE DEF o, q
<1>4. watch' \in Seq(Copy) /\ Len(watch') <= WatchCap
  <2>1. Len(q) \in Nat /\ Len(watch) \in Nat /\ Len(watch) <= WatchCap
    BY <1>1, <1>2 DEF TypeOK, Copies
  <2> QED  BY <2>1, <1>1, <1>2, LifecycleAssumption DEF Copies
<1>5. SpecKept' /\ RunningHasSts'
  BY <1>1 DEF server, StsInv, SpecKept, RunningHasSts
<1>6. \A c : CopyOK(c) => /\ c.current => c.spec = cr'.spec
                          /\ c.status.phase \in {"Running", "Paused"} => sts' # <<>>
  BY <1>1 DEF CopyOK, server
<1>7. \A i \in DOMAIN watch' : CopyOK(watch[i])'
  BY <1>1, <1>2, <1>6 DEF Copies, CopyOK
<1>8. CASE UNCHANGED <<known, eventCh, goroutine>>
  <2>1. TypeOK'  BY <1>1, <1>4, <1>8 DEF TypeOK, server, budget, goroutine
  <2>2. CopiesOK'  BY <1>1, <1>7, <1>8 DEF StsInv, CopiesOK, CopyOK, server, goroutine
  <2>3. PastSetup'  BY <1>1, <1>8 DEF StsInv, PastSetup, server, goroutine
  <2> QED  BY <1>5, <2>1, <2>2, <2>3 DEF StsInv
<1>9. CASE /\ ~known /\ known' = TRUE /\ pc' = "setup" /\ rss' = o /\ status' = o.status
           /\ UNCHANGED eventCh
  <2>1. status' \in ClusterStatus  BY <1>2, <1>9 DEF Copy
  <2>2. TypeOK'  BY <1>1, <1>2, <1>4, <1>9, <2>1 DEF TypeOK, server, budget, PCs
  <2>3. CopiesOK'
    BY <1>1, <1>2, <1>6, <1>7, <1>9 DEF StsInv, CopiesOK, CopyOK, server
  <2>4. PastSetup'  BY <1>1, <1>2, <1>9 DEF CopyOK, PastSetup, server
  <2> QED  BY <1>5, <2>2, <2>3, <2>4 DEF StsInv
<1>10. CASE /\ Len(eventCh) < EventCap /\ eventCh' = Append(eventCh, o)
            /\ UNCHANGED <<known, goroutine>>
  <2>1. /\ eventCh \in Seq(Copy) /\ Len(eventCh) \in Nat /\ EventCap \in Nat
        /\ eventCh' \in Seq(Copy) /\ Len(eventCh') = Len(eventCh) + 1
    BY <1>1, <1>2, <1>10, LifecycleAssumption DEF TypeOK
  <2>2. \A i \in 1..Len(eventCh') : eventCh'[i] = IF i <= Len(eventCh) THEN eventCh[i] ELSE o
    BY <2>1, <1>2, <1>10
  <2>3. \A i \in DOMAIN eventCh' : CopyOK(eventCh'[i])
    BY <1>1, <1>2, <2>1, <2>2 DEF Copies
  <2>4. Len(eventCh') <= EventCap  BY <2>1, <1>10
  <2>5. TypeOK'  BY <1>1, <1>4, <1>10, <2>1, <2>4 DEF TypeOK, server, budget, goroutine
  <2>6. CopiesOK'
    BY <1>1, <1>6, <1>7, <1>10, <2>3 DEF StsInv, CopiesOK, CopyOK, server, goroutine
  <2>7. PastSetup'  BY <1>1, <1>10 DEF StsInv, PastSetup, server, goroutine
  <2> QED  BY <1>5, <2>5, <2>6, <2>7 DEF StsInv
<1> QED  BY <1>3, <1>8, <1>9, <1>10

\* A new operator process has nothing but the CR it lists.
LEMMA RestartedInv ==
    ASSUME StsInv, Restarted, crashes' \in 0..MaxCrashes
    PROVE  StsInv'
<1> DEFINE o == Current(cr.spec, cr.status)
<1>1. /\ TypeOK /\ watch' = <<o>> /\ eventCh' = <<>> /\ known' = FALSE /\ pc' = "none"
      /\ status' = cr.status /\ UNCHANGED <<server, faults>>
  BY DEF StsInv, Restarted
<1>2. cr.spec \in Specs /\ cr.status \in ClusterStatus  BY <1>1 DEF TypeOK
<1>3. o \in Copy /\ o.spec = cr.spec /\ o.status = cr.status  BY <1>2, CurrentType
<1> HIDE DEF o
<1>4. rss' = o  BY <1>1 DEF Restarted
<1>5. o.spec = cr'.spec /\ (o.status.phase \in {"Running", "Paused"} => sts' # <<>>)
  BY <1>1, <1>3 DEF StsInv, RunningHasSts, server
<1>6. TypeOK'
  <2>1. watch' \in Seq(Copy) /\ Len(watch') <= WatchCap
    BY <1>1, <1>3, LifecycleAssumption
  <2>2. eventCh' \in Seq(Copy) /\ Len(eventCh') <= EventCap
    BY <1>1, LifecycleAssumption
  <2> QED  BY <1>1, <1>2, <1>3, <1>4, <2>1, <2>2 DEF TypeOK, server, PCs
<1>7. CopiesOK'
  <2>1. CopyOK(rss)' /\ \A i \in DOMAIN watch' : CopyOK(watch[i])'
    <3>1. DOMAIN watch' = {1} /\ watch'[1] = o  BY <1>1
    <3>2. CopyOK(rss)'  BY <1>4, <1>5 DEF CopyOK
    <3>3. CopyOK(watch[1])'  BY <3>1, <1>5 DEF CopyOK
    <3> QED  BY <3>1, <3>2, <3>3
  <2> QED  BY <1>1, <2>1 DEF CopiesOK
<1>8. PastSetup'  BY <1>1 DEF PastSetup, StsInv, RunningHasSts, server
<1>9. SpecKept' /\ RunningHasSts'
  BY <1>1 DEF server, StsInv, SpecKept, RunningHasSts
<1> QED  BY <1>6, <1>7, <1>8, <1>9 DEF StsInv

\* The operator dies at any point.
LEMMA CrashInv == StsInv /\ (Crash \/ PanicTimer) => StsInv'
<1> SUFFICES ASSUME StsInv, Crash \/ PanicTimer PROVE StsInv'  OBVIOUS
<1>1. crashes' \in 0..MaxCrashes
  BY LifecycleAssumption DEF StsInv, TypeOK, Crash, PanicTimer
<1> QED  BY <1>1, RestartedInv DEF Crash, PanicTimer

\* An edit makes every copy the operator has outdated.
LEMMA ChangeSpecInv == StsInv /\ ChangeSpec => StsInv'
<1> SUFFICES ASSUME StsInv, ChangeSpec PROVE StsInv'  OBVIOUS
<1>1. TypeOK  BY DEF StsInv
<1>2. PICK s \in Specs : /\ wanted' = s /\ cr' = [cr EXCEPT !.spec = s]
                         /\ Stored(Current(s, cr.status))
  BY DEF ChangeSpec
<1> DEFINE o == Current(s, cr.status)
<1>3. cr.status \in ClusterStatus  BY <1>1 DEF TypeOK
<1>4. o \in Copy /\ o.spec = s /\ o.status = cr.status  BY <1>3, CurrentType
<1>5. /\ cr' \in [spec : Specs, status : ClusterStatus]
      /\ cr'.spec = s /\ cr'.status = cr.status
  BY <1>1, <1>2 DEF TypeOK
<1>6. /\ rss' = Outdated(rss) /\ eventCh' = AllOutdated(eventCh)
      /\ UNCHANGED <<pods, sts, known, pc, status, crashes, faults>>
      /\ changes' \in 0..MaxChanges
  <2>1. /\ rss' = Outdated(rss) /\ eventCh' = AllOutdated(eventCh)
        /\ UNCHANGED <<pods, sts, known, pc, status, budget>>
        /\ changes < MaxChanges /\ changes' = changes + 1
    BY DEF ChangeSpec
  <2>2. changes \in 0..MaxChanges /\ MaxChanges \in Nat
    BY <1>1, LifecycleAssumption DEF TypeOK
  <2>3. changes' \in 0..MaxChanges  BY <2>1, <2>2
  <2> QED  BY <2>1, <2>3 DEF budget
<1>7. rss' \in Copy /\ ~rss'.current /\ rss'.status = rss.status
  BY <1>1, <1>6, OutdatedType DEF TypeOK
<1>8. /\ eventCh' \in Seq(Copy) /\ Len(eventCh') = Len(eventCh) /\ DOMAIN eventCh' = DOMAIN eventCh
      /\ \A i \in DOMAIN eventCh : /\ ~eventCh'[i].current
                                   /\ eventCh'[i].status = eventCh[i].status
  BY <1>1, <1>6, AllOutdatedType DEF TypeOK
<1>9. Stored(o)  BY <1>2
<1> HIDE DEF o
<1>10. /\ watch' \in Seq(Copy) /\ Len(watch') <= WatchCap
       /\ \A i \in DOMAIN watch' :
             \/ watch'[i] = o
             \/ /\ i \in DOMAIN watch /\ ~watch'[i].current
                /\ watch'[i].status = watch[i].status
  BY <1>1, <1>4, <1>9, StoredType DEF TypeOK
<1>11. TypeOK'
  BY <1>1, <1>2, <1>5, <1>6, <1>7, <1>8, <1>10 DEF TypeOK
<1>12. SpecKept' /\ RunningHasSts'
  BY <1>2, <1>5, <1>6 DEF StsInv, SpecKept, RunningHasSts
<1>13. CopiesOK'
  <2>1. CopyOK(rss)'  BY <1>6, <1>7 DEF CopyOK, StsInv, CopiesOK
  <2>2. \A i \in DOMAIN watch' : CopyOK(watch[i])'
    BY <1>4, <1>5, <1>6, <1>10 DEF CopyOK, StsInv, CopiesOK, RunningHasSts
  <2>3. \A i \in DOMAIN eventCh' : CopyOK(eventCh[i])'
    BY <1>6, <1>8 DEF CopyOK, StsInv, CopiesOK
  <2> QED  BY <2>1, <2>2, <2>3 DEF CopiesOK
<1>14. PastSetup'  BY <1>6 DEF StsInv, PastSetup
<1> QED  BY <1>11, <1>12, <1>13, <1>14 DEF StsInv

\* The StatefulSet controller and dying Pods change only the number of Pods.
LEMMA PodsInv == StsInv /\ (PodStep \/ PodDies) => StsInv'
<1> SUFFICES ASSUME StsInv, PodStep \/ PodDies PROVE StsInv'  OBVIOUS
<1>1. TypeOK  BY DEF StsInv
<1>2. /\ UNCHANGED <<cr, sts, wanted, changes, watch, known, eventCh, rss, status, pc, crashes>>
      /\ UNCHANGED faults \/ Fault("podDies")
  BY DEF PodStep, PodDies, goroutine, budget
<1>3. faults' \in 0..MaxFaults  BY <1>1, <1>2, FaultType DEF TypeOK
<1>4. pods' \in Nat
  <2>1. CASE PodStep
    <3>1. sts[1] \in Nat  BY <1>1, <2>1 DEF TypeOK, PodStep, NumReplicas
    <3> QED  BY <1>1, <2>1, <3>1 DEF TypeOK, PodStep
  <2>2. CASE PodDies  BY <1>1, <2>2 DEF TypeOK, PodDies
  <2> QED  BY <2>1, <2>2
<1> QED  BY <1>1, <1>2, <1>3, <1>4, QuietInv DEF TypeOK

\* The invariant holds when the operator starts, with or without a cluster.
LEMMA InitInv == Init => StsInv
<1> SUFFICES ASSUME Init PROVE StsInv  OBVIOUS
<1>1. PICK s \in Specs :
        /\ cr = [spec |-> s,
                 status |-> IF Established THEN [NewStatus EXCEPT !.phase = "Running"]
                            ELSE NewStatus]
        /\ sts = IF Established THEN <<GetNumReplicas(s.replicas)>> ELSE <<>>
        /\ pods = IF Established THEN sts[1] ELSE 0
        /\ watch = IF Established THEN <<>> ELSE <<Current(s, cr.status)>>
        /\ known = Established /\ eventCh = <<>>
        /\ pc = IF Established THEN "run" ELSE "none"
        /\ rss = Current(s, cr.status) /\ status = cr.status
        /\ wanted = s /\ changes = 0 /\ crashes = 0 /\ faults = 0
  BY DEF Init
<1>2. /\ cr \in [spec : Specs, status : ClusterStatus] /\ cr.spec = s
      /\ cr.status \in ClusterStatus
      /\ cr.status.phase = IF Established THEN "Running" ELSE "None"
  <2>1. [NewStatus EXCEPT !.phase = "Running"].phase = "Running"  BY DEF NewStatus
  <2> QED  BY <1>1, <2>1, NewStatusType
<1>3. rss \in Copy /\ rss.spec = s /\ rss.status = cr.status
  BY <1>1, <1>2, CurrentType
<1>4. /\ sts \in Seq(NumReplicas) /\ Len(sts) <= 1 /\ pods \in Nat
      /\ sts = <<>> <=> ~Established
  <2>1. GetNumReplicas(s.replicas) \in NumReplicas  BY ReplicasType
  <2>2. GetNumReplicas(s.replicas) \in Nat  BY <2>1 DEF NumReplicas
  <2> QED  BY <1>1, <2>1, <2>2, LifecycleAssumption
<1>5. /\ watch \in Seq(Copy) /\ Len(watch) <= WatchCap
      /\ eventCh \in Seq(Copy) /\ Len(eventCh) <= EventCap /\ DOMAIN eventCh = {}
      /\ \A i \in DOMAIN watch : watch[i] = rss
  BY <1>1, <1>3, LifecycleAssumption
<1>6. TypeOK
  BY <1>1, <1>2, <1>3, <1>4, <1>5, LifecycleAssumption DEF TypeOK, PCs
<1>7. SpecKept /\ RunningHasSts  BY <1>1, <1>2, <1>4 DEF SpecKept, RunningHasSts
<1>8. CopiesOK  BY <1>2, <1>3, <1>4, <1>5 DEF CopiesOK, CopyOK
<1>9. PastSetup  BY <1>1, <1>2, <1>4 DEF PastSetup
<1> QED  BY <1>6, <1>7, <1>8, <1>9 DEF StsInv

\* Every step of the operator, its environment and the users keeps it.
LEMMA NextInv == StsInv /\ [Next]_vars => StsInv'
<1> SUFFICES ASSUME StsInv, [Next]_vars PROVE StsInv'  OBVIOUS
<1>1. CASE UNCHANGED vars
  BY <1>1 DEF vars, server, goroutine, budget, StsInv, TypeOK, SpecKept,
              RunningHasSts, CopiesOK, CopyOK, PastSetup
<1>2. CASE Goroutine
  BY <1>2, SetupInv, CreateInv, SetupFailedInv, StartInv, RecordReplicasInv,
     ReportMembersInv, HandleUpdateEventInv, PatchStsInv, ReportFailedStatusInv
  DEF Goroutine
<1> QED
  BY <1>1, <1>2, TimerInv, DeliverInv, CrashInv, ChangeSpecInv, PodsInv DEF Next

\* Whatever the interleaving of edits, crashes, delayed watch events and failed
\* calls, the inductive invariant holds.
THEOREM StsInvAlways == Spec => []StsInv
BY InitInv, NextInv, PTL DEF Spec

\* The status updates of the operator never overwrite a user's spec.
THEOREM SpecKeptAlways == Spec => []SpecKept
<1>1. StsInv => SpecKept  BY DEF StsInv
<1> QED  BY <1>1, StsInvAlways, PTL

\* A CR never says Running or Paused of a cluster without a StatefulSet, however
\* often the operator dies on the way there.
THEOREM RunningHasStsAlways == Spec => []RunningHasSts
<1>1. StsInv => RunningHasSts  BY DEF StsInv
<1> QED  BY <1>1, StsInvAlways, PTL

----------------------------------------------------------------------------
\* What every step has to show for FailedIsFinal: nobody is left who could revive
\* a failed cluster, and this step has not done so.
FailedStep == FailedInv' /\ (cr.status.phase = "Failed" => cr'.status.phase = "Failed")

\* updateCRStatus writes from a current copy only, and there is none of a failed
\* cluster; the write that says Failed is the last of its goroutine.
LEMMA UpdateFailed ==
    ASSUME TypeOK, FailedInv, NEW o \in Copy, NEW q \in Seq(Copy),
           o.current => cr.status.phase # "Failed",
           \A i \in DOMAIN q : q[i].current => cr.status.phase # "Failed",
           NEW st \in ClusterStatus, NEW ok \in BOOLEAN, updateCRStatus(o, q, st, ok),
           st.phase = "Failed" => pc' = "exited" \/ (pc' = "failing" /\ ~ok)
    PROVE  FailedStep
<1>0. status' = st  BY DEF updateCRStatus
<1>1. CASE rss' = o /\ eventCh' = q /\ UNCHANGED <<cr, watch>>
  BY <1>0, <1>1 DEF FailedStep, FailedInv
<1>2. CASE /\ ok /\ o.current /\ cr' = [spec |-> o.spec, status |-> st]
           /\ rss' = Current(o.spec, st) /\ Stored(rss') /\ eventCh' = AllOutdated(q)
  <2>1. o.spec \in Specs  BY DEF Copy
  <2>2. rss' \in Copy /\ rss'.status = st  BY <1>2, <2>1, CurrentType
  <2>3. cr'.status = st  BY <1>2
  <2>4. \A i \in DOMAIN watch' : watch'[i].current => watch'[i].status = cr'.status
    BY <1>2, <2>2, <2>3, StoredType DEF TypeOK
  <2>5. \A i \in DOMAIN eventCh' : ~eventCh'[i].current
    BY <1>2, AllOutdatedType
  <2> QED  BY <1>0, <1>2, <2>3, <2>4, <2>5 DEF FailedStep, FailedInv
<1>3. CASE rss' = [o EXCEPT !.status = st] /\ eventCh' = q /\ UNCHANGED <<cr, watch>>
  <2>1. rss'.current = o.current  BY <1>3, WithStatusType
  <2> QED  BY <1>0, <1>3, <2>1 DEF FailedStep, FailedInv
<1> QED  BY <1>1, <1>2, <1>3 DEF updateCRStatus

\* The same for the copy and the queue the goroutine already has.
LEMMA ReportFailed ==
    ASSUME TypeOK, FailedInv, pc \notin {"none", "exited"},
           NEW st \in ClusterStatus, NEW ok \in BOOLEAN,
           updateCRStatus(rss, eventCh, st, ok),
           st.phase = "Failed" => pc' = "exited" \/ (pc' = "failing" /\ ~ok)
    PROVE  FailedStep
<1>1. /\ rss \in Copy /\ eventCh \in Seq(Copy)
      /\ rss.current => cr.status.phase # "Failed"
      /\ \A i \in DOMAIN eventCh : eventCh[i].current => cr.status.phase # "Failed"
  BY DEF TypeOK, FailedInv
<1> QED  BY <1>1, UpdateFailed

\* A step that leaves the CR and all its copies alone revives nothing, as long as
\* it gives no ended goroutine a new life.
LEMMA QuietFailed ==
    ASSUME FailedInv, UNCHANGED <<cr, watch, eventCh, rss>>, status'.phase = status.phase,
           pc' = pc \/ pc \notin {"none", "exited", "failing"}
    PROVE  FailedStep
BY DEF FailedStep, FailedInv

\* The steps of the goroutine: only a failed setup and reportFailedStatus write
\* Failed, and both end the goroutine with it.
LEMMA GoroutineFailed == StsInv /\ FailedInv /\ (Goroutine \/ Timer) => FailedStep
<1> SUFFICES ASSUME StsInv, FailedInv, Goroutine \/ Timer PROVE FailedStep  OBVIOUS
<1>1. TypeOK /\ status \in ClusterStatus  BY DEF StsInv, TypeOK
<1>2. \A p \in ClusterPhases : SetPhase(p) \in ClusterStatus /\ SetPhase(p).phase = p
  BY <1>1, SetPhaseType
<1>3. CASE Setup
  <2>1. SetPhase("Creating") \in ClusterStatus /\ SetPhase("Creating").phase # "Failed"
    BY <1>2 DEF ClusterPhases
  <2> QED  BY <1>1, <1>3, <2>1, ReportFailed, QuietFailed DEF Setup
<1>4. CASE Create  BY <1>4, QuietFailed DEF Create
<1>5. CASE SetupFailed
  <2>1. SetPhase("Failed") \in ClusterStatus  BY <1>2 DEF ClusterPhases
  <2> QED  BY <1>1, <1>5, <2>1, ReportFailed DEF SetupFailed, Report
<1>6. CASE Start
  <2>1. SetPhase("Running") \in ClusterStatus /\ SetPhase("Running").phase # "Failed"
    BY <1>2 DEF ClusterPhases
  <2> QED  BY <1>1, <1>6, <2>1, ReportFailed DEF Start, Report
<1>7. CASE PatchSts  BY <1>7, QuietFailed DEF PatchSts
<1>8. CASE ReportFailedStatus
  <2>1. SetPhase("Failed") \in ClusterStatus  BY <1>2 DEF ClusterPhases
  <2> QED  BY <1>1, <1>8, <2>1, ReportFailed, Zenon DEF ReportFailedStatus
<1>9. CASE Timer
  <2>1. ASSUME NEW b \in BOOLEAN, status' = [status EXCEPT !.controlPaused = b],
               UNCHANGED <<cr, watch, eventCh, pc, rss>>
        PROVE  FailedStep
    <3>1. status'.phase = status.phase  BY <1>1, <2>1 DEF ClusterStatus
    <3> QED  BY <2>1, <3>1, QuietFailed
  <2>2. ASSUME NEW v \in Views, NEW ok \in BOOLEAN,
               updateCRStatus(rss, eventCh, [status EXCEPT !.controlPaused = FALSE, !.view = v], ok)
        PROVE  FailedStep
    <3> DEFINE st == [status EXCEPT !.controlPaused = FALSE, !.view = v]
    <3>1. st \in ClusterStatus /\ st.phase = status.phase  BY <1>1 DEF ClusterStatus
    <3>2. updateCRStatus(rss, eventCh, st, ok)  BY <2>2
    <3> HIDE DEF st
    <3>3. status.phase # "Failed" /\ pc \notin {"none", "exited"}
      BY <1>9 DEF FailedInv, Timer
    <3> QED  BY <1>1, <3>1, <3>2, <3>3, ReportFailed
  <2> QED  BY <1>9, <2>1, <2>2 DEF Timer, Report
<1>10. CASE RecordReplicas
  <2> DEFINE st == [status EXCEPT !.restore = GetNumReplicas(rss.spec.replicas)]
  <2>1. GetNumReplicas(rss.spec.replicas) \in Nat
    <3>1. rss.spec \in Specs  BY <1>1 DEF TypeOK, Copy
    <3> QED  BY <3>1, ReplicasType DEF NumReplicas
  <2>2. st \in ClusterStatus /\ st.phase = status.phase
    BY <1>1, <2>1 DEF ClusterStatus
  <2>3. PICK ok \in BOOLEAN : updateCRStatus(rss, eventCh, st, ok)
    BY <1>10 DEF RecordReplicas, Report
  <2> HIDE DEF st
  <2>4. status.phase # "Failed" /\ pc \notin {"none", "exited"}
    BY <1>10 DEF FailedInv, RecordReplicas
  <2> QED  BY <1>1, <2>2, <2>3, <2>4, ReportFailed
<1>11. CASE ReportMembers
  <2>1. PICK v \in Views, ok \in BOOLEAN :
           updateCRStatus(rss, eventCh, [status EXCEPT !.view = v], ok)
    BY <1>11 DEF ReportMembers, Report
  <2> DEFINE st == [status EXCEPT !.view = v]
  <2>2. st \in ClusterStatus /\ st.phase = status.phase  BY <1>1 DEF ClusterStatus
  <2>3. updateCRStatus(rss, eventCh, st, ok)  BY <2>1
  <2> HIDE DEF st
  <2>4. status.phase # "Failed" /\ pc \notin {"none", "exited"}
    BY <1>11 DEF FailedInv, ReportMembers
  <2> QED  BY <1>1, <2>2, <2>3, <2>4, ReportFailed
<1>12. CASE HandleUpdateEvent
  <2> DEFINE ev == Head(eventCh)
             q  == Tail(eventCh)
  <2>1. /\ eventCh \in Seq(Copy) /\ eventCh # <<>> /\ pc = "run"
        /\ status.phase # "Failed"
    BY <1>1, <1>12 DEF TypeOK, HandleUpdateEvent, FailedInv
  <2>2. /\ ev = eventCh[1] /\ 1 \in DOMAIN eventCh /\ ev \in Copy /\ q \in Seq(Copy)
        /\ \A i \in DOMAIN q : i + 1 \in DOMAIN eventCh /\ q[i] = eventCh[i + 1]
    BY <2>1
  <2>3. \/ rss' = ev /\ eventCh' = q /\ UNCHANGED <<cr, watch, status>>
        \/ \E p \in {"Paused", "Running"}, ok \in BOOLEAN, v \in Views :
              updateCRStatus(ev, q, [SetPhase(p) EXCEPT !.view = v], ok)
    BY <1>12 DEF HandleUpdateEvent
  <2> HIDE DEF ev, q
  <2>4. /\ ev.current => cr.status.phase # "Failed"
        /\ \A i \in DOMAIN q : q[i].current => cr.status.phase # "Failed"
    BY <2>2 DEF FailedInv
  <2>5. CASE rss' = ev /\ eventCh' = q /\ UNCHANGED <<cr, watch, status>>
    BY <2>1, <2>4, <2>5 DEF FailedStep, FailedInv
  <2>6. ASSUME NEW p \in {"Paused", "Running"}, NEW ok \in BOOLEAN, NEW v \in Views,
               updateCRStatus(ev, q, [SetPhase(p) EXCEPT !.view = v], ok)
        PROVE  FailedStep
    <3> DEFINE st == [SetPhase(p) EXCEPT !.view = v]
    <3>1. SetPhase(p) \in ClusterStatus /\ SetPhase(p).phase = p
      BY <1>2 DEF ClusterPhases
    <3>2. st \in ClusterStatus /\ st.phase # "Failed"  BY <3>1 DEF ClusterStatus
    <3>3. updateCRStatus(ev, q, st, ok)  BY <2>6
    <3> HIDE DEF st
    <3> QED  BY <1>1, <2>2, <2>4, <3>2, <3>3, UpdateFailed
  <2> QED  BY <2>3, <2>5, <2>6
<1> QED
  BY <1>3, <1>4, <1>5, <1>6, <1>7, <1>8, <1>9, <1>10, <1>11, <1>12 DEF Goroutine

\* The informer hands on no failed version, and a new process starts from the CR.
LEMMA OthersFailed ==
    ASSUME StsInv, FailedInv,
           Deliver \/ Crash \/ PanicTimer \/ ChangeSpec \/ PodStep \/ PodDies
    PROVE  FailedStep
<1>1. TypeOK  BY DEF StsInv
<1>2. CASE Deliver
  <2> DEFINE o == Head(watch)
             q == Tail(watch)
  <2>1. watch \in Seq(Copy) /\ watch # <<>> /\ watch' = q /\ UNCHANGED cr
    BY <1>1, <1>2 DEF TypeOK, Deliver, server
  <2>2. /\ o = watch[1] /\ 1 \in DOMAIN watch /\ o \in Copy
        /\ \A i \in DOMAIN q : i + 1 \in DOMAIN watch /\ q[i] = watch[i + 1]
    BY <2>1
  <2>3. \/ UNCHANGED <<known, eventCh, goroutine>>
        \/ /\ o.status.phase # "Failed" /\ pc' = "setup" /\ rss' = o
           /\ status' = o.status /\ UNCHANGED eventCh
        \/ /\ o.status.phase # "Failed" /\ eventCh' = Append(eventCh, o)
           /\ UNCHANGED goroutine
    BY <1>2 DEF Deliver
  <2> HIDE DEF o, q
  <2>4. /\ \A i \in DOMAIN watch' : watch'[i].current => watch'[i].status = cr'.status
        /\ o.current => o.status = cr.status
    BY <2>1, <2>2 DEF FailedInv
  <2>5. CASE UNCHANGED <<known, eventCh, goroutine>>
    BY <2>1, <2>4, <2>5 DEF FailedStep, FailedInv, goroutine
  <2>6. CASE /\ o.status.phase # "Failed" /\ pc' = "setup" /\ rss' = o
             /\ status' = o.status /\ UNCHANGED eventCh
    BY <2>1, <2>4, <2>6 DEF FailedStep, FailedInv
  <2>7. CASE /\ o.status.phase # "Failed" /\ eventCh' = Append(eventCh, o)
             /\ UNCHANGED goroutine
    <3>1. eventCh \in Seq(Copy)  BY <1>1 DEF TypeOK
    <3>2. \A i \in DOMAIN eventCh' : \/ i \in DOMAIN eventCh /\ eventCh'[i] = eventCh[i]
                                     \/ eventCh'[i] = o
      BY <2>2, <2>7, <3>1
    <3> QED  BY <2>1, <2>4, <2>7, <3>2 DEF FailedStep, FailedInv, goroutine
  <2> QED  BY <2>3, <2>5, <2>6, <2>7
<1>3. CASE Crash \/ PanicTimer
  <2>1. Restarted  BY <1>3 DEF Crash, PanicTimer
  <2>2. watch' = <<Current(cr.spec, cr.status)>> /\ eventCh' = <<>> /\ pc' = "none" /\ cr' = cr
    BY <2>1 DEF Restarted, server
  <2>3. Current(cr.spec, cr.status).status = cr.status  BY DEF Current
  <2>4. DOMAIN watch' = {1} /\ watch'[1].status = cr.status /\ DOMAIN eventCh' = {}
    BY <2>2, <2>3
  <2> QED  BY <2>2, <2>4 DEF FailedStep, FailedInv
<1>4. CASE ChangeSpec
  <2>1. PICK s \in Specs : cr' = [cr EXCEPT !.spec = s] /\ Stored(Current(s, cr.status))
    BY <1>4 DEF ChangeSpec
  <2>2. cr.status \in ClusterStatus /\ cr'.status = cr.status  BY <1>1, <2>1 DEF TypeOK
  <2> DEFINE o == Current(s, cr.status)
  <2>3. o \in Copy /\ o.status = cr.status  BY <2>2, CurrentType
  <2>4. Stored(o)  BY <2>1
  <2> HIDE DEF o
  <2>5. \A i \in DOMAIN watch' : watch'[i] = o \/ ~watch'[i].current
    BY <1>1, <2>3, <2>4, StoredType DEF TypeOK
  <2>6. ~rss'.current  BY <1>1, <1>4, OutdatedType DEF TypeOK, ChangeSpec
  <2>7. \A i \in DOMAIN eventCh' : ~eventCh'[i].current
    BY <1>1, <1>4, AllOutdatedType DEF TypeOK, ChangeSpec
  <2>8. UNCHANGED <<pc, status>>  BY <1>4 DEF ChangeSpec
  <2> QED  BY <2>2, <2>3, <2>5, <2>6, <2>7, <2>8 DEF FailedStep, FailedInv
<1>5. CASE PodStep \/ PodDies
  <2>1. UNCHANGED <<cr, watch, eventCh, rss, pc, status>>
    BY <1>5 DEF PodStep, PodDies, goroutine
  <2> QED  BY <2>1, QuietFailed
<1> QED  BY <1>2, <1>3, <1>4, <1>5

\* No interleaving of goroutines, edits, delayed events, lost writes and restarts
\* revives a failed cluster.
THEOREM FailedIsFinalAlways == Spec => []FailedInv /\ FailedIsFinal
<1>1. Init => FailedInv
  <2> SUFFICES ASSUME Init PROVE FailedInv  OBVIOUS
  <2>1. cr.status.phase # "Failed" /\ status = cr.status /\ eventCh = <<>>
    BY DEF Init, NewStatus
  <2>2. \A i \in DOMAIN watch : watch[i].status = cr.status  BY DEF Init, Current
  <2> QED  BY <2>1, <2>2 DEF FailedInv
<1>2. StsInv /\ FailedInv /\ [Next]_vars => FailedStep
  <2>1. FailedInv /\ UNCHANGED vars => FailedStep
    BY QuietFailed DEF vars, server, goroutine
  <2> QED  BY <2>1, GoroutineFailed, OthersFailed DEF Next
<1>3. StsInv /\ FailedInv /\ [Next]_vars => FailedInv'  BY <1>2 DEF FailedStep
<1>4. StsInv /\ FailedInv /\ [Next]_vars
        => [cr.status.phase = "Failed" => cr'.status.phase = "Failed"]_vars
  BY <1>2 DEF FailedStep
<1> QED  BY <1>1, <1>3, <1>4, StsInvAlways, PTL DEF Spec, FailedIsFinal

----------------------------------------------------------------------------
\* Where a round or a patch is under way.
Running == {"run", "record", "reconcile", "again", "patch"}

\* A report during a round keeps the phase, and with it the pause.
LEMMA ReportPaused ==
    ASSUME PausedInv, NEW st, NEW ok, updateCRStatus(rss, eventCh, st, ok),
           sts' = sts, st.phase = status.phase, pc \in Running, pc' \in Running \ {"patch"}
    PROVE  PausedInv'
<1>1. status' = st  BY DEF updateCRStatus
<1> QED  BY <1>1 DEF PausedInv, Running

\* While the goroutine considers the cluster paused, its StatefulSet keeps size 0.
LEMMA GoroutinePaused == StsInv /\ PausedInv /\ (Goroutine \/ Timer) => PausedInv'
<1> SUFFICES ASSUME StsInv, PausedInv, Goroutine \/ Timer PROVE PausedInv'  OBVIOUS
<1> USE DEF Running
<1>1. TypeOK /\ status \in ClusterStatus  BY DEF StsInv, TypeOK
<1>2. \A p \in ClusterPhases : SetPhase(p) \in ClusterStatus /\ SetPhase(p).phase = p
  BY <1>1, SetPhaseType
<1>3. CASE Setup \/ Create \/ SetupFailed \/ ReportFailedStatus
  BY <1>3 DEF Setup, Create, SetupFailed, ReportFailedStatus, PausedInv
<1>4. CASE Start
  <2>1. status' = SetPhase("Running")  BY <1>4 DEF Start, Report, updateCRStatus
  <2>2. status'.phase = "Running"  BY <1>2, <2>1 DEF ClusterPhases
  <2> QED  BY <2>2 DEF PausedInv
<1>5. CASE PatchSts
  <2>1. status' = status /\ pc = "patch"  BY <1>5 DEF PatchSts
  <2>2. CASE sts' = <<GetNumReplicas(rss.spec.replicas)>> /\ pc' = "run"
    BY <2>1, <2>2 DEF PausedInv
  <2>3. CASE pc' = "failing"  BY <2>3 DEF PausedInv
  <2> QED  BY <1>5, <2>2, <2>3 DEF PatchSts
<1>6. CASE Timer
  <2>1. status'.phase = status.phase
    <3>1. ASSUME NEW b \in BOOLEAN, status' = [status EXCEPT !.controlPaused = b]
          PROVE  status'.phase = status.phase
      BY <1>1, <3>1 DEF ClusterStatus
    <3>2. ASSUME NEW v \in Views,
                 status' = [status EXCEPT !.controlPaused = FALSE, !.view = v]
          PROVE  status'.phase = status.phase
      BY <1>1, <3>2, Zenon DEF ClusterStatus
    <3> QED  BY <1>6, <3>1, <3>2 DEF Timer, Report, updateCRStatus
  <2>2. pc = "run" /\ pc' \in {"run", "record", "reconcile"} /\ sts' = sts
    BY <1>6 DEF Timer
  <2> QED  BY <2>1, <2>2, Zenon DEF PausedInv
<1>7. CASE RecordReplicas
  <2> DEFINE st == [status EXCEPT !.restore = GetNumReplicas(rss.spec.replicas)]
  <2>1. st.phase = status.phase  BY <1>1 DEF ClusterStatus
  <2>2. PICK ok \in BOOLEAN : updateCRStatus(rss, eventCh, st, ok)
    BY <1>7 DEF RecordReplicas, Report
  <2> HIDE DEF st
  <2> QED  BY <1>7, <2>1, <2>2, ReportPaused DEF RecordReplicas
<1>8. CASE ReportMembers
  <2>1. PICK v \in Views, ok \in BOOLEAN :
           updateCRStatus(rss, eventCh, [status EXCEPT !.view = v], ok)
    BY <1>8 DEF ReportMembers, Report
  <2> DEFINE st == [status EXCEPT !.view = v]
  <2>2. st.phase = status.phase  BY <1>1 DEF ClusterStatus
  <2>3. updateCRStatus(rss, eventCh, st, ok)  BY <2>1
  <2> HIDE DEF st
  <2> QED  BY <1>8, <2>2, <2>3, ReportPaused DEF ReportMembers
<1>9. CASE HandleUpdateEvent
  <2> DEFINE ev   == Head(eventCh)
             size == GetNumReplicas(ev.spec.replicas)
  <2>1. pc = "run" /\ sts' = sts  BY <1>9 DEF HandleUpdateEvent
  <2>2. \/ status' = status /\ pc' \in {"run", "failing"}
        \/ /\ \E v \in Views : status' = [SetPhase("Paused") EXCEPT !.view = v]
           /\ sts = <<0>> /\ pc' = "run"
        \/ /\ \E v \in Views : status' = [SetPhase("Running") EXCEPT !.view = v]
           /\ pc' = "patch"
        \/ /\ ~(sts # <<size>> /\ status.phase = "Paused")
           /\ status' = status /\ rss' = ev /\ pc' = "patch"
    BY <1>9 DEF HandleUpdateEvent, updateCRStatus
  <2> HIDE DEF ev
  <2>3. CASE status' = status /\ pc' \in {"run", "failing"}
    BY <2>1, <2>3 DEF PausedInv
  <2>4. CASE sts = <<0>> /\ pc' = "run"  BY <2>1, <2>4 DEF PausedInv
  <2>5. CASE \E v \in Views : status' = [SetPhase("Running") EXCEPT !.view = v]
    <3>1. SetPhase("Running") \in ClusterStatus /\ SetPhase("Running").phase = "Running"
      BY <1>2 DEF ClusterPhases
    <3>2. status'.phase = "Running"  BY <2>5, <3>1 DEF ClusterStatus
    <3> QED  BY <3>2 DEF PausedInv
  <2>6. CASE /\ ~(sts # <<size>> /\ status.phase = "Paused")
             /\ status' = status /\ rss' = ev /\ pc' = "patch"
    BY <2>1, <2>6 DEF PausedInv
  <2> QED  BY <2>2, <2>3, <2>4, <2>5, <2>6
<1> QED
  BY <1>3, <1>4, <1>5, <1>6, <1>7, <1>8, <1>9 DEF Goroutine

\* Nobody but the goroutine changes the size.
LEMMA OthersPaused ==
    ASSUME StsInv, PausedInv,
           Deliver \/ Crash \/ PanicTimer \/ ChangeSpec \/ PodStep \/ PodDies
    PROVE  PausedInv'
<1>1. CASE Deliver
  <2>1. \/ UNCHANGED <<pc, rss, status, sts>>
        \/ pc' = "setup"
    BY <1>1 DEF Deliver, goroutine, server
  <2> QED  BY <2>1 DEF PausedInv
<1>2. CASE Crash \/ PanicTimer
  BY <1>2 DEF Crash, PanicTimer, Restarted, PausedInv
<1>3. CASE ChangeSpec
  <2>1. UNCHANGED <<pc, status, sts>> /\ rss'.spec = rss.spec
    BY <1>3, OutdatedType DEF ChangeSpec, StsInv, TypeOK
  <2> QED  BY <2>1 DEF PausedInv
<1>4. CASE PodStep \/ PodDies
  BY <1>4 DEF PodStep, PodDies, goroutine, PausedInv
<1> QED  BY <1>1, <1>2, <1>3, <1>4

\* The pause of a goroutine and the patch that would end it.
LEMMA PausedInvAlways == Spec => []PausedInv
<1>1. Init => PausedInv
  BY DEF Init, NewStatus, PausedInv
<1>2. StsInv /\ PausedInv /\ [Next]_vars => PausedInv'
  <2>1. PausedInv /\ UNCHANGED vars => PausedInv'
    BY DEF vars, server, goroutine, PausedInv
  <2> QED  BY <2>1, GoroutinePaused, OthersPaused DEF Next
<1> QED  BY <1>1, <1>2, StsInvAlways, PTL DEF Spec

\* A pause that the guard against too few replicas caused keeps the StatefulSet
\* at size 0 until the goroutine itself ends the pause.
THEOREM PausedBlocksAlways == Spec => []PausedBlocks
<1>1. PausedInv => PausedBlocks  BY DEF PausedInv, PausedBlocks
<1> QED  BY <1>1, PausedInvAlways, PTL

\* The inductive invariant of the module holds, whatever the interleaving of
\* edits, crashes, delayed watch events and failed calls.
THEOREM LifecycleInvAlways == Spec => []LifecycleInv
BY StsInvAlways, FailedIsFinalAlways, PausedInvAlways, PTL DEF LifecycleInv

----------------------------------------------------------------------------
\* A version that was just stored is the last one the informer will deliver.
LEMMA StoredLast ==
    ASSUME watch \in Seq(Copy), NEW o \in Copy, Stored(o)
    PROVE  watch' # <<>> /\ watch'[Len(watch')] = o
<1> DEFINE q == AllOutdated(watch)
<1>1. q \in Seq(Copy)  BY AllOutdatedType
<1>2. WatchCap \in Nat \ {0}  BY LifecycleAssumption
<1> HIDE DEF q
<1>3. CASE Len(q) < WatchCap
  <2>1. watch' = Append(q, o)  BY <1>3 DEF Stored, q
  <2> QED  BY <2>1, <1>1
<1>4. CASE ~(Len(q) < WatchCap)
  <2>1. watch' = [q EXCEPT ![Len(q)] = o]  BY <1>4 DEF Stored, q
  <2>2. Len(q) \in 1..Len(q) /\ q \in [1..Len(q) -> Copy]  BY <1>1, <1>2, <1>4
  <2>3. watch' \in [1..Len(q) -> Copy] /\ watch'[Len(q)] = o  BY <2>1, <2>2
  <2>4. Len(watch') = Len(q)  BY <2>3, <1>1
  <2> QED  BY <2>2, <2>3, <2>4
<1> QED  BY <1>3, <1>4

\* The last copy of a queue is that of its tail, or else its head.
LEMMA LastOfTail ==
    ASSUME NEW q \in Seq(Copy), q # <<>>
    PROVE  q[Len(q)] = IF Tail(q) # <<>> THEN Tail(q)[Len(Tail(q))] ELSE Head(q)
<1> DEFINE t == Tail(q)
           n == Len(q)
<1>1. n \in Nat \ {0}  OBVIOUS
<1>2. t \in Seq(Copy) /\ Len(t) = n - 1 /\ \A i \in 1..(n - 1) : t[i] = q[i + 1]  OBVIOUS
<1>3. Head(q) = q[1]  OBVIOUS
<1> HIDE DEF t, n
<1>4. t = <<>> => n = 1  BY <1>1, <1>2
<1>5. t # <<>> => n - 1 \in 1..(n - 1)  BY <1>1, <1>2
<1>6. t # <<>> => t[Len(t)] = q[n]  BY <1>1, <1>2, <1>5
<1> QED  BY <1>3, <1>4, <1>6 DEF t, n

\* Taking the first event from eventCh into c.rss leaves the newest version.
LEMMA NewestReceived ==
    ASSUME NEW w, NEW e \in Seq(Copy), e # <<>>, NEW r
    PROVE  Newest(w, Tail(e), Head(e)) = Newest(w, e, r)
BY LastOfTail, Zenon DEF Newest

\* So does moving the first version from the informer to eventCh, or to the c.rss
\* of a new goroutine.
LEMMA NewestDelivered ==
    ASSUME NEW w \in Seq(Copy), w # <<>>, NEW e \in Seq(Copy), NEW r
    PROVE  /\ Newest(Tail(w), Append(e, Head(w)), r) = Newest(w, e, r)
           /\ Newest(Tail(w), <<>>, Head(w)) = Newest(w, e, r)
<1>1. ASSUME NEW o \in Copy
      PROVE  Append(e, o) # <<>> /\ Append(e, o)[Len(Append(e, o))] = o
  OBVIOUS
<1>2. Head(w) \in Copy  OBVIOUS
<1> QED  BY <1>1, <1>2, LastOfTail, Zenon DEF Newest

\* updateCRStatus loses no edit: a write puts the newest version last, and
\* without one the queues stay as they are.
LEMMA UpdateEdits ==
    ASSUME TypeOK, EditsKept, FailedStep, known, known' = known,
           NEW o \in Copy, NEW q \in Seq(Copy), NEW st \in ClusterStatus,
           Newest(watch, q, o) = Newest(watch, eventCh, rss),
           NEW ok, updateCRStatus(o, q, st, ok)
    PROVE  EditsKept' /\ rss'.spec = o.spec
<1>1. CASE eventCh' = q /\ UNCHANGED <<cr, watch>> /\ rss'.spec = o.spec
  <2>1. Newest(watch', eventCh', rss') = Newest(watch, q, o)  BY <1>1 DEF Newest
  <2> QED  BY <1>1, <2>1 DEF EditsKept
<1>2. CASE /\ cr' = [spec |-> o.spec, status |-> st]
           /\ rss' = Current(o.spec, st) /\ Stored(rss')
  <2>1. o.spec \in Specs  BY DEF Copy
  <2>2. /\ rss' \in Copy /\ rss'.spec = o.spec /\ rss'.status = st
        /\ cr'.spec = o.spec /\ cr'.status = st
    BY <1>2, <2>1, CurrentType
  <2>3. watch' # <<>> /\ watch'[Len(watch')] = rss'
    BY <1>2, <2>2, StoredLast DEF TypeOK
  <2>4. Newest(watch', eventCh', rss') = cr'.spec  BY <2>2, <2>3 DEF Newest
  <2>5. \A i \in DOMAIN watch' :
           \/ watch'[i] = rss'
           \/ i \in DOMAIN watch /\ watch'[i].status = watch[i].status
    BY <1>2, <2>2, StoredType DEF TypeOK
  <2>6. \A i \in DOMAIN watch' :
           watch'[i].status.phase = "Failed" => cr'.status.phase = "Failed"
    BY <2>2, <2>5 DEF EditsKept, FailedStep
  <2> QED  BY <2>2, <2>4, <2>6 DEF EditsKept
<1>3. CASE rss' = [o EXCEPT !.status = st] /\ eventCh' = q /\ UNCHANGED <<cr, watch>>
  BY <1>1, <1>3, WithStatusType
<1> QED  BY <1>1, <1>2, <1>3 DEF updateCRStatus

\* A report from where the goroutine is.
Reported == \E ok \in BOOLEAN : updateCRStatus(rss, eventCh, status', ok)

\* What a report writes is the status that is in memory afterwards.
LEMMA ReportedStatus ==
    ASSUME NEW st, NEW ok \in BOOLEAN, updateCRStatus(rss, eventCh, st, ok)
    PROVE  Reported
<1>1. status' = st  BY DEF updateCRStatus
<1> QED  BY <1>1 DEF Reported

\* All the goroutine does between two events is to report, or nothing that
\* concerns the CR and its copies.
LEMMA GoroutineReports ==
    ASSUME Goroutine \/ Timer
    PROVE  /\ known' = known /\ pc # "none"
           /\ HandleUpdateEvent \/ Reported \/ UNCHANGED <<cr, watch, eventCh, rss>>
<1>1. CASE Setup  BY <1>1, ReportedStatus DEF Setup
<1>2. CASE Create \/ PatchSts  BY <1>2 DEF Create, PatchSts
<1>3. CASE SetupFailed  BY <1>3, ReportedStatus DEF SetupFailed, Report
<1>4. CASE Start  BY <1>4, ReportedStatus DEF Start, Report
<1>5. CASE RecordReplicas  BY <1>5, ReportedStatus DEF RecordReplicas, Report
<1>6. CASE ReportMembers  BY <1>6, ReportedStatus DEF ReportMembers, Report
<1>7. CASE ReportFailedStatus  BY <1>7, ReportedStatus DEF ReportFailedStatus
<1>8. CASE Timer  BY <1>8, ReportedStatus DEF Timer, Report
<1>9. CASE HandleUpdateEvent  BY <1>9 DEF HandleUpdateEvent
<1> QED
  BY <1>1, <1>2, <1>3, <1>4, <1>5, <1>6, <1>7, <1>8, <1>9 DEF Goroutine
\* No step of the goroutine loses an edit.
LEMMA GoroutineEdits ==
    ASSUME StsInv, StsInv', FailedInv, EditsKept, Goroutine \/ Timer
    PROVE  EditsKept'
<1>1. FailedStep  BY GoroutineFailed
<1>2. /\ TypeOK /\ known /\ known' = known
      /\ rss \in Copy /\ eventCh \in Seq(Copy) /\ watch \in Seq(Copy)
      /\ status' \in ClusterStatus
  BY GoroutineReports DEF StsInv, TypeOK
<1>3. CASE Reported
  <2>1. PICK ok \in BOOLEAN : updateCRStatus(rss, eventCh, status', ok)  BY <1>3 DEF Reported
  <2> QED  BY <1>1, <1>2, <2>1, UpdateEdits
<1>4. CASE UNCHANGED <<cr, watch, eventCh, rss>>
  BY <1>2, <1>4 DEF EditsKept
<1>5. CASE HandleUpdateEvent
  <2> DEFINE ev == Head(eventCh)
             q  == Tail(eventCh)
  <2>1. eventCh # <<>>  BY <1>5 DEF HandleUpdateEvent
  <2>2. /\ ev \in Copy /\ q \in Seq(Copy)
        /\ Newest(watch, q, ev) = Newest(watch, eventCh, rss)
    BY <1>2, <2>1, NewestReceived
  <2>3. \/ rss' = ev /\ eventCh' = q /\ UNCHANGED <<cr, watch, status>>
        \/ \E p \in {"Paused", "Running"}, ok \in BOOLEAN, v \in Views :
              updateCRStatus(ev, q, [SetPhase(p) EXCEPT !.view = v], ok)
    BY <1>5 DEF HandleUpdateEvent
  <2> HIDE DEF ev, q
  <2>4. CASE rss' = ev /\ eventCh' = q /\ UNCHANGED <<cr, watch, status>>
    BY <1>2, <2>2, <2>4 DEF EditsKept
  <2>5. ASSUME NEW st, NEW ok, updateCRStatus(ev, q, st, ok)
        PROVE  EditsKept'
    <3>1. st \in ClusterStatus  BY <1>2, <2>5 DEF updateCRStatus
    <3> QED  BY <1>1, <1>2, <2>2, <2>5, <3>1, UpdateEdits
  <2> QED  BY <2>3, <2>4, <2>5
<1> QED  BY <1>3, <1>4, <1>5, GoroutineReports

\* Nor does the informer, an edit or a new process.
LEMMA OthersEdits ==
    ASSUME StsInv, FailedInv, EditsKept,
           Deliver \/ Crash \/ PanicTimer \/ ChangeSpec \/ PodStep \/ PodDies
    PROVE  EditsKept'
<1>1. TypeOK /\ watch \in Seq(Copy) /\ eventCh \in Seq(Copy)  BY DEF StsInv, TypeOK
<1>2. CASE Deliver
  <2> DEFINE o == Head(watch)
             q == Tail(watch)
  <2>1. watch # <<>> /\ watch' = q /\ UNCHANGED cr  BY <1>2 DEF Deliver, server
  <2>2. /\ o = watch[1] /\ 1 \in DOMAIN watch /\ q \in Seq(Copy)
        /\ \A i \in DOMAIN q : i + 1 \in DOMAIN watch /\ q[i] = watch[i + 1]
    BY <1>1, <2>1
  <2>3. \/ o.status.phase = "Failed" /\ UNCHANGED <<known, eventCh, goroutine>>
        \/ ~known /\ known' /\ rss' = o /\ UNCHANGED eventCh
        \/ known /\ eventCh' = Append(eventCh, o) /\ UNCHANGED <<known, goroutine>>
    BY <1>2 DEF Deliver
  <2>4. /\ Newest(q, Append(eventCh, o), rss) = Newest(watch, eventCh, rss)
        /\ Newest(q, <<>>, o) = Newest(watch, eventCh, rss)
    BY <1>1, <2>1, NewestDelivered
  <2> HIDE DEF o, q
  <2>5. /\ \A i \in DOMAIN watch' :
              watch'[i].status.phase = "Failed" => cr'.status.phase = "Failed"
        /\ o.status.phase = "Failed" => cr.status.phase = "Failed"
    BY <2>1, <2>2 DEF EditsKept
  <2>6. CASE o.status.phase = "Failed" /\ UNCHANGED <<known, eventCh, goroutine>>
    BY <2>1, <2>5, <2>6 DEF EditsKept
  <2>7. CASE ~known /\ known' /\ rss' = o /\ UNCHANGED eventCh
    BY <2>1, <2>4, <2>5, <2>7 DEF EditsKept
  <2>8. CASE known /\ eventCh' = Append(eventCh, o) /\ UNCHANGED <<known, goroutine>>
    <3>1. rss' = rss /\ known'  BY <2>8 DEF goroutine
    <3> QED  BY <2>1, <2>4, <2>5, <2>8, <3>1 DEF EditsKept
  <2> QED  BY <2>3, <2>6, <2>7, <2>8
<1>3. CASE Crash \/ PanicTimer
  <2> DEFINE o == Current(cr.spec, cr.status)
  <2>1. watch' = <<o>> /\ eventCh' = <<>> /\ cr' = cr
    BY <1>3 DEF Crash, PanicTimer, Restarted, server
  <2>2. o.spec = cr.spec /\ o.status = cr.status  BY DEF Current
  <2> HIDE DEF o
  <2>3. watch' # <<>> /\ watch'[Len(watch')] = o /\ \A i \in DOMAIN watch' : watch'[i] = o
    BY <2>1
  <2>4. Newest(watch', eventCh', rss') = cr'.spec  BY <2>1, <2>2, <2>3 DEF Newest
  <2> QED  BY <2>1, <2>2, <2>3, <2>4 DEF EditsKept
<1>4. CASE ChangeSpec
  <2>1. PICK s \in Specs : cr' = [cr EXCEPT !.spec = s] /\ Stored(Current(s, cr.status))
    BY <1>4 DEF ChangeSpec
  <2>2. cr.status \in ClusterStatus /\ cr'.status = cr.status /\ cr'.spec = s
    BY <1>1, <2>1 DEF TypeOK
  <2> DEFINE o == Current(s, cr.status)
  <2>3. o \in Copy /\ o.status = cr.status /\ o.spec = s  BY <2>2, CurrentType
  <2>4. Stored(o)  BY <2>1
  <2> HIDE DEF o
  <2>5. watch' # <<>> /\ watch'[Len(watch')] = o  BY <1>1, <2>3, <2>4, StoredLast
  <2>6. \A i \in DOMAIN watch' :
           \/ watch'[i] = o
           \/ i \in DOMAIN watch /\ watch'[i].status = watch[i].status
    BY <1>1, <2>3, <2>4, StoredType DEF TypeOK
  <2>7. \A i \in DOMAIN watch' :
           watch'[i].status.phase = "Failed" => cr'.status.phase = "Failed"
    BY <2>2, <2>3, <2>6 DEF EditsKept
  <2>8. Newest(watch', eventCh', rss') = cr'.spec  BY <2>2, <2>3, <2>5 DEF Newest
  <2>9. known' \/ eventCh' = <<>>
    <3>1. known' = known /\ eventCh' = AllOutdated(eventCh)  BY <1>4 DEF ChangeSpec
    <3>2. eventCh = <<>> => eventCh' = <<>>
      <4>1. eventCh' \in Seq(Copy) /\ Len(eventCh') = Len(eventCh)
        BY <1>1, <3>1, AllOutdatedType
      <4> QED  BY <4>1
    <3> QED  BY <3>1, <3>2 DEF EditsKept
  <2> QED  BY <2>7, <2>8, <2>9 DEF EditsKept
<1>5. CASE PodStep \/ PodDies
  <2>1. UNCHANGED <<cr, watch, known, eventCh, rss>>
    BY <1>5 DEF PodStep, PodDies, goroutine
  <2> QED  BY <2>1 DEF EditsKept
<1> QED  BY <1>2, <1>3, <1>4, <1>5

\* Whatever the informer skips, the operator writes, the calls that fail and the
\* processes that die: the last edit of the spec is in c.rss or on its way there.
THEOREM EditsKeptAlways == Spec => []EditsKept
<1>1. Init => EditsKept
  <2> SUFFICES ASSUME Init PROVE EditsKept  OBVIOUS
  <2>1. cr.status.phase # "Failed" /\ eventCh = <<>>  BY DEF Init, NewStatus
  <2>2. /\ watch = <<>> \/ watch = <<rss>>
        /\ rss = Current(cr.spec, cr.status)
    BY DEF Init
  <2>3. rss.spec = cr.spec /\ rss.status = cr.status  BY <2>2 DEF Current
  <2>4. \A i \in DOMAIN watch : watch[i] = rss  BY <2>2
  <2>5. watch # <<>> => watch[Len(watch)] = rss  BY <2>2
  <2>6. Newest(watch, eventCh, rss) = cr.spec  BY <2>1, <2>3, <2>5 DEF Newest
  <2> QED  BY <2>1, <2>3, <2>4, <2>6 DEF EditsKept
<1>2. StsInv /\ FailedInv /\ EditsKept /\ [Next]_vars => EditsKept'
  <2> SUFFICES ASSUME StsInv, FailedInv, EditsKept, [Next]_vars PROVE EditsKept'  OBVIOUS
  <2>1. StsInv'  BY NextInv
  <2>2. CASE UNCHANGED vars  BY <2>2 DEF vars, server, goroutine, EditsKept
  <2> QED  BY <2>1, <2>2, GoroutineEdits, OthersEdits DEF Next
<1> QED  BY <1>1, <1>2, StsInvAlways, FailedIsFinalAlways, PTL DEF Spec
\* What the goroutine does with the size as long as its process goes on.
LEMMA GoroutineSize ==
    ASSUME StsInv, StsInv', SizeApplied, Goroutine \/ Timer
    PROVE  SizeApplied'
<1>1. TypeOK /\ rss \in Copy /\ status \in ClusterStatus /\ status' \in ClusterStatus
  BY DEF StsInv, TypeOK
<1>2. ASSUME NEW o \in Copy, NEW q, NEW st \in ClusterStatus, NEW ok, updateCRStatus(o, q, st, ok)
      PROVE  rss'.spec = o.spec /\ status' = st
  <2>1. status' = st  BY <1>2 DEF updateCRStatus
  <2>2. CASE rss' = o  BY <2>1, <2>2
  <2>3. CASE rss' = Current(o.spec, st)  BY <2>1, <2>3 DEF Current
  <2>4. CASE rss' = [o EXCEPT !.status = st]  BY <2>1, <2>4, WithStatusType
  <2> QED  BY <1>2, <2>2, <2>3, <2>4 DEF updateCRStatus
<1>3. Reported => rss'.spec = rss.spec  BY <1>1, <1>2 DEF Reported
<1>4. CASE Setup
  <2>1. pc = "setup" /\ sts = <<>> /\ sts' = sts  BY <1>4 DEF Setup, SizeApplied
  <2>2. status.phase # "Running"  BY <2>1 DEF StsInv, PastSetup
  <2>3. pc' \in {"create", "setupFailed"}  BY <1>4, <2>2 DEF Setup
  <2> QED  BY <2>1, <2>3 DEF SizeApplied
<1>5. CASE Create
  <2>1. rss' = rss  BY <1>5 DEF Create
  <2>2. CASE sts' = <<GetNumReplicas(rss.spec.replicas)>> /\ pc' = "start"
    BY <2>1, <2>2 DEF SizeApplied
  <2>3. CASE pc' = "setupFailed"  BY <2>3 DEF SizeApplied
  <2> QED  BY <1>5, <2>2, <2>3 DEF Create
<1>6. CASE SetupFailed \/ ReportFailedStatus
  <2>1. pc' \in {"exited", "failing"}  BY <1>6 DEF SetupFailed, ReportFailedStatus
  <2> QED  BY <2>1 DEF SizeApplied
<1>7. CASE Start
  <2>1. Reported /\ pc = "start" /\ pc' = "run" /\ sts' = sts
    BY <1>7, ReportedStatus DEF Start, Report
  <2> QED  BY <1>3, <2>1 DEF SizeApplied
<1>8. CASE PatchSts
  <2>1. rss' = rss  BY <1>8 DEF PatchSts
  <2>2. CASE sts' = <<GetNumReplicas(rss.spec.replicas)>> /\ pc' = "run"
    BY <2>1, <2>2 DEF SizeApplied
  <2>3. CASE pc' = "failing"  BY <2>3 DEF SizeApplied
  <2> QED  BY <1>8, <2>2, <2>3 DEF PatchSts
<1>9. ASSUME pc \in {"run", "record", "reconcile", "again"},
             pc' \in {"run", "record", "reconcile", "again"},
             sts' = sts, rss'.spec = rss.spec, status'.phase = status.phase
      PROVE  SizeApplied'
  BY <1>9 DEF SizeApplied
<1>10. CASE Timer
  <2>1. /\ pc = "run" /\ pc' \in {"run", "record", "reconcile", "again"} /\ sts' = sts
        /\ rss' = rss \/ Reported
    BY <1>10, ReportedStatus DEF Timer, Report
  <2>2. status'.phase = status.phase
    <3>1. ASSUME NEW b \in BOOLEAN, status' = [status EXCEPT !.controlPaused = b]
          PROVE  status'.phase = status.phase
      BY <1>1, <3>1 DEF ClusterStatus
    <3>2. ASSUME NEW v \in Views,
                 status' = [status EXCEPT !.controlPaused = FALSE, !.view = v]
          PROVE  status'.phase = status.phase
      BY <1>1, <3>2, Zenon DEF ClusterStatus
    <3> QED  BY <1>10, <3>1, <3>2 DEF Timer, Report, updateCRStatus
  <2> QED  BY <1>3, <1>9, <2>1, <2>2
<1>11. CASE RecordReplicas
  <2>1. /\ pc = "record" /\ pc' = "reconcile" /\ sts' = sts /\ Reported
        /\ status' = [status EXCEPT !.restore = GetNumReplicas(rss.spec.replicas)]
    BY <1>11, ReportedStatus DEF RecordReplicas, Report, updateCRStatus
  <2>2. status'.phase = status.phase  BY <1>1, <2>1 DEF ClusterStatus
  <2> QED  BY <1>3, <1>9, <2>1, <2>2
<1>12. CASE ReportMembers
  <2>1. /\ pc \in {"reconcile", "again"} /\ pc' \in {"run", "again"} /\ sts' = sts
        /\ Reported /\ \E v \in Views : status' = [status EXCEPT !.view = v]
    BY <1>12, ReportedStatus DEF ReportMembers, Report, updateCRStatus
  <2>2. status'.phase = status.phase  BY <1>1, <2>1 DEF ClusterStatus
  <2> QED  BY <1>3, <1>9, <2>1, <2>2
<1>13. CASE HandleUpdateEvent
  <2> DEFINE ev == Head(eventCh)
  <2>1. pc = "run" /\ sts' = sts  BY <1>13 DEF HandleUpdateEvent
  <2>2. \/ /\ isSpecEqual(ev.spec, rss.spec) /\ rss' = ev
           /\ status' = status /\ pc' = pc
        \/ /\ pc' = pc
           /\ \E v \in Views : status' = [SetPhase("Paused") EXCEPT !.view = v]
        \/ pc' \in {"failing", "patch"}
    BY <1>13 DEF HandleUpdateEvent, updateCRStatus
  <2> HIDE DEF ev
  <2>3. CASE /\ isSpecEqual(ev.spec, rss.spec) /\ rss' = ev
             /\ status' = status /\ pc' = pc
    BY <2>1, <2>3 DEF SizeApplied, isSpecEqual
  <2>4. CASE pc' = pc /\ \E v \in Views : status' = [SetPhase("Paused") EXCEPT !.view = v]
    <3>1. SetPhase("Paused") \in ClusterStatus /\ SetPhase("Paused").phase = "Paused"
      BY <1>1, SetPhaseType DEF ClusterPhases
    <3>2. status'.phase = "Paused"  BY <2>4, <3>1 DEF ClusterStatus
    <3> QED  BY <2>1, <2>4, <3>2 DEF SizeApplied
  <2>5. CASE pc' \in {"failing", "patch"}  BY <2>5 DEF SizeApplied
  <2> QED  BY <2>2, <2>3, <2>4, <2>5
<1> QED
  BY <1>4, <1>5, <1>6, <1>7, <1>8, <1>10, <1>11, <1>12, <1>13 DEF Goroutine

\* The others change neither the size nor the spec the goroutine works on.
LEMMA OthersSize ==
    ASSUME StsInv, SizeApplied, LivesOn,
           Deliver \/ Crash \/ PanicTimer \/ ChangeSpec \/ PodStep \/ PodDies
    PROVE  SizeApplied'
<1>1. TypeOK  BY DEF StsInv
<1>2. CASE Deliver
  <2>1. /\ sts' = sts
        /\ \/ UNCHANGED <<pc, rss, status>>
           \/ ~known /\ pc' = "setup"
    BY <1>2 DEF Deliver, goroutine, server
  <2>2. ~known => pc = "none"  BY <1>1 DEF TypeOK
  <2> QED  BY <2>1, <2>2 DEF SizeApplied
<1>3. CASE Crash \/ PanicTimer
  <2>1. ~known' /\ pc' = "none" /\ sts' = sts
    BY <1>3 DEF Crash, PanicTimer, Restarted, server
  <2>2. pc = "none"  BY <1>1, <2>1 DEF TypeOK, LivesOn
  <2> QED  BY <2>1, <2>2 DEF SizeApplied
<1>4. CASE ChangeSpec
  <2>1. UNCHANGED <<pc, status, sts>> /\ rss'.spec = rss.spec
    BY <1>1, <1>4, OutdatedType DEF ChangeSpec, TypeOK
  <2> QED  BY <2>1 DEF SizeApplied
<1>5. CASE PodStep \/ PodDies
  BY <1>5 DEF PodStep, PodDies, goroutine, SizeApplied
<1> QED  BY <1>2, <1>3, <1>4, <1>5

\* As long as the operator process goes on, and whatever calls fail, a goroutine
\* that waits with nothing under way has given the StatefulSet the size of the
\* last edit, unless the cluster failed or is paused.  A process that ends is the
\* one way to lose an edit: its successor finds the phase Running and compares the
\* size with nothing.
THEOREM EditsAppliedAlways == Spec /\ [][LivesOn]_vars => []EditsApplied
<1>1. Init => SizeApplied
  <2> SUFFICES ASSUME Init PROVE SizeApplied  OBVIOUS
  <2>1. CASE Established
    <3>1. pc = "run" /\ sts = <<GetNumReplicas(cr.spec.replicas)>>
      BY <2>1 DEF Init
    <3>2. rss.spec = cr.spec  BY DEF Init, Current
    <3> QED  BY <3>1, <3>2 DEF SizeApplied
  <2>2. CASE ~Established
    <3>1. pc = "none" /\ sts = <<>>  BY <2>2 DEF Init
    <3> QED  BY <3>1 DEF SizeApplied
  <2> QED  BY <2>1, <2>2
<1>2. StsInv /\ SizeApplied /\ [Next]_vars /\ [LivesOn]_vars => SizeApplied'
  <2> SUFFICES ASSUME StsInv, SizeApplied, [Next]_vars, [LivesOn]_vars
               PROVE  SizeApplied'
    OBVIOUS
  <2>1. StsInv'  BY NextInv
  <2>2. CASE UNCHANGED vars  BY <2>2 DEF vars, server, goroutine, SizeApplied
  <2> QED  BY <2>1, <2>2, GoroutineSize, OthersSize DEF Next
<1>3. EditsKept /\ SizeApplied => EditsApplied
  BY DEF EditsKept, Newest, SizeApplied, EditsApplied
<1> QED  BY <1>1, <1>2, <1>3, StsInvAlways, EditsKeptAlways, PTL DEF Spec
============================================================================
