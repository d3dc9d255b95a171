---------------------------- MODULE Replication ----------------------------
(***************************************************************************)
(* One reconciliation round of a cluster's goroutine: the timer branch of  *)
(* run() (pkg/cluster/cluster.go), reconcile() and recover()               *)
(* (reconcile.go), replicate() and the functions below it (replicate.go).  *)
(*                                                                         *)
(* The goroutine is sequential; what interleaves with it is the outside    *)
(* world, between any two calls to it.  So every call into a Pod is a step *)
(* of its own, and pc says which loop the goroutine is in.  The CR status  *)
(* written on the way is the subject of other modules: nothing here reads  *)
(* it.  A list of errors is abstracted to whether it is empty.             *)
(***************************************************************************)
EXTENDS Environment

VARIABLES
    pc,      \* where the goroutine is
    peers,   \* c.peers
    running, \* the Pods the last pollPods saw running
    todo,    \* members the current loop has still to visit
    seeds,   \* seeds still to try
    errs,    \* has the current reconcile() or replicate() met an error?
    again,   \* is this the reconcile() that follows a failed replicate()?
    steady   \* history: the Pods that stayed alive since the round began

local == <<running, todo, seeds, errs, again>>
vars == <<env, pc, peers, local, steady>>

PCs == {"idle", "check", "recover", "replicate", "detect", "choose", "seed",
        "primaries", "demote", "secondaries", "cleanup"}

TypeOK ==
    /\ EnvTypeOK
    /\ pc \in PCs
    /\ IsMemberSet(peers, Pods)
    /\ running \subseteq Pods
    /\ todo \subseteq Pods
    /\ seeds \in Seq(Pods)
    /\ errs \in BOOLEAN
    /\ again \in BOOLEAN
    /\ steady \subseteq Pods

Init ==
    /\ EnvInit
    /\ pc = "idle" /\ peers = NoMembers /\ running = {} /\ todo = {}
    /\ seeds = <<>> /\ errs = FALSE /\ again = FALSE
    /\ steady = {p \in Pods : Alive(p)}

Failed(ms) == {n \in DOMAIN ms : ms[n].AppFailed}
Online(ms) == {n \in DOMAIN ms : ms[n].Online}

\* Mutant: a member that failed once is recovered even when it is healthy again.
RecoverableOnceFailed(ms) == {n \in Online(ms) : ms[n].AppFailed \/ ms[n].Failures > 0}

\* The members for which recover() does anything.
Recoverable(ms) == {n \in Failed(ms) : ms[n].Failures > 1 \/ ms[n].Online}

\* startAppMember and stopAppMember after a failed command.
Failing(m) == [m EXCEPT !.AppFailed = TRUE,
                        !.Failures = IF @ < FailureCap THEN @ + 1 ELSE @]

\* Mutant: every member is recorded as a secondary.
StartedAsSecondary(m, asPrimary) ==
    [m EXCEPT !.AppPrimary = FALSE, !.AppRunning = TRUE, !.AppFailed = FALSE]

\* startAppMember after a successful command.
Started(m, asPrimary) ==
    [m EXCEPT !.AppPrimary = asPrimary, !.AppRunning = TRUE, !.AppFailed = FALSE]

\* stopAppMember after a successful command.
Stopped(m) == [m EXCEPT !.AppPrimary = FALSE, !.AppRunning = FALSE, !.AppFailed = FALSE]

\* Go to pc "to" to visit the members in S.
Visit(to, S) == pc' = to /\ todo' = S

Idle == Visit("idle", {}) /\ running' = {} /\ seeds' = <<>> /\ errs' = FALSE /\ again' = FALSE

----------------------------------------------------------------------------
\* reconcile() up to its loop over the members.
StartReconcile(names, retry) ==
    LET ms == Reconcile(peers, podsToMemberSet(names))
    IN  /\ peers' = ms
        /\ Visit("check", Online(ms) \ Failed(ms))
        /\ running' = names /\ errs' = FALSE /\ again' = retry /\ seeds' = <<>>

\* The timer fires and no Pod is pending (otherwise the round ends at once).
PollPods ==
    /\ pc = "idle"
    /\ \A p \in Pods : pod[p] # "Pending"
    /\ LET names == {p \in Pods : Alive(p)} IN
       \/ /\ names # {}
          /\ StartReconcile(names, FALSE)
       \/ /\ names = {}
          /\ peers' = IF Replicas = 0 THEN NoMembers ELSE Reconcile(peers, NoMembers)
          /\ UNCHANGED <<pc, local>>
    /\ UNCHANGED env

\* Without a secondary command a running application is a primary.
Remap(rc) == IF rc = 0 /\ ~HasSecondary THEN 8 ELSE rc

\* Mutant: a primary found by the status command is not recorded as one.
CheckedWithoutRole(m, rc) ==
    IF rc = 7 THEN [m EXCEPT !.AppRunning = FALSE, !.AppPrimary = FALSE]
    ELSE [m EXCEPT !.AppRunning = TRUE, !.AppFailed = rc \notin {0, 8}]

\* Mutant: a member whose application stopped is not recorded as stopped.
CheckedMissesStop(m, rc) ==
    [m EXCEPT !.AppRunning = @ \/ rc # 7, !.AppPrimary = @ \/ rc = 8,
              !.AppFailed = rc \notin {0, 7, 8}]

Checked(m, rc) ==
    CASE rc = 0 -> [m EXCEPT !.AppRunning = TRUE, !.AppPrimary = FALSE]
      [] rc = 7 -> [m EXCEPT !.AppRunning = FALSE, !.AppPrimary = FALSE]
      [] rc = 8 -> [m EXCEPT !.AppRunning = TRUE, !.AppPrimary = TRUE]
      [] OTHER  -> [m EXCEPT !.AppRunning = TRUE, !.AppFailed = TRUE]

CheckError(m, rc) ==
    \/ rc = 7 /\ m.AppRunning
    \/ rc = 8 /\ m.AppRunning /\ ~m.AppPrimary
    \/ rc \notin {0, 7, 8}

CheckMember(n) ==
    /\ pc = "check" /\ n \in todo
    /\ \E code \in {0, 1, 7, 8} :
          LET rc == Remap(code) IN
          /\ StatusCall(n, code)
          /\ peers' = [peers EXCEPT ![n] = Checked(@, rc)]
          /\ errs' = (errs \/ CheckError(peers[n], rc))
          /\ IF peers'[n].AppFailed THEN tagAppMember(n, FALSE) ELSE UNCHANGED label
    /\ todo' = todo \ {n}
    /\ UNCHANGED <<pc, running, seeds, again>>

CheckDone ==
    /\ pc = "check" /\ todo = {}
    /\ Visit("recover", Recoverable(peers))
    /\ UNCHANGED <<env, peers, running, seeds, errs, again>>

\* deleteMember, applied to the record m of n.
deleteMember(n, m) ==
    \E ok \in BOOLEAN :
        /\ DeleteCall(n, ok)
        /\ peers' = [peers EXCEPT ![n] = IF ok THEN Offline(m) ELSE m]

\* One failed member in recover(): after more than one failure the Pod is
\* deleted, before that its application is stopped, and the Pod deleted when
\* that fails.
RecoverMember(n) ==
    /\ pc \in {"recover", "cleanup"} /\ n \in todo
    /\ tagAppMember(n, FALSE)
    /\ \/ /\ peers[n].Failures > 1
          /\ deleteMember(n, peers[n])
          /\ errs' = TRUE
          /\ UNCHANGED <<app, lineage, data, committed, faults>>
       \/ /\ peers[n].Failures <= 1
          /\ StopCall(n, TRUE)
          /\ peers' = [peers EXCEPT ![n] = Stopped(@)]
          /\ UNCHANGED <<pod, errs>>
       \/ /\ peers[n].Failures <= 1
          /\ StopCall(n, FALSE)
          /\ deleteMember(n, Failing(peers[n]))
          /\ errs' = TRUE
    /\ todo' = todo \ {n}
    /\ UNCHANGED <<pc, running, seeds, again>>

\* Mutant: replicate() runs although reconcile() met an error.
ReconcileDoneRegardless ==
    /\ pc = "recover" /\ todo = {}
    /\ IF again THEN Idle
       ELSE Visit("replicate", {}) /\ UNCHANGED <<running, seeds, errs, again>>
    /\ UNCHANGED <<env, peers>>

\* reconcile() returns: replicate() only follows a first reconcile() without
\* errors.
ReconcileDone ==
    /\ pc = "recover" /\ todo = {}
    /\ IF errs \/ again THEN Idle
       ELSE Visit("replicate", {}) /\ UNCHANGED <<running, seeds, errs, again>>
    /\ UNCHANGED <<env, peers>>

----------------------------------------------------------------------------
\* replicate() returns an error before its stages: run() reconciles again, with
\* the list of Pods it already has.
GiveUp == StartReconcile(running, TRUE)

\* Mutant: replicate() does not wait for the right number of Pods.
ReplicateUngated ==
    /\ pc = "replicate"
    /\ Visit("detect", Online(peers))
    /\ UNCHANGED <<env, peers, running, seeds, errs, again>>

\* Mutant: members are not asked for their sequence numbers.
ReplicateUndetected ==
    /\ pc = "replicate"
    /\ IF \/ AppMembers(peers) > Replicas
          \/ AppPrimaries(peers) = 0 /\ ActiveMembers(peers) # Replicas
       THEN GiveUp
       ELSE Visit("detect", {}) /\ UNCHANGED <<peers, running, seeds, errs, again>>
    /\ UNCHANGED env

\* The two early returns, then detectMembers unless all counts are right.
Replicate ==
    /\ pc = "replicate"
    /\ IF \/ AppMembers(peers) > Replicas
          \/ AppPrimaries(peers) = 0 /\ ActiveMembers(peers) # Replicas
       THEN GiveUp
       ELSE /\ Visit("detect", IF \/ AppPrimaries(peers) # Primaries
                                 \/ AppMembers(peers) # Replicas
                              THEN Online(peers) ELSE {})
            /\ UNCHANGED <<peers, running, seeds, errs, again>>
    /\ UNCHANGED env

DetectMember(n) ==
    /\ pc = "detect" /\ n \in todo
    /\ \E seq \in {peers[n].SEQ, data[n], 0} :
          /\ SequenceCall(n, peers[n].SEQ, seq)
          /\ peers' = [peers EXCEPT ![n].SEQ = seq]
    /\ todo' = todo \ {n}
    /\ UNCHANGED <<pc, running, seeds, errs, again>>

DetectDone ==
    /\ pc = "detect" /\ todo = {}
    /\ pc' = IF AppPrimaries(peers) = 0 THEN "choose" ELSE "primaries"
    /\ UNCHANGED <<env, peers, local>>

ChooseSeeds ==
    /\ pc = "choose"
    /\ \E s \in chooseSeeds(peers) :
          \/ s = <<>> /\ GiveUp
          \/ s # <<>> /\ pc' = "seed" /\ seeds' = s
             /\ UNCHANGED <<peers, running, todo, errs, again>>
    /\ UNCHANGED env

startCommand(asPrimary, primaries) ==
    IF asPrimary /\ primaries = 0 /\ HasSeed THEN "seed"
    ELSE IF ~asPrimary /\ HasSecondary THEN "secondary"
    ELSE "primary"

\* Mutant: only secondaries get the label.
startAppMemberUntagged(n, asPrimary, ok) ==
    /\ StartCall(n, startCommand(asPrimary, AppPrimaries(peers)), appendPrimaries(peers), ok)
    /\ peers' = [peers EXCEPT ![n] = IF ok THEN Started(@, asPrimary) ELSE Failing(@)]
    /\ IF ok /\ ~asPrimary THEN tagAppMember(n, TRUE) ELSE UNCHANGED label

startAppMember(n, asPrimary, ok) ==
    /\ StartCall(n, startCommand(asPrimary, AppPrimaries(peers)), appendPrimaries(peers), ok)
    /\ \/ /\ ok
          /\ peers' = [peers EXCEPT ![n] = Started(@, asPrimary)]
          /\ tagAppMember(n, TRUE)
       \/ /\ ~ok
          /\ peers' = [peers EXCEPT ![n] = Failing(@)]
          /\ UNCHANGED label

stopAppMember(n, ok) ==
    /\ tagAppMember(n, FALSE)
    /\ StopCall(n, ok)
    /\ peers' = [peers EXCEPT ![n] = IF ok THEN Stopped(@) ELSE Failing(@)]

\* Seeds are tried in turn until there is a primary; then errors are forgotten.
SeedMember ==
    /\ pc = "seed" /\ seeds # <<>>
    /\ \E ok \in BOOLEAN : startAppMember(Head(seeds), TRUE, ok)
    /\ IF AppPrimaries(peers') # 0
       THEN pc' = "primaries" /\ seeds' = <<>>
       ELSE seeds' = Tail(seeds) /\ UNCHANGED pc
    /\ UNCHANGED <<running, todo, errs, again>>

SeedsExhausted ==
    /\ pc = "seed" /\ seeds = <<>>
    /\ GiveUp
    /\ UNCHANGED env

\* The end of replicate(): a clean-up of failed members if anything went wrong.
Finish(e) ==
    IF ~e /\ Replicas > 0 THEN Idle
    ELSE Visit("cleanup", Recoverable(peers)) /\ errs' = e /\ UNCHANGED <<running, seeds, again>>

\* Leave a stage: its loop is "done", or it found no member to act on, which is
\* an error.  The next stage runs only if there was no error.
LeaveStage(done, next) ==
    LET e == errs \/ ~done
    IN  /\ IF e \/ next = "finish" THEN Finish(e)
           ELSE Visit(next, {}) /\ UNCHANGED <<running, seeds, errs, again>>
        /\ UNCHANGED <<env, peers>>

StartPrimary ==
    /\ pc = "primaries" /\ AppPrimaries(peers) < Primaries
    /\ \E n \in chooseMember(peers), ok \in BOOLEAN :
          startAppMember(n, TRUE, ok) /\ errs' = (errs \/ ~ok)
    /\ UNCHANGED <<pc, running, todo, seeds, again>>

\* The loop also ends when AppPrimaries() drops to 0, which it never does: the
\* stage begins with a primary and starting a member removes none.
PrimariesDone ==
    /\ pc = "primaries"
    /\ AppPrimaries(peers) < Primaries => chooseMember(peers) = {}
    /\ LeaveStage(AppPrimaries(peers) >= Primaries, "demote")

\* Mutant: one primary too many is demoted.
DemoteOneMore ==
    /\ pc = "demote" /\ AppPrimaries(peers) >= Primaries
    /\ \E n \in chooseCurrentPrimary(peers), ok \in BOOLEAN :
          stopAppMember(n, ok) /\ errs' = (errs \/ ~ok)
    /\ UNCHANGED <<pod, pc, running, todo, seeds, again>>

DemotePrimary ==
    /\ pc = "demote" /\ AppPrimaries(peers) > Primaries
    /\ \E n \in chooseCurrentPrimary(peers), ok \in BOOLEAN :
          stopAppMember(n, ok) /\ errs' = (errs \/ ~ok)
    /\ UNCHANGED <<pod, pc, running, todo, seeds, again>>

DemoteDone ==
    /\ pc = "demote"
    /\ AppPrimaries(peers) > Primaries => chooseCurrentPrimary(peers) = {}
    /\ LeaveStage(AppPrimaries(peers) <= Primaries, "secondaries")

StartSecondary ==
    /\ pc = "secondaries" /\ AppMembers(peers) < Replicas
    /\ \E n \in chooseMember(peers), ok \in BOOLEAN :
          startAppMember(n, FALSE, ok) /\ errs' = (errs \/ ~ok)
    /\ UNCHANGED <<pc, running, todo, seeds, again>>

SecondariesDone ==
    /\ pc = "secondaries"
    /\ AppMembers(peers) < Replicas => chooseMember(peers) = {}
    /\ LeaveStage(AppMembers(peers) >= Replicas, "finish")

CleanupDone ==
    /\ pc = "cleanup" /\ todo = {}
    /\ IF errs THEN GiveUp ELSE Idle /\ UNCHANGED peers
    /\ UNCHANGED env

\* The operator dies and its replacement starts with no members.
OperatorRestarts ==
    /\ Fault("operator")
    /\ Idle /\ peers' = NoMembers
    /\ UNCHANGED world

----------------------------------------------------------------------------
\* What every step does to the history.
Track ==
    steady' = IF pc = "idle" THEN {p \in Pods : pod'[p] \in {"Running", "Terminating"}}
              ELSE {p \in steady : pod'[p] # "absent"}

OperatorStep ==
    /\ \/ PollPods \/ CheckDone \/ ReconcileDone \/ Replicate \/ DetectDone
       \/ ChooseSeeds \/ SeedMember \/ SeedsExhausted \/ StartPrimary \/ PrimariesDone
       \/ DemotePrimary \/ DemoteDone \/ StartSecondary \/ SecondariesDone \/ CleanupDone
       \/ \E n \in Pods : CheckMember(n) \/ RecoverMember(n) \/ DetectMember(n)
    /\ Track

Outside(step) == step /\ UNCHANGED <<pc, peers, local>> /\ Track

Next == OperatorStep \/ Outside(EnvStep) \/ (OperatorRestarts /\ Track)

\* The goroutine keeps running, and Kubernetes keeps working on its Pods.
Fairness == WF_vars(OperatorStep) /\ WF_vars(Outside(KubernetesStep))

Spec == Init /\ [][Next]_vars
FairSpec == Spec /\ Fairness

----------------------------------------------------------------------------
\* All live primaries belong to one lineage: the operator never seeds a second
\* copy of the application beside a running one, whatever dies, restarts or
\* answers late in the middle of a round (replicate() seeds only when
\* AppPrimaries() is 0).
OneLineage == \A p, q \in LivePrimaries : lineage[p] = lineage[q]

\* The operator's records hang together: a primary is running, and nothing is
\* believed of the application on an offline member (what Offline() clears,
\* no later step sets while the member stays offline).
Consistent(m) ==
    /\ m.AppPrimary => m.AppRunning
    /\ m.AppRunning \/ m.AppFailed \/ m.SEQ > 0 => m.Online
MembersConsistent == \A n \in DOMAIN peers : Consistent(peers[n])

\* The inductive invariant behind OneLineage, conjunct by conjunct.  No start
\* command is left running behind the operator's back, and only a live Pod
\* has a primary.
AppsSettled ==
    \A p \in Pods : app[p] # "starting" /\ (app[p] = "primary" => Alive(p))

\* Loops only visit members that are online.
VisitsOnline ==
    /\ todo \subseteq Online(peers)
    /\ pc = "idle" => todo = {}
    /\ pc = "seed" => seeds \in Seq(Online(peers))

\* What holds of the records whatever calls fail: see ReplicationProofs.
RecordsInv == TypeOK /\ MembersConsistent /\ VisitsOnline

\* While a first reconcile() without errors and the start of replicate() last,
\* every live primary is known as one, still to be asked, or failed and about
\* to be stopped or deleted.
Covered ==
    /\ pc \in {"replicate", "detect"} => ~errs /\ ~again
    /\ pc \in {"check", "recover", "replicate", "detect"} /\ ~errs /\ ~again =>
         \A p \in LivePrimaries :
             \/ p \in PrimariesOf(peers)
             \/ pc \in {"check", "recover"} /\ p \in todo
             \/ pc = "check" /\ p \in Online(peers) /\ peers[p].AppFailed

\* Seeds are tried only when no primary is live; later stages start a primary
\* only when they know one to join.
Joinable ==
    /\ pc \in {"choose", "seed"} => LivePrimaries = {} /\ PrimariesOf(peers) = {}
    /\ pc = "primaries" => PrimariesOf(peers) # {}
    /\ pc \in {"demote", "secondaries"} /\ Primaries > 0 => PrimariesOf(peers) # {}

\* What OneLineage rests on: a start command that reports failure has not left
\* a primary behind and is not still running, the look-up of a Pod does not fail
\* while the Pod exists, and the primary command is never used to start the
\* members that follow when the spec asks for no primary at all.
ReliableCalls ==
    /\ FailedStartLeaves \intersect {"primary", "starting"} = {}
    /\ "get" \notin Faults
    /\ Primaries > 0 \/ HasSecondary

\* Together they are inductive: see ReplicationProofs.
OneLineageInv ==
    /\ TypeOK /\ MembersConsistent /\ OneLineage
    /\ AppsSettled /\ VisitsOnline /\ Covered /\ Joinable

\* Seeds are chosen only with every replica online and none of them failed:
\* what the gate "Waiting for ... before seeding" saw at the start of
\* replicate() is still what the records say when the seeds are chosen.
SeedsSeeAll ==
    pc \in {"choose", "seed"} =>
        /\ Online(peers) = running /\ Cardinality(running) = Replicas
        /\ pc = "choose" => Failed(peers) = {}

\* The inductive invariant behind SeedsSeeAll and StaysStopped, conjunct by
\* conjunct.  As long as a round has met no error, the records agree with the
\* list of Pods it works with, and the failed members are those recover() has
\* still to visit.
RoundSound ==
    /\ pc \in {"check", "recover"} /\ ~errs => Online(peers) = running
    /\ pc = "recover" /\ ~errs => Failed(peers) \subseteq todo
    /\ pc \in {"replicate", "detect", "choose", "seed"} => Online(peers) = running
    /\ pc \in {"replicate", "detect", "choose"} => Failed(peers) = {}

\* Past the gates of replicate() and without a primary, every replica is online.
Gated ==
    (pc = "detect" /\ PrimariesOf(peers) = {}) \/ pc \in {"choose", "seed"} =>
        ActiveMembers(peers) = Replicas

\* With no replica to run, no stage that starts anything is reached.
WoundDown ==
    Replicas = 0 =>
        /\ pc \in {"idle", "check", "recover", "replicate", "detect", "choose"}
        /\ pc = "detect" => PrimariesOf(peers) = {}

\* Together with OneLineageInv they are inductive: see SeedingProofs.
SeedingInv == RoundSound /\ Gated /\ WoundDown

\* The last two stages know as many primaries as the spec asks for, none of them
\* failed until a stop fails.
EnoughKnown ==
    /\ pc \in {"demote", "secondaries"} => AppPrimaries(peers) >= Primaries
    /\ pc = "primaries" \/ (pc = "demote" /\ ~errs) => PrimariesOf(peers) \intersect Failed(peers) = {}

\* A new lineage starts from the newest volume: when no primary is live and the
\* first seed that was chosen is started, it holds the highest sequence number
\* of the Pods that stayed alive since the round began (detectMembers,
\* chooseSeeds).
NewestSeeded ==
    [][\A p \in steady :
         LivePrimaries = {} /\ Failed(peers) = {} /\ app'[p] = "primary" =>
            \A q \in steady : data[q] <= data[p]]_vars

\* What NewestSeeded rests on, besides ReliableCalls: the sequence command answers
\* truly, and the spec asks for a primary (otherwise detectMembers may be skipped
\* before seeds are chosen).
TrueSequences == "sequence" \notin Faults /\ Primaries > 0

\* The inductive invariant behind NewestSeeded, conjunct by conjunct.  The Pods
\* that stayed alive are alive, and a round works with all of them.
SteadyHere ==
    /\ \A p \in steady : Alive(p)
    /\ pc # "idle" => steady \subseteq running

\* Past the gates of replicate() and without a primary, a sequence number that
\* detectMembers has read stays true: nothing is written until a seed starts.
SequencesTrue ==
    /\ pc \in {"choose", "seed"} => todo = {}
    /\ (pc = "detect" /\ PrimariesOf(peers) = {}) \/ pc \in {"choose", "seed"} =>
         \A q \in steady \ todo : peers[q].SEQ = data[q]

\* Until a seed fails, the next one to try is the newest member.
FirstSeedNewest ==
    pc = "seed" /\ Failed(peers) = {} =>
        seeds # <<>> /\ \A q \in Online(peers) : peers[q].SEQ <= peers[Head(seeds)].SEQ

\* Together with the invariants above they are inductive: see SeedingProofs.
NewestInv == SteadyHere /\ SequencesTrue /\ FirstSeedNewest

\* What a client was told is written is on every live primary.
NoRollback == \A p \in LivePrimaries : data[p] = committed

\* A seed is started after another one failed to, or when no Pod that stayed
\* alive since the round began holds the last write.
LossySeed ==
    SeedMember /\ (Failed(peers) # {} \/ \A q \in steady : data[q] # committed)

\* The inductive invariant behind NoRollback, besides NoRollback itself.  Every
\* volume is at most as new as what clients were told, and one has it all; the
\* operator believes no volume newer than it is.
VolumesBehind ==
    /\ \A p \in Pods : data[p] <= committed
    /\ \E p \in Pods : data[p] = committed
    /\ \A n \in DOMAIN peers : peers[n].SEQ <= data[n]

\* Every Pod of the cluster runs, and none beyond it exists.
AllPodsRun == \A p \in Pods : pod[p] = "Running"

\* With every Pod running and start commands that work, no seed is lossy.
SeedsSound == steady = Pods /\ (pc = "seed" => Failed(peers) = {})

\* At most one fault, and it befalls an application, the operator or a status
\* command; no Pod beyond the replica count is left over.
OneSoftFault ==
    /\ Faults \subseteq {"appStops", "appBreaks", "appDemoted", "operator", "status", "tag"}
    /\ MaxFaults <= 1 /\ HasSecondary
    /\ \A p \in Pods : p < Replicas

\* The members believed to be primaries that are none.
Stale == PrimariesOf(peers) \ LivePrimaries

\* The inductive invariant behind AllPodsRun under OneSoftFault: a member fails to
\* start at most once, because only a stale record makes it fail, and before the
\* next member is started the status command has put every record right.
NoneFailedYet == \A n \in DOMAIN peers : peers[n].Failures = 0
FailsOnce ==
    /\ \A n \in DOMAIN peers : peers[n].Failures <= 1
    /\ faults = 0 => NoneFailedYet /\ Stale = {}
    /\ pc = "check" => NoneFailedYet \/ Stale \subseteq todo \union Failed(peers)
    /\ pc = "recover" => NoneFailedYet \/ Stale \subseteq todo
    /\ pc \in {"replicate", "detect", "choose", "seed"} => NoneFailedYet \/ Stale = {}
    /\ pc \in {"primaries", "demote", "secondaries"} =>
         Stale = {} \/ \A n \in DOMAIN peers : peers[n].Failures = 1 => peers[n].AppFailed

\* The operator takes a live primary down only to demote it: while the status
\* command answers truly, recover() never stops or deletes a healthy one.
HealthyLeftAlone ==
    [][\A p \in Pods :
         OperatorStep /\ app[p] = "primary" =>
            pc = "demote" \/ (app'[p] = "primary" /\ pod'[p] = pod[p])]_vars

\* What HealthyLeftAlone rests on, besides ReliableCalls: the status and the stop
\* command fail only where the application or the Pod did, and the primary command
\* is not used to start the members that follow.
TrueAnswers ==
    /\ {"status", "stop"} \intersect Faults = {}
    /\ HasSecondary \/ Primaries >= Replicas

\* The inductive invariant behind HealthyLeftAlone and PrimariesLabelled, conjunct
\* by conjunct.  Only members that failed are recovered, and no live primary is
\* taken for one that failed.
FailedTruly ==
    /\ \A n \in Failed(peers) : app[n] # "primary"
    /\ pc \in {"recover", "cleanup"} => todo \subseteq Failed(peers)

\* The stages that start members know every live primary.
AllKnown ==
    pc \in {"primaries", "demote", "secondaries"} => LivePrimaries \subseteq PrimariesOf(peers)

\* A live primary carries the label, unless a label update failed.
LiveLabelled == "tag" \notin Faults => \A p \in LivePrimaries : label[p]

\* Together with the invariants above they are inductive: see SeedingProofs.
HealthInv == FailedTruly /\ AllKnown /\ LiveLabelled

\* A cluster scaled to zero is only wound down: the operator starts nothing in
\* the Pods that are still terminating (the two gates of replicate()).
StaysStopped ==
    [][Replicas = 0 => \A p \in Pods : app[p] = "stopped" => app'[p] = "stopped"]_vars

\* Demotion stops at the required number: the loop that stops primaries in
\* series never leaves fewer healthy ones than the spec asks for.
DemotionKeepsEnough ==
    pc = "demote" =>
        Cardinality({n \in PrimariesOf(peers) : ~peers[n].AppFailed}) >= Primaries

\* Between rounds a live primary carries the label that client services
\* select, so no primary serves unseen (startAppMember, tagAppMember).
PrimariesLabelled ==
    pc = "idle" => \A p \in LivePrimaries : pod[p] = "Running" => label[p]

\* Every round ends: no loop of reconcile() or replicate() runs forever.
RoundEnds == pc # "idle" ~> pc = "idle"

\* A cluster without a primary gets one again: what recover() deletes, the
\* StatefulSet brings back, and then replicate() seeds.
ServiceRestored == LivePrimaries = {} ~> LivePrimaries # {}

\* Once faults cease the cluster reaches the number of primaries the spec asks
\* for, and stays there (the three stages of replicate() do not undo each other).
Converges == <>[](Cardinality(LivePrimaries) = Primaries)

\* Once faults cease as many copies of the application run as the spec asks for,
\* and they stay (the loop that starts secondaries comes to its end).
SizeReached ==
    <>[](Cardinality({p \in Pods : app[p] \in {"primary", "secondary"}}) = Replicas)
============================================================================
