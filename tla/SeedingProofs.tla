--------------------------- MODULE SeedingProofs ---------------------------
(***************************************************************************)
(* What rounds do to the data and to the number of primaries, for any      *)
(* Pods, replica and primary counts and fault budget: replicate() seeds    *)
(* from the newest data that is left, rolls back an acknowledged write     *)
(* only where no running Pod has it or a seed failed to start, and ends    *)
(* with as many primaries as the spec asks for.                            *)
(***************************************************************************)
EXTENDS ReplicationProofs

\* Leaves about numbers, sequences and records name SMT; Zenon does the others.
USE Zenon

----------------------------------------------------------------------------
(***************************************************************************)
(* What a new lineage starts from.                                         *)
(***************************************************************************)

\* The steps of the operator that call nothing.
LEMMA SilentSteps ==
    ASSUME \/ PollPods \/ CheckDone \/ ReconcileDone \/ Replicate \/ DetectDone
           \/ ChooseSeeds \/ SeedsExhausted \/ PrimariesDone \/ DemoteDone
           \/ SecondariesDone \/ CleanupDone
    PROVE  UNCHANGED <<pod, app, lineage, label, data, committed, faults>>
<1>1. UNCHANGED env
  BY DEF PollPods, CheckDone, ReconcileDone, Replicate, DetectDone, ChooseSeeds,
     SeedsExhausted, PrimariesDone, DemoteDone, SecondariesDone, LeaveStage, CleanupDone
<1> QED  BY <1>1 DEF env, world

\* A Pod that is alive stays alive or vanishes.
LEMMA AliveStep ==
    ASSUME EnvTypeOK, [Next]_vars, NEW p \in Pods, Alive(p)
    PROVE  pod'[p] = "absent" \/ Alive(p)'
<1>1. CASE UNCHANGED pod  BY <1>1 DEF Alive
<1>2. ASSUME NEW n \in Pods, NEW ok, DeleteCall(n, ok)
      PROVE  pod'[p] = "absent" \/ Alive(p)'
  BY <1>2 DEF DeleteCall, EnvTypeOK, Alive
<1>3. ASSUME NEW n \in Pods, RecoverMember(n)
      PROVE  pod'[p] = "absent" \/ Alive(p)'
  BY <1>1, <1>2, <1>3 DEF RecoverMember, deleteMember
<1>4. ASSUME NEW n \in Pods, CheckMember(n) \/ DetectMember(n) PROVE UNCHANGED pod
  BY <1>4 DEF CheckMember, StatusCall, DetectMember, SequenceCall, world
<1>5. ASSUME SeedMember \/ StartPrimary \/ StartSecondary \/ DemotePrimary PROVE UNCHANGED pod
  BY <1>5 DEF SeedMember, StartPrimary, StartSecondary, DemotePrimary, startAppMember, StartCall
<1>6. CASE OperatorStep
  BY <1>1, <1>3, <1>4, <1>5, <1>6, SilentSteps DEF OperatorStep
<1>7. ASSUME NEW q \in Pods, Vanish(q) PROVE pod'[p] = "absent" \/ Alive(p)'
  BY <1>7 DEF Vanish, EnvTypeOK, Alive
<1>8. ASSUME NEW q \in Pods, PodCreated(q) \/ PodRuns(q)
      PROVE  pod'[p] = "absent" \/ Alive(p)'
  BY <1>8 DEF PodCreated, PodRuns, EnvTypeOK, Alive
<1>9. CASE EnvStep
  BY <1>1, <1>7, <1>8, <1>9
     DEF EnvStep, KubernetesStep, FaultStep, PodGone, StartFinishes, AppStops, AppBreaks,
         AppDemoted, PodDies, Write
<1>10. CASE OperatorRestarts \/ UNCHANGED vars
  BY <1>1, <1>10 DEF OperatorRestarts, world, vars, env
<1> QED  BY <1>6, <1>9, <1>10 DEF Next, Outside

\* A round works with one list of Pods from its beginning to its end.
LEMMA RunningKept ==
    ASSUME [Next]_vars, pc # "idle", pc' # "idle"
    PROVE  running' = running
<1>1. CASE GiveUp \/ Idle
  BY <1>1 DEF GiveUp, StartReconcile, Idle, Visit
<1>2. ASSUME NEW n \in Pods, CheckMember(n) \/ RecoverMember(n) \/ DetectMember(n)
      PROVE  running' = running
  BY <1>2 DEF CheckMember, RecoverMember, DetectMember
<1>3. CASE \/ CheckDone \/ ReconcileDone \/ Replicate \/ DetectDone \/ ChooseSeeds
           \/ SeedMember \/ SeedsExhausted \/ StartPrimary \/ DemotePrimary \/ StartSecondary
           \/ CleanupDone
  BY <1>1, <1>3 DEF CheckDone, ReconcileDone, Replicate, DetectDone, ChooseSeeds, local,
     SeedMember, SeedsExhausted, StartPrimary, DemotePrimary, StartSecondary, CleanupDone
<1>4. CASE PrimariesDone \/ DemoteDone \/ SecondariesDone
  BY <1>1, <1>4 DEF PrimariesDone, DemoteDone, SecondariesDone, LeaveStage, Finish
<1>5. CASE PollPods  BY <1>5 DEF PollPods
<1>6. CASE OperatorStep
  BY <1>2, <1>3, <1>4, <1>5, <1>6 DEF OperatorStep
<1> QED  BY <1>1, <1>6 DEF Next, Outside, OperatorRestarts, vars, local

\* The history keeps its meaning.
LEMMA NextSteady ==
    ASSUME OneLineageInv, SteadyHere, [Next]_vars
    PROVE  SteadyHere' /\ (pc # "idle" => steady' \subseteq steady)
<1>1. EnvTypeOK /\ steady \subseteq Pods  BY InvParts DEF EnvInv, LocalTypeOK
<1>2. CASE UNCHANGED vars
  BY <1>2 DEF vars, env, world, local, SteadyHere, Alive
<1>3. CASE Next /\ pc = "idle"
  <2>1. Track  BY <1>3 DEF Next, OperatorStep, Outside
  <2>2. steady' = {p \in Pods : Alive(p)'}  BY <1>3, <2>1 DEF Track, Alive
  <2>3. ASSUME pc' # "idle" PROVE steady' \subseteq running'
    <3>1. PollPods
      BY <1>3, <2>3
         DEF Next, OperatorStep, Outside, OperatorRestarts, Idle, Visit, CheckDone, ReconcileDone,
             Replicate, DetectDone, ChooseSeeds, SeedMember, SeedsExhausted, StartPrimary,
             PrimariesDone, DemotePrimary, DemoteDone, StartSecondary, SecondariesDone,
             CleanupDone, CheckMember, RecoverMember, DetectMember
    <3>2. running' = {p \in Pods : Alive(p)} /\ UNCHANGED pod
      BY <2>3, <3>1, SilentSteps, <1>3 DEF PollPods, StartReconcile
    <3> QED  BY <2>2, <3>2 DEF Alive
  <2> QED  BY <1>3, <2>2, <2>3 DEF SteadyHere
<1>4. CASE Next /\ pc # "idle"
  <2>1. Track  BY <1>4 DEF Next, OperatorStep, Outside
  <2>2. steady' = {p \in steady : pod'[p] # "absent"}  BY <1>4, <2>1 DEF Track
  <2>3. \A p \in steady' : Alive(p)'
    BY <1>1, <1>4, <2>2, AliveStep DEF SteadyHere
  <2>4. pc' # "idle" => steady' \subseteq running'
    BY <1>4, <2>2, RunningKept DEF SteadyHere
  <2> QED  BY <2>2, <2>3, <2>4 DEF SteadyHere
<1> QED  BY <1>2, <1>3, <1>4

\* Outside of the search for a seed nothing is claimed of sequence numbers.
LEMMA ElsewhereNewest ==
    ASSUME pc' \notin {"detect", "choose", "seed"}
    PROVE  SequencesTrue' /\ FirstSeedNewest'
BY DEF SequencesTrue, FirstSeedNewest

\* While seeds are looked for, no primary is live.
LEMMA NoneLive ==
    ASSUME OneLineageInv, (pc = "detect" /\ PrimariesOf(peers) = {}) \/ pc \in {"choose", "seed"}
    PROVE  LivePrimaries = {} /\ PrimariesOf(peers) = {}
BY InvParts DEF Covered, Joinable

\* detectMembers begins with all the members of the round.
LEMMA ReplicateNewest ==
    ASSUME TrueSequences, OneLineageInv, SeedingInv, SteadyHere, Replicate, steady' \subseteq steady
    PROVE  SequencesTrue' /\ FirstSeedNewest'
<1> USE InvParts
<1>1. pc = "replicate"  BY DEF Replicate
<1>2. CASE GiveUp
  BY <1>2, ElsewhereNewest DEF GiveUp, StartReconcile, Visit
<1>3. CASE /\ Visit("detect", IF \/ AppPrimaries(peers) # Primaries
                                 \/ AppMembers(peers) # Replicas
                              THEN Online(peers) ELSE {})
           /\ UNCHANGED peers
  <2>1. steady \subseteq Online(peers)
    BY <1>1 DEF SeedingInv, RoundSound, SteadyHere
  <2>2. PrimariesOf(peers) = {} => AppPrimaries(peers) # Primaries
    BY PrimariesCount, SMT DEF TrueSequences
  <2>3. pc' = "detect" /\ (PrimariesOf(peers) = {} => todo' = Online(peers))
    BY <1>3, <2>2 DEF Visit
  <2> QED  BY <1>3, <2>1, <2>3 DEF SequencesTrue, FirstSeedNewest
<1> QED  BY <1>2, <1>3 DEF Replicate

\* A Pod that stayed alive answers with the number on its volume.
LEMMA DetectMemberNewest ==
    ASSUME ReliableCalls, TrueSequences, OneLineageInv, SeedingInv, SteadyHere, SequencesTrue,
           NEW n \in Pods, DetectMember(n), steady' \subseteq steady
    PROVE  SequencesTrue' /\ FirstSeedNewest'
<1> USE InvParts
<1>1. PICK seq \in {peers[n].SEQ, data[n], 0} :
         SequenceCall(n, peers[n].SEQ, seq) /\ peers' = [peers EXCEPT ![n].SEQ = seq]
  BY DEF DetectMember
<1>2. pc = "detect" /\ pc' = "detect" /\ n \in todo /\ todo' = todo \ {n}
  BY DEF DetectMember
<1>3. n \in DOMAIN peers /\ peers[n] \in Member  BY <1>2, OnlineRecord DEF VisitsOnline
<1> DEFINE r == [peers[n] EXCEPT !.SEQ = seq]
<1>4. /\ r.Online = peers[n].Online /\ r.AppPrimary = peers[n].AppPrimary
      /\ r.AppRunning = peers[n].AppRunning /\ r.SEQ = seq
  BY <1>3, SMT DEF Member
<1>5. peers' = [peers EXCEPT ![n] = r]  BY <1>1
<1> HIDE DEF r
<1>6. /\ DOMAIN peers' = DOMAIN peers /\ peers'[n] = r
      /\ \A k \in DOMAIN peers \ {n} : peers'[k] = peers[k]
  BY <1>3, <1>5 DEF LocalTypeOK, IsMemberSet
<1>7. PrimariesOf(peers') = PrimariesOf(peers)  BY <1>3, <1>4, <1>6 DEF PrimariesOf
<1>8. data' = data /\ (Alive(n) => seq = data[n])
  BY <1>1 DEF SequenceCall, world, Fault, ReliableCalls, TrueSequences
<1>9. ASSUME PrimariesOf(peers) = {}, NEW q \in steady', q \notin todo'
      PROVE  peers'[q].SEQ = data'[q]
  <2>1. q \in steady  BY <1>9
  <2>2. CASE q = n  BY <1>4, <1>6, <1>8, <2>1, <2>2 DEF SteadyHere
  <2>3. CASE q # n
    <3>1. q \in DOMAIN peers
      BY <1>2, <2>1 DEF SteadyHere, SeedingInv, RoundSound, Online
    <3> QED  BY <1>2, <1>6, <1>8, <1>9, <2>1, <2>3, <3>1 DEF SequencesTrue
  <2> QED  BY <2>2, <2>3
<1> QED  BY <1>2, <1>7, <1>9 DEF SequencesTrue, FirstSeedNewest
\* Seeds are chosen once every member has been asked.
LEMMA DetectDoneNewest ==
    ASSUME OneLineageInv, SequencesTrue, DetectDone, steady' \subseteq steady
    PROVE  SequencesTrue' /\ FirstSeedNewest'
<1>1. /\ pc = "detect" /\ todo = {} /\ UNCHANGED <<peers, todo, data>>
      /\ pc' = IF AppPrimaries(peers) = 0 THEN "choose" ELSE "primaries"
  BY SilentSteps DEF DetectDone, local
<1>2. CASE AppPrimaries(peers) = 0
  <2>1. PrimariesOf(peers) = {}  BY <1>2, PrimariesCount, InvParts
  <2> QED  BY <1>1, <1>2, <2>1 DEF SequencesTrue, FirstSeedNewest
<1>3. CASE AppPrimaries(peers) # 0  BY <1>1, <1>3, ElsewhereNewest
<1> QED  BY <1>2, <1>3

\* The first seed is the newest member: when seeds are chosen no member is skipped.
LEMMA ChooseSeedsNewest ==
    ASSUME OneLineageInv, SeedingInv, SequencesTrue, ChooseSeeds, steady' \subseteq steady
    PROVE  SequencesTrue' /\ FirstSeedNewest'
<1> USE InvParts
<1>1. pc = "choose" /\ UNCHANGED data  BY SilentSteps DEF ChooseSeeds
<1>2. CASE GiveUp
  BY <1>2, ElsewhereNewest DEF GiveUp, StartReconcile, Visit
<1>3. ASSUME NEW s \in chooseSeeds(peers), s # <<>>, pc' = "seed", seeds' = s,
             UNCHANGED <<peers, todo>>
      PROVE  SequencesTrue' /\ FirstSeedNewest'
  <2>1. Candidates(peers) = Online(peers)
    <3>1. PrimariesOf(peers) = {} /\ Failed(peers) = {}
      BY <1>1 DEF Joinable, SeedingInv, RoundSound
    <3> QED  BY <3>1 DEF MembersConsistent, Consistent, Candidates, Online, PrimariesOf, Failed
  <2>2. \A q \in Online(peers) : peers[q].SEQ <= peers[s[1]].SEQ
    BY <1>3, <2>1, SeedsNewest, EnvironmentAssumption DEF LocalTypeOK
  <2>3. Head(s) = s[1]
    <3>1. s \in Seq(Online(peers))
      BY <1>3, <2>1, SeedsNewest, EnvironmentAssumption DEF LocalTypeOK
    <3> QED  BY <3>1, <1>3, HeadTailProperties, SMT
  <2> QED  BY <1>1, <1>3, <2>2, <2>3 DEF SequencesTrue, FirstSeedNewest
<1> QED  BY <1>2, <1>3 DEF ChooseSeeds

\* A start command leaves the number of a member as it is.
LEMMA StartedSequence ==
    ASSUME NEW m \in Member, NEW asPrimary \in BOOLEAN
    PROVE  /\ Started(m, asPrimary).SEQ = m.SEQ
           /\ Failing(m).SEQ = m.SEQ /\ Failing(m).AppFailed
<1>1. Started(m, asPrimary).SEQ = m.SEQ  BY SMT DEF Member, Started
<1> DEFINE f == IF m.Failures < FailureCap THEN m.Failures + 1 ELSE m.Failures
<1>2. Failing(m) = [m EXCEPT !.AppFailed = TRUE, !.Failures = f]  BY DEF Failing
<1> HIDE DEF f
<1>3. Failing(m).SEQ = m.SEQ /\ Failing(m).AppFailed  BY <1>2, SMT DEF Member
<1> QED  BY <1>1, <1>3

\* A seed starts without a primary to join: it keeps its volume, and either it
\* is started or it has failed.  In a live Pod only a fault makes it fail.
LEMMA SeedStarts ==
    ASSUME ReliableCalls, OneLineageInv, SeedMember
    PROVE  /\ Head(seeds) \in Online(peers) /\ UNCHANGED <<pod, data, committed>>
           /\ \A q \in DOMAIN peers : peers'[q].SEQ = peers[q].SEQ
           /\ \A p \in Pods \ {Head(seeds)} : app'[p] = app[p]
           /\ pc' = "seed" => Failed(peers') # {}
           /\ "start" \notin Faults /\ Alive(Head(seeds)) =>
                /\ pc' = "primaries" /\ app'[Head(seeds)] = "primary"
                /\ peers' = [peers EXCEPT ![Head(seeds)] = Started(@, TRUE)]
<1> USE InvParts
<1> DEFINE n == Head(seeds)
<1>1. PICK ok \in BOOLEAN : startAppMember(n, TRUE, ok)  BY DEF SeedMember
<1>2. /\ pc = "seed" /\ seeds # <<>> /\ LivePrimaries = {} /\ PrimariesOf(peers) = {}
  BY DEF SeedMember, Joinable
<1>3. n \in Online(peers)  BY <1>2, HeadTailProperties DEF VisitsOnline
<1>4. /\ n \in DOMAIN peers /\ n \in Pods /\ peers[n] \in Member
      /\ Consistent(peers[n]) /\ peers[n].Online
  BY <1>3, OnlineRecord
<1>5. appendPrimaries(peers) = {}  BY <1>2, KnownPrimaries
<1> HIDE DEF n
<1>6. UNCHANGED <<pod, data, committed>>
  BY <1>1, <1>5 DEF startAppMember, StartCall
<1>7. \A p \in Pods \ {n} : app'[p] = app[p]
  BY <1>1, <1>4, StartCallHealth DEF startAppMember
<1> DEFINE r == IF ok THEN Started(peers[n], TRUE) ELSE Failing(peers[n])
<1>8. /\ r.SEQ = peers[n].SEQ /\ (~ok => r.AppFailed)
      /\ ok => r.Online /\ r.AppPrimary /\ r.AppRunning
  BY <1>4, StartedSequence, StartedRecord
<1>9. peers' = [peers EXCEPT ![n] = r]  BY <1>1 DEF startAppMember
<1> HIDE DEF r
<1>10. /\ DOMAIN peers' = DOMAIN peers /\ peers'[n] = r
       /\ \A k \in DOMAIN peers \ {n} : peers'[k] = peers[k]
  BY <1>4, <1>9 DEF LocalTypeOK, IsMemberSet
<1>11. \A q \in DOMAIN peers : peers'[q].SEQ = peers[q].SEQ  BY <1>8, <1>10
<1>12. ok => pc' = "primaries"
  <2> SUFFICES ASSUME ok PROVE AppPrimaries(peers') # 0
    BY DEF SeedMember
  <2>1. n \in PrimariesOf(peers')  BY <1>4, <1>8, <1>10 DEF PrimariesOf
  <2>2. IsFiniteSet(PrimariesOf(peers'))
    <3>1. PrimariesOf(peers') \subseteq Pods  BY <1>10 DEF LocalTypeOK, IsMemberSet, PrimariesOf
    <3> QED  BY <3>1, FS_Subset, EnvironmentAssumption
  <2> QED  BY <2>1, <2>2, FS_EmptySet DEF AppPrimaries
<1>13. ~ok => n \in Failed(peers')  BY <1>4, <1>8, <1>10 DEF Failed
<1>14. ASSUME "start" \notin Faults, Alive(n) PROVE ok /\ app'[n] = "primary"
  <2>1. PICK g : ok /\ AppBecomes(n, "primary", g)
    BY <1>1, <1>5, <1>14 DEF startAppMember, StartCall, ReliableCalls, Fault, startCommand
  <2> QED  BY <1>4, <2>1 DEF AppBecomes, EnvInv, EnvTypeOK
<1>15. ok => peers' = [peers EXCEPT ![n] = Started(@, TRUE)]  BY <1>9 DEF r
<1> QED  BY <1>3, <1>6, <1>7, <1>11, <1>12, <1>13, <1>14, <1>15 DEF n

\* Trying a seed.
LEMMA SeedMemberNewest ==
    ASSUME ReliableCalls, OneLineageInv, SeedingInv, SteadyHere, SequencesTrue, SeedMember,
           steady' \subseteq steady
    PROVE  SequencesTrue' /\ FirstSeedNewest'
<1>1. pc = "seed" /\ pc' \in {"primaries", "seed"} /\ todo' = todo  BY DEF SeedMember
<1>2. CASE pc' = "primaries"  BY <1>2, ElsewhereNewest
<1>3. CASE pc' = "seed"
  <2>1. steady \subseteq DOMAIN peers
    BY <1>1 DEF SteadyHere, SeedingInv, RoundSound, Online
  <2> QED  BY <1>1, <1>3, <2>1, SeedStarts DEF SequencesTrue, FirstSeedNewest
<1> QED  BY <1>1, <1>2, <1>3

\* Nothing is written while no primary is live.
LEMMA OutsideNewest ==
    ASSUME OneLineageInv, SequencesTrue, FirstSeedNewest, EnvStep \/ UNCHANGED data,
           UNCHANGED <<pc, peers, local>>, pc # "idle" => steady' \subseteq steady
    PROVE  SequencesTrue' /\ FirstSeedNewest'
<1>1. UNCHANGED <<peers, todo, seeds, pc>>  BY DEF local
<1>2. FirstSeedNewest'  BY <1>1 DEF FirstSeedNewest
<1>3. CASE (pc = "detect" /\ PrimariesOf(peers) = {}) \/ pc \in {"choose", "seed"}
  <2>1. UNCHANGED data
    BY <1>3, NoneLive
       DEF EnvStep, Write, LivePrimaries, KubernetesStep, FaultStep, PodGone, PodCreated, PodRuns,
           StartFinishes, AppStops, AppBreaks, AppDemoted, PodDies, Vanish
  <2> QED  BY <1>1, <1>2, <1>3, <2>1 DEF SequencesTrue
<1>4. CASE ~((pc = "detect" /\ PrimariesOf(peers) = {}) \/ pc \in {"choose", "seed"})
  BY <1>1, <1>2, <1>4 DEF SequencesTrue
<1> QED  BY <1>3, <1>4

\* Every step preserves the invariant.
LEMMA NextNewest ==
    ASSUME ReliableCalls, TrueSequences, OneLineageInv, SeedingInv, NewestInv, [Next]_vars
    PROVE  NewestInv'
<1> USE DEF NewestInv
<1>1. SteadyHere' /\ (pc # "idle" => steady' \subseteq steady)  BY NextSteady
<1> SUFFICES SequencesTrue' /\ FirstSeedNewest'
  BY <1>1
<1>2. CASE OperatorStep
  <2>1. CASE GiveUp \/ Idle
    BY <2>1, ElsewhereNewest DEF GiveUp, StartReconcile, Idle, Visit
  <2>2. ASSUME NEW n \in Pods, CheckMember(n) \/ RecoverMember(n)
        PROVE  SequencesTrue' /\ FirstSeedNewest'
    BY <2>2, ElsewhereNewest DEF CheckMember, RecoverMember
  <2>3. ASSUME NEW n \in Pods, DetectMember(n) PROVE SequencesTrue' /\ FirstSeedNewest'
    BY <1>1, <2>3, DetectMemberNewest DEF DetectMember
  <2>4. CASE Replicate  BY <1>1, <2>4, ReplicateNewest DEF Replicate
  <2>5. CASE DetectDone  BY <1>1, <2>5, DetectDoneNewest DEF DetectDone
  <2>6. CASE ChooseSeeds  BY <1>1, <2>6, ChooseSeedsNewest DEF ChooseSeeds
  <2>7. CASE SeedMember  BY <1>1, <2>7, SeedMemberNewest DEF SeedMember
  <2>8. CASE \/ CheckDone \/ ReconcileDone \/ SeedsExhausted \/ StartPrimary \/ DemotePrimary
             \/ StartSecondary \/ CleanupDone
    BY <2>1, <2>8, ElsewhereNewest
       DEF CheckDone, ReconcileDone, SeedsExhausted, StartPrimary, DemotePrimary,
           StartSecondary, CleanupDone, Visit
  <2>9. CASE PrimariesDone \/ DemoteDone \/ SecondariesDone
    BY <2>1, <2>9, ElsewhereNewest
       DEF PrimariesDone, DemoteDone, SecondariesDone, LeaveStage, Finish, Visit
  <2>10. CASE PollPods
    BY <2>10, ElsewhereNewest DEF PollPods, StartReconcile, Visit
  <2> QED
    BY <1>2, <2>2, <2>3, <2>4, <2>5, <2>6, <2>7, <2>8, <2>9, <2>10 DEF OperatorStep
<1>3. CASE OperatorRestarts
  BY <1>3, ElsewhereNewest DEF OperatorRestarts, Idle, Visit
<1>4. CASE Outside(EnvStep) \/ UNCHANGED vars
  BY <1>1, <1>4, OutsideNewest DEF Outside, vars, env, world
<1> QED  BY <1>2, <1>3, <1>4 DEF Next

\* The invariants hold together.
LEMMA NewestInvAlways ==
    ASSUME ReliableCalls, TrueSequences
    PROVE  Spec => [](OneLineageInv /\ SeedingInv /\ NewestInv)
<1>1. Init => NewestInv
  BY DEF Init, NewestInv, SteadyHere, SequencesTrue, FirstSeedNewest
<1>2. OneLineageInv /\ SeedingInv /\ NewestInv /\ [Next]_vars => NewestInv'  BY NextNewest
<1> QED  BY <1>1, <1>2, SeedingInvAlways, PTL DEF Spec

\* Without a live primary only a seed becomes one.
LEMMA OnlySeedsFound ==
    ASSUME ReliableCalls, TrueSequences, OneLineageInv, [Next]_vars, LivePrimaries = {},
           NEW p \in Pods, app'[p] = "primary"
    PROVE  SeedMember /\ p = Head(seeds)
<1> USE InvParts
<1>1. app[p] # "primary" /\ app' # app  BY DEF LivePrimaries
<1>2. ~EnvStep  BY <1>1, EnvStepEnv DEF LivePrimaries
<1>3. ASSUME NEW n \in Pods, NEW ok, StopCall(n, ok) PROVE FALSE
  <2>1. CASE app' = app  BY <1>1, <2>1
  <2>2. CASE \E s \in {app[n], "stopped"} : app' = [app EXCEPT ![n] = s]
    BY <1>1, <2>2 DEF EnvInv, EnvTypeOK
  <2> QED  BY <1>3, <2>1, <2>2 DEF StopCall, AppBecomes
<1>4. ASSUME NEW n \in Pods, RecoverMember(n) PROVE FALSE
  BY <1>1, <1>3, <1>4 DEF RecoverMember
<1>5. ASSUME NEW n \in Pods, CheckMember(n) \/ DetectMember(n) PROVE FALSE
  BY <1>1, <1>5 DEF CheckMember, StatusCall, DetectMember, SequenceCall, world
<1>6. ASSUME NEW n \in chooseMember(peers), NEW asPrimary, NEW ok \in BOOLEAN,
             startAppMember(n, asPrimary, ok), PrimariesOf(peers) # {}
      PROVE  FALSE
  <2>1. n \in Pods  BY <1>6, ChosenIsCandidate DEF Candidates, LocalTypeOK, IsMemberSet
  <2>2. appendPrimaries(peers) # {}  BY <1>6, KnownPrimaries
  <2>3. app[n] # "primary"  BY <2>1 DEF LivePrimaries
  <2>4. PICK c : StartCall(n, c, appendPrimaries(peers), ok)  BY <1>6 DEF startAppMember
  <2>5. PICK known : known = appendPrimaries(peers)  OBVIOUS
  <2>6. StartCall(n, c, known, ok) /\ known # {}  BY <2>2, <2>4, <2>5
  <2>7. CASE app' = app  BY <1>1, <2>7
  <2>8. CASE \E s \in FailedStartLeaves : AppBecomes(n, s, NewLineage(n))
    BY <1>1, <2>1, <2>8 DEF AppBecomes, ReliableCalls, EnvInv, EnvTypeOK
  <2>9. ~Fault("get")  BY DEF ReliableCalls, Fault
  <2> QED  BY <2>3, <2>6, <2>7, <2>8, <2>9 DEF StartCall
<1>7. ~StartPrimary
  BY <1>6 DEF StartPrimary, Joinable
<1>8. ~StartSecondary
  BY <1>6 DEF StartSecondary, Joinable, TrueSequences
<1>9. ~DemotePrimary
  <2> SUFFICES ASSUME DemotePrimary PROVE FALSE
    OBVIOUS
  <2>1. PICK n \in chooseCurrentPrimary(peers), ok \in BOOLEAN : stopAppMember(n, ok)
    BY DEF DemotePrimary
  <2>2. n \in Pods  BY <2>1 DEF chooseCurrentPrimary, LocalTypeOK, IsMemberSet
  <2> QED  BY <1>3, <2>1, <2>2 DEF stopAppMember
<1>10. SeedMember
  BY <1>1, <1>2, <1>4, <1>5, <1>7, <1>8, <1>9, SilentSteps
     DEF Next, OperatorStep, Outside, OperatorRestarts, vars, env, world
<1>11. p = Head(seeds)  BY <1>1, <1>10, SeedStarts
<1> QED  BY <1>10, <1>11

\* For any cluster and fault budget: when no primary is live, the first seed that is
\* started holds the highest sequence number of the Pods that stayed alive since the
\* round began (detectMembers, chooseSeeds), as long as the sequence command answers
\* truly.
THEOREM NewestSeededAlways ==
    ASSUME ReliableCalls, TrueSequences
    PROVE  Spec => NewestSeeded
<1> DEFINE Newest == \A p \in steady :
                       LivePrimaries = {} /\ Failed(peers) = {} /\ app'[p] = "primary" =>
                          \A q \in steady : data[q] <= data[p]
<1>1. OneLineageInv /\ SeedingInv /\ NewestInv /\ [Next]_vars => [Newest]_vars
  <2> SUFFICES ASSUME OneLineageInv, SeedingInv, NewestInv, [Next]_vars, NEW p \in steady,
                      LivePrimaries = {}, Failed(peers) = {}, app'[p] = "primary",
                      NEW q \in steady
               PROVE  data[q] <= data[p]
    OBVIOUS
  <2>1. steady \subseteq Pods  BY InvParts DEF LocalTypeOK
  <2>2. SeedMember /\ p = Head(seeds)  BY <2>1, OnlySeedsFound
  <2>3. pc = "seed"  BY <2>2 DEF SeedMember
  <2>4. q \in Online(peers)
    BY <2>3 DEF NewestInv, SteadyHere, SeedingInv, RoundSound
  <2>5. peers[q].SEQ <= peers[p].SEQ
    BY <2>2, <2>3, <2>4 DEF NewestInv, FirstSeedNewest
  <2> QED  BY <2>3, <2>5 DEF NewestInv, SequencesTrue
<1> QED  BY <1>1, NewestInvAlways, PTL DEF Spec, NewestSeeded

----------------------------------------------------------------------------
(***************************************************************************)
(* What a client was told is written.                                      *)
(***************************************************************************)

\* A record gets its sequence number from the volume, keeps it, or loses it.
SequenceKept(n) ==
    \/ n \in DOMAIN peers /\ peers'[n].SEQ = peers[n].SEQ
    \/ peers'[n].SEQ \in {0, data[n]}
OldSequence(n, r) == r.SEQ \in {peers[n].SEQ, 0, data[n]}
SequencesKept == \A n \in DOMAIN peers' : SequenceKept(n)

\* The updates that leave the number alone, and the two that clear it.
LEMMA RecordSequences ==
    ASSUME NEW m \in Member, NEW rc
    PROVE  /\ Checked(m, rc).SEQ = m.SEQ /\ Stopped(m).SEQ = m.SEQ /\ Failing(m).SEQ = m.SEQ
           /\ Offline(m).SEQ = 0 /\ newMember.SEQ = 0
           /\ [m EXCEPT !.Online = TRUE].SEQ = m.SEQ
<1>1. Checked(m, rc).SEQ = m.SEQ  BY SMT DEF Member, Checked
<1>2. Stopped(m).SEQ = m.SEQ  BY SMT DEF Member, Stopped
<1>3. Failing(m).SEQ = m.SEQ  BY StartedSequence
<1>4. Offline(m).SEQ = 0  BY SMT DEF Member, Offline
<1>5. newMember.SEQ = 0  BY SMT DEF newMember
<1>6. [m EXCEPT !.Online = TRUE].SEQ = m.SEQ  BY SMT DEF Member
<1> QED  BY <1>1, <1>2, <1>3, <1>4, <1>5, <1>6

\* Replacing one record by one whose number is as old.
LEMMA ReplaceSequence ==
    ASSUME LocalTypeOK, NEW n \in DOMAIN peers, NEW r, OldSequence(n, r),
           peers' = [peers EXCEPT ![n] = r]
    PROVE  SequencesKept
<1>1. DOMAIN peers' = DOMAIN peers /\ peers'[n] = r
      /\ \A k \in DOMAIN peers \ {n} : peers'[k] = peers[k]
  BY DEF LocalTypeOK, IsMemberSet
<1> QED  BY <1>1 DEF SequencesKept, SequenceKept, OldSequence

\* What Reconcile() makes of a record.
LEMMA ReconciledRecord ==
    ASSUME NEW ms, NEW names, NEW n,
           n \in DOMAIN Reconcile(ms, podsToMemberSet(names))
    PROVE  LET r == Reconcile(ms, podsToMemberSet(names))[n] IN
           \/ n \in DOMAIN ms /\ r \in {ms[n], Offline(ms[n]), [ms[n] EXCEPT !.Online = TRUE]}
           \/ n \notin DOMAIN ms /\ n \in names
              /\ r \in {newMember, [newMember EXCEPT !.Online = TRUE]}
<1> DEFINE new == podsToMemberSet(names)
           known == [k \in DOMAIN ms \union names |->
                       IF k \in DOMAIN ms THEN ms[k] ELSE new[k]]
<1>1. DOMAIN new = names /\ \A k \in names : new[k] = newMember  BY DEF podsToMemberSet
<1>2. Reconcile(ms, new) =
         [k \in DOMAIN ms \union names |->
            IF k \notin names THEN Offline(known[k])
            ELSE IF k \in DiffExtended(new, ms) THEN [known[k] EXCEPT !.Online = TRUE]
            ELSE known[k]]
  BY <1>1 DEF Reconcile
<1>3. n \in DOMAIN ms \union names
  BY <1>2
<1>4. known[n] = IF n \in DOMAIN ms THEN ms[n] ELSE newMember  BY <1>1, <1>3
<1> HIDE DEF known, new
<1>5. Reconcile(ms, new)[n] \in {known[n], Offline(known[n]), [known[n] EXCEPT !.Online = TRUE]}
      /\ (n \in names => Reconcile(ms, new)[n] \in {known[n], [known[n] EXCEPT !.Online = TRUE]})
  BY <1>2, <1>3
<1> QED  BY <1>3, <1>4, <1>5 DEF new

\* reconcile() keeps the numbers of the members that are still there.
LEMMA ReconciledSequences ==
    ASSUME LocalTypeOK, NEW names, peers' = Reconcile(peers, podsToMemberSet(names))
    PROVE  SequencesKept
<1> SUFFICES ASSUME NEW n \in DOMAIN peers' PROVE SequenceKept(n)
  BY DEF SequencesKept
<1>1. \/ n \in DOMAIN peers
         /\ peers'[n] \in {peers[n], Offline(peers[n]), [peers[n] EXCEPT !.Online = TRUE]}
      \/ peers'[n] \in {newMember, [newMember EXCEPT !.Online = TRUE]}
  BY ReconciledRecord
<1>2. newMember \in Member  BY SMT DEF newMember, Member, FailureCap
<1>3. n \in DOMAIN peers => peers[n] \in Member  BY DEF LocalTypeOK, IsMemberSet
<1> QED  BY <1>1, <1>2, <1>3, RecordSequences DEF SequenceKept

\* The operator learns no number but from a volume.
LEMMA SequencesStep ==
    ASSUME OneLineageInv, [Next]_vars
    PROVE  SequencesKept
<1> USE InvParts
<1>1. CASE UNCHANGED peers  BY <1>1 DEF SequencesKept, SequenceKept
<1>2. CASE peers' = NoMembers  BY <1>2 DEF NoMembers, SequencesKept
<1>3. CASE \E names : peers' = Reconcile(peers, podsToMemberSet(names))
  BY <1>3, ReconciledSequences
<1>4. CASE GiveUp  BY <1>3, <1>4 DEF GiveUp, StartReconcile
<1>5. CASE PollPods
  <2>1. podsToMemberSet({}) = NoMembers  BY DEF podsToMemberSet, NoMembers
  <2> QED  BY <1>2, <1>3, <1>5, <2>1 DEF PollPods, StartReconcile
<1>6. \A n \in Online(peers) : n \in DOMAIN peers /\ peers[n] \in Member  BY OnlineRecord
<1>7. ASSUME NEW n \in Pods, CheckMember(n) PROVE SequencesKept
  <2>1. n \in DOMAIN peers /\ peers[n] \in Member
    BY <1>6, <1>7 DEF CheckMember, VisitsOnline
  <2>2. PICK rc : peers' = [peers EXCEPT ![n] = Checked(peers[n], rc)]
    BY <1>7 DEF CheckMember
  <2>3. OldSequence(n, Checked(peers[n], rc))  BY <2>1, RecordSequences DEF OldSequence
  <2> QED  BY <2>1, <2>2, <2>3, ReplaceSequence
<1>8. ASSUME NEW n \in Pods, RecoverMember(n) PROVE SequencesKept
  <2>1. n \in DOMAIN peers /\ peers[n] \in Member
    BY <1>6, <1>8 DEF RecoverMember, VisitsOnline
  <2>2. Failing(peers[n]) \in Member  BY <2>1, MemberTypes
  <2>3. PICK r \in {peers[n], Offline(peers[n]), Stopped(peers[n]), Failing(peers[n]),
                    Offline(Failing(peers[n]))} :
           peers' = [peers EXCEPT ![n] = r]
    BY <1>8 DEF RecoverMember, deleteMember
  <2>4. OldSequence(n, r)  BY <2>1, <2>2, <2>3, RecordSequences DEF OldSequence
  <2> QED  BY <2>1, <2>3, <2>4, ReplaceSequence
<1>9. ASSUME NEW n \in Pods, DetectMember(n) PROVE SequencesKept
  <2>1. n \in DOMAIN peers /\ peers[n] \in Member
    BY <1>6, <1>9 DEF DetectMember, VisitsOnline
  <2>2. PICK seq \in {peers[n].SEQ, data[n], 0} : peers' = [peers EXCEPT ![n].SEQ = seq]
    BY <1>9 DEF DetectMember
  <2> DEFINE r == [peers[n] EXCEPT !.SEQ = seq]
  <2>3. r.SEQ = seq  BY <2>1, SMT DEF Member
  <2>4. peers' = [peers EXCEPT ![n] = r]  BY <2>2
  <2> HIDE DEF r
  <2>5. OldSequence(n, r)  BY <2>2, <2>3 DEF OldSequence
  <2> QED  BY <2>1, <2>4, <2>5, ReplaceSequence
<1>10. ASSUME NEW n \in DOMAIN peers, NEW asPrimary \in BOOLEAN, NEW ok,
              startAppMember(n, asPrimary, ok) \/ stopAppMember(n, ok)
       PROVE  SequencesKept
  <2>1. peers[n] \in Member  BY DEF LocalTypeOK, IsMemberSet
  <2>2. PICK r \in {Started(peers[n], asPrimary), Failing(peers[n]), Stopped(peers[n])} :
           peers' = [peers EXCEPT ![n] = r]
    BY <1>10 DEF startAppMember, stopAppMember
  <2>3. /\ Started(peers[n], asPrimary).SEQ = peers[n].SEQ
        /\ Failing(peers[n]).SEQ = peers[n].SEQ /\ Stopped(peers[n]).SEQ = peers[n].SEQ
    BY <2>1, RecordSequences, StartedSequence
  <2>4. OldSequence(n, r)  BY <2>2, <2>3 DEF OldSequence
  <2> QED  BY <2>2, <2>4, ReplaceSequence
<1>11. CASE StartPrimary \/ StartSecondary
  BY <1>10, <1>11, ChosenIsCandidate DEF StartPrimary, StartSecondary, Candidates
<1>12. CASE DemotePrimary
  <2>1. chooseCurrentPrimary(peers) \subseteq DOMAIN peers  BY DEF chooseCurrentPrimary
  <2> QED  BY <1>10, <1>12, <2>1 DEF DemotePrimary
<1>13. CASE SeedMember
  <2>1. Head(seeds) \in DOMAIN peers
    BY <1>13, <1>6, HeadTailProperties DEF SeedMember, VisitsOnline
  <2> QED  BY <1>10, <1>13, <2>1 DEF SeedMember
<1>14. CASE \/ CheckDone \/ ReconcileDone \/ Replicate \/ DetectDone \/ ChooseSeeds
            \/ SeedsExhausted \/ PrimariesDone \/ DemoteDone \/ SecondariesDone \/ CleanupDone
  BY <1>1, <1>4, <1>14 DEF CheckDone, ReconcileDone, Replicate, DetectDone, ChooseSeeds,
     SeedsExhausted, PrimariesDone, DemoteDone, SecondariesDone, LeaveStage, CleanupDone
<1>15. CASE OperatorStep
  BY <1>5, <1>7, <1>8, <1>9, <1>11, <1>12, <1>13, <1>14, <1>15 DEF OperatorStep
<1> QED  BY <1>1, <1>2, <1>15 DEF Next, Outside, OperatorRestarts, vars

\* A start command that has a primary to join copies the last write from it.
LEMMA JoinVolumes ==
    ASSUME ReliableCalls, EnvInv, NoRollback, NEW n \in Pods, NEW command, NEW known,
           NEW ok \in BOOLEAN, StartCall(n, command, known, ok), known # {}
    PROVE  /\ committed' = committed
           /\ data' = data \/ data' = [data EXCEPT ![n] = committed]
           /\ \A p \in LivePrimaries' : p \in LivePrimaries \/ data'[p] = committed
<1>1. /\ app \in [Pods -> AppStates] /\ data \in [Pods -> Nat]
      /\ \A q \in LivePrimaries : data[q] = committed
  BY DEF EnvInv, EnvTypeOK, NoRollback
<1>2. committed' = committed /\ ~Fault("get")  BY DEF StartCall, ReliableCalls, Fault
<1>3. CASE UNCHANGED <<app, data>>  BY <1>2, <1>3 DEF LivePrimaries
<1>4. CASE /\ UNCHANGED data
           /\ \E s \in FailedStartLeaves : AppBecomes(n, s, NewLineage(n))
  <2>1. LivePrimaries' \subseteq LivePrimaries
    BY <1>1, <1>4 DEF AppBecomes, LivePrimaries, ReliableCalls
  <2> QED  BY <1>2, <1>4, <2>1
<1>5. ASSUME NEW q \in Pods, app[q] = "primary", NEW s, app' = [app EXCEPT ![n] = s],
             data' = [data EXCEPT ![n] = data[q]]
      PROVE  /\ data' = [data EXCEPT ![n] = committed]
             /\ \A p \in LivePrimaries' : p \in LivePrimaries \/ data'[p] = committed
  <2>1. data[q] = committed  BY <1>1, <1>5 DEF LivePrimaries
  <2> QED  BY <1>1, <1>5, <2>1 DEF LivePrimaries
<1>6. CASE \E q \in (IF app[n] = "primary" THEN {n} ELSE LivePrimaries) : \E g, s :
              AppBecomes(n, s, g) /\ data' = [data EXCEPT ![n] = data[q]]
  BY <1>2, <1>5, <1>6 DEF AppBecomes, LivePrimaries
<1> QED  BY <1>2, <1>3, <1>4, <1>6 DEF StartCall

\* A write reaches every live primary: they are of one lineage.
LEMMA WriteVolumes ==
    ASSUME EnvInv, NoRollback, NEW p \in Pods, Write(p),
           \A q \in Pods : data[q] <= committed
    PROVE  /\ NoRollback'
           /\ \A q \in Pods : data'[q] <= committed' /\ data[q] <= data'[q]
           /\ data'[p] = committed'
<1>1. /\ app[p] = "primary" /\ committed' = committed + 1 /\ UNCHANGED <<app, lineage>>
      /\ data \in [Pods -> Nat] /\ committed \in Nat
  BY DEF Write, EnvInv, EnvTypeOK
<1>2. PICK S : data' = [q \in Pods |->
                          IF q \in S \/ (app[q] = "primary" /\ lineage[q] = lineage[p])
                          THEN committed + 1 ELSE data[q]]
  BY DEF Write
<1>3. \A q \in Pods : data'[q] = committed' \/ data'[q] = data[q]  BY <1>1, <1>2
<1>4. \A q \in LivePrimaries : data'[q] = committed'
  BY <1>1, <1>2 DEF EnvInv, OneLineage, LivePrimaries
<1>5. NoRollback'  BY <1>1, <1>4 DEF NoRollback, LivePrimaries
<1>6. \A q \in Pods : data'[q] <= committed' /\ data[q] <= data'[q]
  <2> SUFFICES ASSUME NEW q \in Pods PROVE data'[q] <= committed' /\ data[q] <= data'[q]
    OBVIOUS
  <2>1. data[q] \in Nat /\ data[q] <= committed /\ data'[q] \in {committed', data[q]}
    BY <1>1, <1>3
  <2> QED  BY <1>1, <2>1, SMT
<1> QED  BY <1>1, <1>4, <1>5, <1>6 DEF LivePrimaries
\* What a step does to the volumes: none loses anything, one holds every write, and
\* so does every live primary.
Forward ==
    /\ NoRollback'
    /\ \A p \in Pods : data'[p] <= committed' /\ data[p] <= data'[p]
    /\ \E p \in Pods : data'[p] = committed'

\* A step that writes nothing and starts no primary.
LEMMA QuietVolumes ==
    ASSUME EnvTypeOK, NoRollback, VolumesBehind, UNCHANGED <<data, committed>>,
           LivePrimaries' \subseteq LivePrimaries
    PROVE  Forward
<1>1. \A p \in Pods : data[p] \in Nat  BY DEF EnvTypeOK
<1>2. \A p \in Pods : data[p] <= data[p]  BY <1>1, SMT
<1>3. NoRollback'  BY DEF NoRollback
<1> QED  BY <1>2, <1>3 DEF VolumesBehind, Forward

\* Starting a member that has a primary to join.
LEMMA StartVolumes ==
    ASSUME ReliableCalls, TrueSequences, OneLineageInv, NoRollback, VolumesBehind,
           StartPrimary \/ StartSecondary
    PROVE  Forward
<1> USE InvParts
<1>1. PICK n \in chooseMember(peers), asPrimary \in BOOLEAN, ok \in BOOLEAN :
         startAppMember(n, asPrimary, ok)
  BY DEF StartPrimary, StartSecondary
<1>2. n \in Pods  BY <1>1, ChosenIsCandidate DEF Candidates, LocalTypeOK, IsMemberSet
<1>3. PrimariesOf(peers) # {}
  BY DEF StartPrimary, StartSecondary, Joinable, TrueSequences
<1>4. PICK known : known = appendPrimaries(peers)  OBVIOUS
<1>5. PICK command : StartCall(n, command, known, ok)  BY <1>1, <1>4 DEF startAppMember
<1>6. known # {}  BY <1>3, <1>4, KnownPrimaries
<1>7. /\ committed' = committed
      /\ data' = data \/ data' = [data EXCEPT ![n] = committed]
      /\ \A p \in LivePrimaries' : p \in LivePrimaries \/ data'[p] = committed
  BY <1>2, <1>5, <1>6, JoinVolumes
<1>8. data \in [Pods -> Nat] /\ committed \in Nat  BY DEF EnvInv, EnvTypeOK
<1>9. \A p \in Pods : data'[p] = data[p] \/ data'[p] = committed  BY <1>7, <1>8
<1>10. NoRollback'
  BY <1>7, <1>9 DEF NoRollback, LivePrimaries
<1>11. ASSUME NEW p \in Pods PROVE data'[p] <= committed' /\ data[p] <= data'[p]
  <2>1. data[p] \in Nat /\ data[p] <= committed /\ data'[p] \in {data[p], committed}
    BY <1>8, <1>9 DEF VolumesBehind
  <2> QED  BY <1>7, <1>8, <2>1, SMT
<1>12. \E p \in Pods : data'[p] = committed'  BY <1>7, <1>9 DEF VolumesBehind
<1> QED  BY <1>10, <1>11, <1>12 DEF Forward

\* A seed that is not lossy has the last write.
LEMMA SeedVolumes ==
    ASSUME ReliableCalls, OneLineageInv, SeedingInv, NewestInv, NoRollback, VolumesBehind,
           SeedMember, ~LossySeed
    PROVE  Forward
<1> USE InvParts
<1> DEFINE n == Head(seeds)
<1>1. /\ n \in Online(peers) /\ UNCHANGED <<data, committed>>
      /\ \A p \in Pods \ {n} : app'[p] = app[p]
  BY SeedStarts
<1>2. pc = "seed" /\ LivePrimaries = {}  BY DEF SeedMember, Joinable
<1>3. PICK q \in steady : data[q] = committed  BY DEF LossySeed
<1>4. Failed(peers) = {}  BY DEF LossySeed
<1>5. /\ q \in Online(peers) /\ peers[q].SEQ = data[q]
  BY <1>2, <1>3 DEF NewestInv, SteadyHere, SequencesTrue, SeedingInv, RoundSound
<1>6. peers[q].SEQ <= peers[n].SEQ  BY <1>2, <1>4, <1>5 DEF NewestInv, FirstSeedNewest
<1>7. n \in DOMAIN peers /\ n \in Pods /\ peers[n] \in Member  BY <1>1, OnlineRecord
<1> HIDE DEF n
<1>8. /\ peers[n].SEQ \in Nat /\ data[n] \in Nat /\ committed \in Nat
      /\ peers[n].SEQ <= data[n] /\ data[n] <= committed
  <2>1. peers[n].SEQ \in Nat  BY <1>7, SMT DEF Member
  <2> QED  BY <1>7, <2>1 DEF VolumesBehind, EnvInv, EnvTypeOK
<1>9. data[n] = committed
  <2>1. committed <= peers[n].SEQ  BY <1>3, <1>5, <1>6
  <2> QED  BY <1>8, <2>1, SMT
<1>10. LivePrimaries' \subseteq {n}  BY <1>1, <1>2 DEF LivePrimaries
<1>11. NoRollback'  BY <1>1, <1>9, <1>10 DEF NoRollback
<1>12. \A p \in Pods : data[p] <= data[p]
  <2>1. \A p \in Pods : data[p] \in Nat  BY DEF EnvInv, EnvTypeOK
  <2> QED  BY <2>1, SMT
<1> QED  BY <1>1, <1>11, <1>12 DEF VolumesBehind, Forward

\* Every step that is no lossy seed moves the volumes forward.
LEMMA NextVolumes ==
    ASSUME ReliableCalls, TrueSequences, OneLineageInv, SeedingInv, NewestInv, NoRollback,
           VolumesBehind, [Next]_vars, ~LossySeed
    PROVE  Forward
<1> USE InvParts
<1>1. EnvTypeOK  BY DEF EnvInv
<1>2. CASE UNCHANGED <<app, data, committed>>
  <2>1. LivePrimaries' \subseteq LivePrimaries  BY <1>2 DEF LivePrimaries
  <2> QED  BY <1>1, <1>2, <2>1, QuietVolumes
<1>3. ASSUME NEW n \in Pods, NEW ok, StopCall(n, ok) PROVE Forward
  <2>1. UNCHANGED <<data, committed>>  BY <1>3 DEF StopCall
  <2>2. CASE app' = app  BY <1>2, <2>1, <2>2
  <2>3. CASE \E s \in {app[n], "stopped"} : app' = [app EXCEPT ![n] = s]
    <3>1. LivePrimaries' \subseteq LivePrimaries  BY <1>1, <2>3 DEF EnvTypeOK, LivePrimaries
    <3> QED  BY <1>1, <2>1, <3>1, QuietVolumes
  <2> QED  BY <1>3, <2>2, <2>3 DEF StopCall, AppBecomes
<1>4. ASSUME NEW n \in Pods, RecoverMember(n) PROVE Forward
  BY <1>2, <1>3, <1>4 DEF RecoverMember
<1>5. ASSUME NEW n \in Pods, CheckMember(n) \/ DetectMember(n) PROVE Forward
  BY <1>2, <1>5 DEF CheckMember, StatusCall, DetectMember, SequenceCall, world
<1>6. CASE DemotePrimary
  <2>1. chooseCurrentPrimary(peers) \subseteq Pods
    BY DEF chooseCurrentPrimary, LocalTypeOK, IsMemberSet
  <2> QED  BY <1>3, <1>6, <2>1 DEF DemotePrimary, stopAppMember
<1>7. CASE OperatorStep
  <2>1. CASE \/ PollPods \/ CheckDone \/ ReconcileDone \/ Replicate \/ DetectDone
             \/ ChooseSeeds \/ SeedsExhausted \/ PrimariesDone \/ DemoteDone
             \/ SecondariesDone \/ CleanupDone
    BY <1>2, <2>1, SilentSteps
  <2> QED
    BY <1>4, <1>5, <1>6, <1>7, <2>1, StartVolumes, SeedVolumes DEF OperatorStep
<1>8. CASE EnvStep
  <2>1. ASSUME NEW p \in Pods, Write(p) PROVE Forward
    <3>1. \A q \in Pods : data[q] <= committed  BY DEF VolumesBehind
    <3> QED  BY <2>1, <3>1, WriteVolumes DEF Forward
  <2>2. CASE UNCHANGED <<data, committed>>  BY <1>1, <1>8, <2>2, EnvStepEnv, QuietVolumes
  <2> QED
    BY <1>8, <2>1, <2>2
       DEF EnvStep, KubernetesStep, FaultStep, PodGone, PodCreated, PodRuns, StartFinishes,
           AppStops, AppBreaks, AppDemoted, PodDies, Vanish
<1>9. CASE OperatorRestarts \/ UNCHANGED vars
  BY <1>2, <1>9 DEF OperatorRestarts, world, vars, env
<1> QED  BY <1>7, <1>8, <1>9 DEF Next, Outside

\* So does what the operator believes of them.
LEMMA NextBehind ==
    ASSUME ReliableCalls, TrueSequences, OneLineageInv, SeedingInv, NewestInv, NoRollback,
           VolumesBehind, [Next]_vars, ~LossySeed
    PROVE  NoRollback' /\ VolumesBehind'
<1>1. Forward  BY NextVolumes
<1>2. SequencesKept  BY SequencesStep
<1>3. OneLineageInv'  BY NextInv
<1>4. /\ DOMAIN peers \subseteq Pods /\ DOMAIN peers' \subseteq Pods
      /\ \A p \in Pods : data[p] \in Nat /\ data'[p] \in Nat
  BY <1>3, InvParts, InvPartsNext DEF EnvInv, EnvTypeOK, LocalTypeOK, IsMemberSet
<1>5. \A k \in DOMAIN peers : peers[k].SEQ \in Nat
  <2>1. \A k \in DOMAIN peers : peers[k] \in Member  BY InvParts DEF LocalTypeOK, IsMemberSet
  <2>2. \A m \in Member : m.SEQ \in Nat  BY SMT DEF Member
  <2> QED  BY <2>1, <2>2
<1>6. ASSUME NEW n \in DOMAIN peers' PROVE peers'[n].SEQ <= data'[n]
  <2>1. n \in Pods /\ data[n] \in Nat /\ data'[n] \in Nat /\ data[n] <= data'[n]
    BY <1>1, <1>4, <1>6 DEF Forward
  <2>2. CASE n \in DOMAIN peers /\ peers'[n].SEQ = peers[n].SEQ
    <3>1. peers[n].SEQ \in Nat /\ peers[n].SEQ <= data[n]
      BY <1>5, <2>2 DEF VolumesBehind
    <3> QED  BY <2>1, <2>2, <3>1, SMT
  <2>3. CASE peers'[n].SEQ \in {0, data[n]}  BY <2>1, <2>3, SMT
  <2> QED  BY <1>2, <2>2, <2>3 DEF SequencesKept, SequenceKept
<1> QED  BY <1>1, <1>6 DEF Forward, VolumesBehind

\* The operator starts with every write on some volume, and with no beliefs.
LEMMA InitVolumes == Init => NoRollback /\ VolumesBehind
BY DEF Init, EnvInit, NoMembers, NoRollback, VolumesBehind, LivePrimaries

\* For any cluster and fault budget: the only step that can lose a write a client was
\* told of is the start of a seed after another one failed to start, or with no Pod left
\* alive, since the round began, that has it (the loop over the seeds in replicate()).
\* Joining, writing, demoting, recovering and restarting never do.
THEOREM OnlyLossySeedsRollBack ==
    ASSUME ReliableCalls, TrueSequences
    PROVE  Spec /\ [][~LossySeed]_vars => []NoRollback
<1> DEFINE I == OneLineageInv /\ SeedingInv /\ NewestInv
           J == NoRollback /\ VolumesBehind
<1>1. Init => J  BY InitVolumes
<1>2. I /\ J /\ [Next]_vars /\ [~LossySeed]_vars => J'
  <2>1. ASSUME I, J, UNCHANGED vars PROVE J'
    BY <2>1 DEF vars, env, world, NoRollback, VolumesBehind, LivePrimaries
  <2> QED  BY <2>1, NextBehind
<1>3. Spec => []I  BY NewestInvAlways
<1> HIDE DEF I
<1>4. Spec /\ [][~LossySeed]_vars => []J
  BY <1>1, <1>2, <1>3, PTL DEF Spec
<1> QED  BY <1>4, PTL
\* With every Pod running and start commands that work, the history is the whole
\* cluster and no seed has failed.
LEMMA NextSeedsSound ==
    ASSUME ReliableCalls, "start" \notin Faults, OneLineageInv, SeedingInv, SeedsSound,
           AllPodsRun, AllPodsRun', [Next]_vars
    PROVE  SeedsSound'
<1> USE InvParts
<1>1. steady' = Pods
  <2>1. CASE UNCHANGED vars  BY <2>1 DEF vars, SeedsSound
  <2>2. CASE Track  BY <2>2 DEF Track, AllPodsRun, SeedsSound
  <2> QED  BY <2>1, <2>2 DEF Next, OperatorStep, Outside
<1>2. CASE pc' # "seed"  BY <1>1, <1>2 DEF SeedsSound
<1>3. CASE UNCHANGED <<pc, peers>>  BY <1>1, <1>3 DEF SeedsSound, Failed
<1>4. CASE ChooseSeeds
  <2>1. pc = "choose" /\ (pc' = "seed" => peers' = peers)
    BY <1>4 DEF ChooseSeeds, GiveUp, StartReconcile, Visit
  <2> QED  BY <1>1, <2>1 DEF SeedsSound, SeedingInv, RoundSound, Failed
<1>5. CASE SeedMember
  <2>1. Head(seeds) \in Pods  BY <1>5, SeedStarts, OnlineRecord
  <2>2. Alive(Head(seeds))  BY <2>1 DEF AllPodsRun, Alive
  <2>3. pc' = "primaries"  BY <1>5, <2>2, SeedStarts
  <2> QED  BY <1>2, <2>3
<1>6. CASE SeedsExhausted \/ CleanupDone
  BY <1>2, <1>6 DEF SeedsExhausted, CleanupDone, GiveUp, StartReconcile, Idle, Visit
<1>7. CASE PrimariesDone \/ DemoteDone \/ SecondariesDone
  BY <1>2, <1>7 DEF PrimariesDone, DemoteDone, SecondariesDone, LeaveStage, Finish, Idle, Visit
<1>8. CASE StartPrimary \/ StartSecondary \/ DemotePrimary
  BY <1>2, <1>8 DEF StartPrimary, StartSecondary, DemotePrimary
<1>9. CASE PollPods \/ CheckDone \/ ReconcileDone \/ Replicate \/ DetectDone
  BY <1>2, <1>9 DEF PollPods, StartReconcile, CheckDone, ReconcileDone, Replicate, GiveUp,
     DetectDone, Idle, Visit
<1>10. ASSUME NEW n \in Pods, CheckMember(n) \/ RecoverMember(n) \/ DetectMember(n)
       PROVE  pc' # "seed"
  BY <1>10 DEF CheckMember, RecoverMember, DetectMember
<1>11. CASE OperatorStep
  BY <1>2, <1>4, <1>5, <1>6, <1>7, <1>8, <1>9, <1>10, <1>11 DEF OperatorStep
<1>12. CASE OperatorRestarts  BY <1>2, <1>12 DEF OperatorRestarts, Idle, Visit
<1> QED  BY <1>3, <1>11, <1>12 DEF Next, Outside, vars

\* For any cluster: as long as every Pod runs and start commands work, no client loses
\* what it was told is written, whatever applications stop, break or lose their role,
\* whatever status, stop and label calls fail, and whenever the operator restarts: the
\* only loss left is that of a Pod (startAppMember, chooseSeeds, detectMembers).
THEOREM RunningPodsKeepWrites ==
    ASSUME ReliableCalls, TrueSequences, "start" \notin Faults
    PROVE  Spec /\ []AllPodsRun => []NoRollback
<1> DEFINE I == OneLineageInv /\ SeedingInv /\ NewestInv
           J == NoRollback /\ VolumesBehind /\ SeedsSound
<1>1. Init /\ AllPodsRun => J
  <2>1. Init /\ AllPodsRun => SeedsSound  BY DEF Init, AllPodsRun, SeedsSound, Alive
  <2> QED  BY <2>1, InitVolumes
<1>2. I /\ J /\ AllPodsRun /\ AllPodsRun' /\ [Next]_vars => J'
  <2> SUFFICES ASSUME I, J, AllPodsRun, AllPodsRun', [Next]_vars PROVE J'
    OBVIOUS
  <2>1. SeedsSound'  BY NextSeedsSound
  <2>2. ~LossySeed  BY DEF LossySeed, SeedMember, SeedsSound, VolumesBehind
  <2> QED  BY <2>1, <2>2, NextBehind
<1>3. Spec => []I  BY NewestInvAlways
<1> HIDE DEF I
<1>4. Spec /\ []AllPodsRun => []J
  BY <1>1, <1>2, <1>3, PTL DEF Spec
<1> QED  BY <1>4, PTL

----------------------------------------------------------------------------
(***************************************************************************)
(* When no Pod is deleted.                                                 *)
(***************************************************************************)

\* No member has failed more often than before.
FailuresKept ==
    \A n \in DOMAIN peers' :
        \/ n \in DOMAIN peers /\ peers'[n].Failures = peers[n].Failures
        \/ peers'[n].Failures = 0

\* The updates that leave the counter alone, and the one that does not.
LEMMA RecordFailures ==
    ASSUME NEW m \in Member, NEW rc, NEW asPrimary \in BOOLEAN
    PROVE  /\ Checked(m, rc).Failures = m.Failures /\ Stopped(m).Failures = m.Failures
           /\ Started(m, asPrimary).Failures = m.Failures /\ Offline(m).Failures = m.Failures
           /\ [m EXCEPT !.Online = TRUE].Failures = m.Failures
           /\ [m EXCEPT !.SEQ = rc].Failures = m.Failures
           /\ m.Failures = 0 => Failing(m).Failures = 1
<1>1. Checked(m, rc).Failures = m.Failures  BY SMT DEF Member, Checked
<1>2. Stopped(m).Failures = m.Failures  BY SMT DEF Member, Stopped
<1>3. Started(m, asPrimary).Failures = m.Failures  BY SMT DEF Member, Started
<1>4. Offline(m).Failures = m.Failures  BY SMT DEF Member, Offline
<1>5. [m EXCEPT !.Online = TRUE].Failures = m.Failures  BY SMT DEF Member
<1>6. [m EXCEPT !.SEQ = rc].Failures = m.Failures  BY SMT DEF Member
<1>7. ASSUME m.Failures = 0 PROVE Failing(m).Failures = 1
  <2> DEFINE f == IF m.Failures < FailureCap THEN m.Failures + 1 ELSE m.Failures
  <2>1. f = 1  BY <1>7, SMT DEF FailureCap
  <2>2. Failing(m) = [m EXCEPT !.AppFailed = TRUE, !.Failures = f]  BY DEF Failing
  <2> HIDE DEF f
  <2> QED  BY <2>1, <2>2, SMT DEF Member
<1> QED  BY <1>1, <1>2, <1>3, <1>4, <1>5, <1>6, <1>7

\* Replacing one record, as far as stale primaries and the counters go.
LEMMA ReplaceStale ==
    ASSUME LocalTypeOK, NEW n \in DOMAIN peers, NEW r, peers' = [peers EXCEPT ![n] = r],
           \A p \in Pods \ {n} : app'[p] = app[p]
    PROVE  /\ Stale' \ {n} = Stale \ {n}
           /\ n \in Stale' <=> r.Online /\ r.AppPrimary /\ r.AppRunning /\ app'[n] # "primary"
           /\ r.Failures = peers[n].Failures => FailuresKept
<1>1. DOMAIN peers \subseteq Pods  BY DEF LocalTypeOK, IsMemberSet
<1>2. PrimariesOf(peers) \subseteq DOMAIN peers  BY DEF PrimariesOf
<1>3. /\ PrimariesOf(peers') \ {n} = PrimariesOf(peers) \ {n}
      /\ n \in PrimariesOf(peers') <=> r.Online /\ r.AppPrimary /\ r.AppRunning
  BY ReplaceRecord
<1>4. LivePrimaries' \ {n} = LivePrimaries \ {n}  BY DEF LivePrimaries
<1>5. n \in LivePrimaries' <=> app'[n] = "primary"  BY <1>1 DEF LivePrimaries
<1>6. Stale' = PrimariesOf(peers') \ LivePrimaries'  BY DEF Stale
<1>7. DOMAIN peers' = DOMAIN peers /\ peers'[n] = r
      /\ \A k \in DOMAIN peers \ {n} : peers'[k] = peers[k]
  BY DEF LocalTypeOK, IsMemberSet
<1>8. r.Failures = peers[n].Failures => FailuresKept  BY <1>7 DEF FailuresKept
<1> QED  BY <1>3, <1>4, <1>5, <1>6, <1>8 DEF Stale

\* A step that makes no record worse.
LEMMA NotWorse ==
    ASSUME FailsOnce, FailuresKept, Stale' \subseteq Stale, faults' = faults
    PROVE  /\ \A n \in DOMAIN peers' : peers'[n].Failures <= 1
           /\ faults' = 0 => NoneFailedYet' /\ Stale' = {}
           /\ NoneFailedYet => NoneFailedYet'
<1>1. 0 <= 1  BY SMT
<1> QED  BY <1>1 DEF FailsOnce, FailuresKept, NoneFailedYet

\* A fault is the first.
LEMMA FirstFault ==
    ASSUME OneSoftFault, EnvTypeOK, NEW kind, Fault(kind)
    PROVE  faults = 0 /\ faults' # 0
BY EnvironmentAssumption, SMT DEF OneSoftFault, EnvTypeOK, Fault

\* In a running Pod the stop command works.
LEMMA RunningStop ==
    ASSUME OneSoftFault, AllPodsRun, EnvTypeOK, NEW n \in Pods, NEW ok, StopCall(n, ok)
    PROVE  /\ ok /\ faults' = faults /\ app'[n] = "stopped"
           /\ \A p \in Pods \ {n} : app'[p] = app[p]
<1>1. Alive(n) /\ pod[n] # "absent"  BY DEF AllPodsRun, Alive
<1>2. ~Fault("stop") /\ ~Fault("get")  BY DEF OneSoftFault, Fault
<1>3. ok /\ faults' = faults /\ AppBecomes(n, "stopped", 0)  BY <1>1, <1>2 DEF StopCall
<1> QED  BY <1>3 DEF AppBecomes, EnvTypeOK

\* So recover() deletes no Pod.
LEMMA RecoverStops ==
    ASSUME OneSoftFault, OneLineageInv, AllPodsRun, FailsOnce, NEW n \in Pods, RecoverMember(n)
    PROVE  StopCall(n, TRUE) /\ peers' = [peers EXCEPT ![n] = Stopped(@)] /\ pod' = pod
<1> USE InvParts
<1>1. n \in DOMAIN peers /\ peers[n] \in Member
  BY OnlineRecord DEF RecoverMember, VisitsOnline
<1>2. peers[n].Failures \in Nat  BY <1>1, SMT DEF Member, FailureCap
<1>3. peers[n].Failures <= 1  BY <1>1 DEF FailsOnce
<1>4. ~(peers[n].Failures > 1)  BY <1>2, <1>3, SMT
<1>5. ~StopCall(n, FALSE)  BY RunningStop DEF EnvInv
<1> QED  BY <1>4, <1>5 DEF RecoverMember

\* No step takes a Pod away.
LEMMA NextPodsRun ==
    ASSUME OneSoftFault, OneLineageInv, AllPodsRun, FailsOnce, [Next]_vars
    PROVE  AllPodsRun'
<1>1. CASE UNCHANGED pod  BY <1>1 DEF AllPodsRun
<1>2. ASSUME NEW n \in Pods, CheckMember(n) \/ DetectMember(n) \/ RecoverMember(n)
      PROVE UNCHANGED pod
  BY <1>2, RecoverStops DEF CheckMember, StatusCall, DetectMember, SequenceCall, world
<1>3. ASSUME SeedMember \/ StartPrimary \/ StartSecondary \/ DemotePrimary PROVE UNCHANGED pod
  BY <1>3 DEF SeedMember, StartPrimary, StartSecondary, DemotePrimary, startAppMember, StartCall
<1>4. CASE OperatorStep
  BY <1>1, <1>2, <1>3, <1>4, SilentSteps DEF OperatorStep
<1>5. CASE EnvStep
  <2>1. ~Fault("podDies")  BY DEF OneSoftFault, Fault
  <2> QED
    BY <1>1, <1>5, <2>1
       DEF EnvStep, KubernetesStep, FaultStep, PodGone, PodCreated, PodRuns, StartFinishes,
           AppStops, AppBreaks, AppDemoted, PodDies, Write, AllPodsRun
<1>6. CASE OperatorRestarts \/ UNCHANGED vars
  BY <1>1, <1>6 DEF OperatorRestarts, world, vars, env
<1> QED  BY <1>4, <1>5, <1>6 DEF Next, Outside
\* Away from the loops that depend on it, only the counters matter.
LEMMA ElsewhereFails ==
    ASSUME FailsOnce, FailuresKept, Stale' \subseteq Stale, faults' = faults,
           pc' \in {"idle", "cleanup"}
    PROVE  FailsOnce'
<1>1. /\ \A n \in DOMAIN peers' : peers'[n].Failures <= 1
      /\ faults' = 0 => NoneFailedYet' /\ Stale' = {}
  BY NotWorse
<1> QED  BY <1>1 DEF FailsOnce

\* Only an online member is believed to be a primary.
LEMMA StaleOnline == Stale \subseteq Online(peers)
BY DEF Stale, PrimariesOf, Online

\* The status loop ends: a stale primary that was visited has failed, and will be
\* recovered.
LEMMA CheckDoneFails ==
    ASSUME FailsOnce, CheckDone
    PROVE  FailsOnce'
<1>1. /\ pc = "check" /\ pc' = "recover" /\ todo = {} /\ todo' = Recoverable(peers)
      /\ UNCHANGED <<peers, app, faults>>
  BY SilentSteps DEF CheckDone, Visit
<1>2. FailuresKept /\ Stale' = Stale
  BY <1>1 DEF FailuresKept, Stale, LivePrimaries
<1>3. NoneFailedYet \/ Stale \subseteq Failed(peers)  BY <1>1 DEF FailsOnce
<1>4. NoneFailedYet' \/ Stale \subseteq Recoverable(peers)
  BY <1>1, <1>3, StaleOnline DEF Recoverable, Online, NoneFailedYet
<1> QED  BY <1>1, <1>2, <1>4, NotWorse DEF FailsOnce

\* A step that moves on without calling anything, past the status loop.
LEMMA MoveFails ==
    ASSUME FailsOnce, UNCHANGED <<peers, app, faults>>,
           \/ pc' \in {"idle", "cleanup"}
           \/ pc = "recover" /\ todo = {} /\ pc' = "replicate"
           \/ pc \in {"replicate", "detect", "choose"}
              /\ pc' \in {"replicate", "detect", "choose", "seed", "primaries"}
           \/ pc \in {"primaries", "demote"} /\ pc' \in {"demote", "secondaries"}
    PROVE  FailsOnce'
<1>1. FailuresKept /\ Stale' = Stale
  BY DEF FailuresKept, Stale, LivePrimaries
<1>2. CASE pc' \in {"idle", "cleanup"}  BY <1>1, <1>2, ElsewhereFails
<1>3. /\ \A n \in DOMAIN peers' : peers'[n].Failures <= 1
      /\ faults' = 0 => NoneFailedYet' /\ Stale' = {}
      /\ NoneFailedYet' <=> NoneFailedYet
  BY <1>1, NotWorse DEF NoneFailedYet
<1>4. CASE pc = "recover" /\ todo = {} /\ pc' = "replicate"
  <2>1. NoneFailedYet \/ Stale = {}  BY <1>4 DEF FailsOnce
  <2> QED  BY <1>1, <1>3, <1>4, <2>1 DEF FailsOnce
<1>5. CASE pc \in {"replicate", "detect", "choose"}
           /\ pc' \in {"replicate", "detect", "choose", "seed", "primaries"}
  <2>1. NoneFailedYet \/ Stale = {}  BY <1>5 DEF FailsOnce
  <2>2. NoneFailedYet => \A n \in DOMAIN peers : peers[n].Failures # 1
    <3>1. 0 # 1  BY SMT
    <3> QED  BY <3>1 DEF NoneFailedYet
  <2> QED  BY <1>1, <1>3, <1>5, <2>1, <2>2 DEF FailsOnce
<1>6. CASE pc \in {"primaries", "demote"} /\ pc' \in {"demote", "secondaries"}
  <2>1. Stale = {} \/ \A n \in DOMAIN peers : peers[n].Failures = 1 => peers[n].AppFailed
    BY <1>6 DEF FailsOnce
  <2> QED  BY <1>1, <1>3, <1>6, <2>1 DEF FailsOnce
<1> QED  BY <1>2, <1>4, <1>5, <1>6

\* reconcile() begins: it believes in no more primaries than before, and has all of
\* them before it.
LEMMA StartReconcileFails ==
    ASSUME OneLineageInv, FailsOnce, NEW names, NEW retry, StartReconcile(names, retry),
           UNCHANGED env
    PROVE  FailsOnce'
<1> USE InvParts
<1>1. /\ peers' = Reconcile(peers, podsToMemberSet(names))
      /\ pc' = "check" /\ todo' = Online(peers') \ Failed(peers')
  BY DEF StartReconcile, Visit
<1>2. UNCHANGED <<app, faults>>  BY DEF env, world
<1>3. ASSUME NEW n \in DOMAIN peers'
      PROVE  \/ /\ n \in DOMAIN peers /\ peers[n] \in Member /\ Consistent(peers[n])
                /\ peers'[n] \in {peers[n], Offline(peers[n]), [peers[n] EXCEPT !.Online = TRUE]}
             \/ peers'[n] \in {newMember, [newMember EXCEPT !.Online = TRUE]}
  BY <1>1, ReconciledRecord DEF LocalTypeOK, IsMemberSet, MembersConsistent
<1>4. /\ newMember.Failures = 0 /\ [newMember EXCEPT !.Online = TRUE].Failures = 0
      /\ ~newMember.AppPrimary /\ ~[newMember EXCEPT !.Online = TRUE].AppPrimary
  BY SMT DEF newMember
<1>5. FailuresKept  BY <1>3, <1>4, RecordFailures DEF FailuresKept
<1>6. ASSUME NEW m \in Member, Consistent(m)
      PROVE  /\ ~Offline(m).Online
             /\ [m EXCEPT !.Online = TRUE].AppPrimary => m.AppPrimary /\ m.AppRunning /\ m.Online
  <2>1. ~Offline(m).Online  BY <1>6, SMT DEF Member, Offline
  <2>2. [m EXCEPT !.Online = TRUE].AppPrimary = m.AppPrimary  BY <1>6, SMT DEF Member
  <2> QED  BY <1>6, <2>1, <2>2 DEF Consistent
<1>7. PrimariesOf(peers') \subseteq PrimariesOf(peers)
  BY <1>3, <1>4, <1>6 DEF PrimariesOf
<1>8. Stale' \subseteq Stale  BY <1>2, <1>7 DEF Stale, LivePrimaries
<1>9. Stale' \subseteq Online(peers')  BY DEF Stale, PrimariesOf, Online
<1> QED  BY <1>1, <1>2, <1>5, <1>8, <1>9, NotWorse DEF FailsOnce

\* The timer fires.
LEMMA PollPodsFails ==
    ASSUME OneLineageInv, OneLineageInv', FailsOnce, AllPodsRun, PollPods
    PROVE  FailsOnce'
<1>1. CASE \E names : StartReconcile(names, FALSE)
  BY <1>1, StartReconcileFails DEF PollPods
<1>2. CASE {p \in Pods : Alive(p)} = {}
  <2>1. DOMAIN peers' = {}
    BY <1>2, InvPartsNext DEF AllPodsRun, Alive, LocalTypeOK, IsMemberSet
  <2>2. NoneFailedYet' /\ Stale' = {}  BY <2>1 DEF NoneFailedYet, Stale, PrimariesOf
  <2> QED  BY <2>1, <2>2 DEF FailsOnce
<1> QED  BY <1>1, <1>2 DEF PollPods
\* What the record of a member says after the status command answered truly.
LEMMA CheckedTruly ==
    ASSUME NEW m \in Member, NEW s \in AppStates, NEW rc, rc = StatusCode(s)
    PROVE  /\ s = "broken" => Checked(m, rc).AppFailed
           /\ Checked(m, rc).AppPrimary => s = "primary" \/ (s = "broken" /\ m.AppPrimary)
<1>1. CASE s = "broken"
  <2>1. Checked(m, rc) = [m EXCEPT !.AppRunning = TRUE, !.AppFailed = TRUE]
    BY <1>1, SMT DEF StatusCode, Checked
  <2>2. Checked(m, rc).AppFailed /\ Checked(m, rc).AppPrimary = m.AppPrimary  BY <2>1 DEF Member
  <2> QED  BY <1>1, <2>2
<1>2. CASE s = "secondary"
  <2>1. Checked(m, rc) = [m EXCEPT !.AppRunning = TRUE, !.AppPrimary = FALSE]
    BY <1>2, SMT DEF StatusCode, Checked
  <2>2. ~Checked(m, rc).AppPrimary  BY <2>1 DEF Member
  <2> QED  BY <1>2, <2>2
<1>3. CASE s \in {"stopped", "starting"}
  <2>1. Checked(m, rc) = [m EXCEPT !.AppRunning = FALSE, !.AppPrimary = FALSE]
    BY <1>3, SMT DEF StatusCode, Checked
  <2>2. ~Checked(m, rc).AppPrimary  BY <2>1 DEF Member
  <2> QED  BY <1>3, <2>2
<1> QED  BY <1>1, <1>2, <1>3 DEF AppStates

\* One status command: a true answer puts the record right or makes it failed, and
\* only the first fault gives a false one.
LEMMA CheckMemberFails ==
    ASSUME ReliableCalls, OneSoftFault, OneLineageInv, AllPodsRun, FailsOnce, NEW n \in Pods,
           CheckMember(n)
    PROVE  FailsOnce'
<1> USE InvParts
<1>1. PICK code \in {0, 1, 7, 8} :
         /\ StatusCall(n, code)
         /\ peers' = [peers EXCEPT ![n] = Checked(peers[n], Remap(code))]
  BY DEF CheckMember
<1>2. pc = "check" /\ pc' = "check" /\ n \in todo /\ todo' = todo \ {n}  BY DEF CheckMember
<1>3. n \in DOMAIN peers /\ peers[n] \in Member /\ Consistent(peers[n]) /\ peers[n].Online
  BY <1>2, OnlineRecord DEF VisitsOnline
<1>4. app' = app /\ EnvTypeOK  BY <1>1 DEF StatusCall, EnvInv
<1>5. Remap(code) = code  BY DEF Remap, OneSoftFault
<1> DEFINE r == Checked(peers[n], code)
<1>6. peers' = [peers EXCEPT ![n] = r]  BY <1>1, <1>5
<1>7. r.Failures = peers[n].Failures  BY <1>3, RecordFailures
<1>8. /\ Stale' \ {n} = Stale \ {n}
      /\ n \in Stale' => r.AppPrimary /\ app[n] # "primary"
      /\ FailuresKept
  BY <1>3, <1>4, <1>6, <1>7, ReplaceStale
<1>9. Failed(peers') \ {n} = Failed(peers) \ {n} /\ (n \in Failed(peers') <=> r.AppFailed)
  BY <1>3, <1>6, ReplaceRecord
<1>10. CASE Fault("status")
  <2>1. faults = 0 /\ faults' # 0  BY <1>4, <1>10, FirstFault
  <2>2. NoneFailedYet  BY <2>1 DEF FailsOnce
  <2>3. NoneFailedYet'  BY <1>8, <2>2 DEF FailuresKept, NoneFailedYet
  <2>4. \A k \in DOMAIN peers' : peers'[k].Failures <= 1
    <3>1. 0 <= 1  BY SMT
    <3> QED  BY <2>3, <3>1 DEF NoneFailedYet
  <2> QED  BY <1>2, <2>1, <2>3, <2>4 DEF FailsOnce
<1>11. CASE code = StatusCode(app[n]) /\ UNCHANGED faults
  <2>1. app[n] \in AppStates  BY <1>4 DEF EnvTypeOK
  <2>2. /\ app[n] = "broken" => r.AppFailed
        /\ r.AppPrimary => app[n] = "primary" \/ (app[n] = "broken" /\ peers[n].AppPrimary)
    BY <1>3, <1>11, <2>1, CheckedTruly
  <2> HIDE DEF r
  <2>3. ASSUME n \in Stale' PROVE n \in Stale /\ n \in Failed(peers')
    <3>1. app[n] = "broken" /\ peers[n].AppPrimary /\ r.AppFailed  BY <1>8, <2>2, <2>3
    <3>2. n \in PrimariesOf(peers)  BY <1>3, <3>1 DEF Consistent, PrimariesOf
    <3> QED  BY <1>9, <3>1, <3>2 DEF Stale, LivePrimaries
  <2>4. Stale' \subseteq Stale  BY <1>8, <2>3
  <2>5. NoneFailedYet \/ Stale \subseteq todo \union Failed(peers)  BY <1>2 DEF FailsOnce
  <2>6. NoneFailedYet' \/ Stale' \subseteq todo' \union Failed(peers')
    BY <1>2, <1>8, <1>9, <1>11, <2>3, <2>4, <2>5, NotWorse
  <2> QED  BY <1>2, <1>8, <1>11, <2>4, <2>6, NotWorse DEF FailsOnce
<1>12. Alive(n) /\ pod[n] \notin {"absent", "Pending"} /\ ~Fault("get")
  BY DEF AllPodsRun, Alive, ReliableCalls, Fault
<1> QED  BY <1>1, <1>10, <1>11, <1>12 DEF StatusCall

\* What a successful stop command leaves: the record and the application agree.
LEMMA StopFails ==
    ASSUME OneSoftFault, OneLineageInv, AllPodsRun, FailsOnce, NEW n \in DOMAIN peers, NEW ok,
           StopCall(n, ok), peers' = [peers EXCEPT ![n] = Stopped(@)]
    PROVE  /\ FailuresKept /\ Stale' \subseteq Stale \ {n} /\ faults' = faults
           /\ DOMAIN peers' = DOMAIN peers /\ \A k \in DOMAIN peers \ {n} : peers'[k] = peers[k]
<1> USE InvParts
<1>1. n \in Pods /\ peers[n] \in Member  BY DEF LocalTypeOK, IsMemberSet
<1>2. faults' = faults /\ \A p \in Pods \ {n} : app'[p] = app[p]  BY <1>1, RunningStop DEF EnvInv
<1> DEFINE r == Stopped(peers[n])
<1>3. r.Failures = peers[n].Failures  BY <1>1, RecordFailures
<1>4. ~r.AppPrimary  BY <1>1, SMT DEF Stopped, Member
<1>5. peers' = [peers EXCEPT ![n] = r]  OBVIOUS
<1> HIDE DEF r
<1>6. FailuresKept /\ Stale' \subseteq Stale \ {n}
  BY <1>2, <1>3, <1>4, <1>5, ReplaceStale
<1>7. DOMAIN peers' = DOMAIN peers /\ \A k \in DOMAIN peers \ {n} : peers'[k] = peers[k]
  BY <1>5 DEF LocalTypeOK, IsMemberSet
<1> QED  BY <1>2, <1>6, <1>7

\* recover() visits one member.
LEMMA RecoverMemberFails ==
    ASSUME OneSoftFault, OneLineageInv, AllPodsRun, FailsOnce, NEW n \in Pods, RecoverMember(n)
    PROVE  FailsOnce'
<1>1. /\ pc \in {"recover", "cleanup"} /\ pc' = pc /\ n \in todo /\ todo' = todo \ {n}
  BY DEF RecoverMember
<1>2. n \in DOMAIN peers  BY <1>1, InvParts DEF VisitsOnline, Online
<1>3. FailuresKept /\ Stale' \subseteq Stale \ {n} /\ faults' = faults
  BY <1>2, RecoverStops, StopFails
<1>4. CASE pc = "cleanup"  BY <1>1, <1>3, <1>4, ElsewhereFails
<1>5. CASE pc = "recover"
  <2>1. NoneFailedYet \/ Stale \subseteq todo  BY <1>5 DEF FailsOnce
  <2>2. NoneFailedYet' \/ Stale' \subseteq todo'  BY <1>1, <1>3, <2>1, NotWorse
  <2> QED  BY <1>1, <1>3, <1>5, <2>2, NotWorse DEF FailsOnce
<1> QED  BY <1>1, <1>4, <1>5

\* So does the loop that demotes: what it stops had not failed.
LEMMA DemotePrimaryFails ==
    ASSUME OneSoftFault, OneLineageInv, AllPodsRun, FailsOnce, DemotePrimary
    PROVE  FailsOnce'
<1>1. PICK n \in chooseCurrentPrimary(peers), ok \in BOOLEAN : stopAppMember(n, ok)
  BY DEF DemotePrimary
<1>2. n \in DOMAIN peers /\ ~peers[n].AppFailed  BY <1>1 DEF chooseCurrentPrimary
<1>3. StopCall(n, ok)  BY <1>1 DEF stopAppMember
<1>4. n \in Pods  BY <1>2, InvParts DEF LocalTypeOK, IsMemberSet
<1>5. ok  BY <1>3, <1>4, InvParts, RunningStop DEF EnvInv
<1>6. peers' = [peers EXCEPT ![n] = Stopped(@)]  BY <1>1, <1>5 DEF stopAppMember
<1>7. /\ FailuresKept /\ Stale' \subseteq Stale \ {n} /\ faults' = faults
      /\ DOMAIN peers' = DOMAIN peers /\ \A k \in DOMAIN peers \ {n} : peers'[k] = peers[k]
  BY <1>2, <1>3, <1>6, StopFails
<1>8. pc = "demote" /\ pc' = "demote"  BY DEF DemotePrimary
<1>9. Stale = {} \/ \A k \in DOMAIN peers : peers[k].Failures = 1 => peers[k].AppFailed
  BY <1>8 DEF FailsOnce
<1>10. Stale' = {} \/ \A k \in DOMAIN peers' : peers'[k].Failures = 1 => peers'[k].AppFailed
  <2>1. 0 # 1  BY SMT
  <2> QED  BY <1>2, <1>7, <1>9, <2>1 DEF FailuresKept
<1> QED  BY <1>7, <1>8, <1>10, NotWorse DEF FailsOnce
\* A sequence number says nothing of primaries or failures.
LEMMA DetectMemberFails ==
    ASSUME OneSoftFault, ReliableCalls, OneLineageInv, FailsOnce, NEW n \in Pods, DetectMember(n)
    PROVE  FailsOnce'
<1> USE InvParts
<1>1. pc = "detect" /\ pc' = "detect" /\ n \in todo  BY DEF DetectMember
<1>2. n \in DOMAIN peers /\ peers[n] \in Member  BY <1>1, OnlineRecord DEF VisitsOnline
<1>3. PICK seq : /\ SequenceCall(n, peers[n].SEQ, seq)
                 /\ peers' = [peers EXCEPT ![n].SEQ = seq]
  BY DEF DetectMember
<1>4. ~Fault("sequence") /\ ~Fault("get")  BY DEF OneSoftFault, ReliableCalls, Fault
<1>5. UNCHANGED <<app, faults>>  BY <1>3, <1>4 DEF SequenceCall, world
<1> DEFINE r == [peers[n] EXCEPT !.SEQ = seq]
<1>6. r.Failures = peers[n].Failures  BY <1>2, RecordFailures
<1>7. r.Online = peers[n].Online /\ r.AppPrimary = peers[n].AppPrimary
      /\ r.AppRunning = peers[n].AppRunning
  BY <1>2 DEF Member
<1>8. peers' = [peers EXCEPT ![n] = r]  BY <1>3
<1> HIDE DEF r
<1>9. /\ FailuresKept /\ Stale' \ {n} = Stale \ {n}
      /\ n \in Stale' => n \in PrimariesOf(peers) /\ app[n] # "primary"
  BY <1>2, <1>5, <1>6, <1>7, <1>8, ReplaceStale DEF PrimariesOf
<1>10. Stale' \subseteq Stale  BY <1>9 DEF Stale, LivePrimaries
<1>11. NoneFailedYet \/ Stale = {}  BY <1>1 DEF FailsOnce
<1> QED  BY <1>1, <1>5, <1>9, <1>10, <1>11, NotWorse DEF FailsOnce

\* A seed starts, and is what the record says.
LEMMA SeedMemberFails ==
    ASSUME ReliableCalls, OneSoftFault, OneLineageInv, AllPodsRun, FailsOnce, SeedMember
    PROVE  FailsOnce'
<1> USE InvParts
<1> DEFINE n == Head(seeds)
<1>1. n \in Online(peers) /\ \A p \in Pods \ {n} : app'[p] = app[p]  BY SeedStarts
<1>2. n \in DOMAIN peers /\ n \in Pods /\ peers[n] \in Member  BY <1>1, OnlineRecord
<1>3. Alive(n) /\ "start" \notin Faults  BY <1>2 DEF AllPodsRun, Alive, OneSoftFault
<1>4. /\ pc' = "primaries" /\ app'[n] = "primary"
      /\ peers' = [peers EXCEPT ![n] = Started(@, TRUE)]
  BY <1>3, SeedStarts
<1>5. PICK ok \in BOOLEAN : startAppMember(n, TRUE, ok)  BY DEF SeedMember
<1>6. faults' = faults
  <2>1. ~Fault("start") /\ ~Fault("get")  BY <1>3 DEF ReliableCalls, Fault
  <2> QED  BY <1>5, <2>1 DEF startAppMember, StartCall
<1>7. Stale = {}
  <2>1. PrimariesOf(peers) = {}  BY DEF SeedMember, Joinable
  <2> QED  BY <2>1 DEF Stale
<1> HIDE DEF n
<1> DEFINE r == Started(peers[n], TRUE)
<1>8. r.Failures = peers[n].Failures  BY <1>2, RecordFailures
<1>9. peers' = [peers EXCEPT ![n] = r]  BY <1>4
<1> HIDE DEF r
<1>10. FailuresKept /\ Stale' = {}
  <2>1. FailuresKept /\ Stale' \ {n} = Stale \ {n} /\ n \notin Stale'
    BY <1>1, <1>2, <1>4, <1>8, <1>9, ReplaceStale
  <2>2. \A k : k \in Stale' => k \in Stale' \ {n}  BY <2>1
  <2> QED  BY <1>7, <2>1, <2>2
<1> QED  BY <1>4, <1>6, <1>10, NotWorse DEF FailsOnce

\* Starting a member in a stage fails only when the primary to join is not there, and
\* then the member had not failed before.
LEMMA StartStageFails ==
    ASSUME ReliableCalls, TrueSequences, OneSoftFault, OneLineageInv, AllPodsRun, FailsOnce,
           StartPrimary \/ StartSecondary
    PROVE  FailsOnce'
<1> USE InvParts
<1>1. PICK n \in chooseMember(peers), asPrimary \in BOOLEAN, ok \in BOOLEAN :
         startAppMember(n, asPrimary, ok)
  BY DEF StartPrimary, StartSecondary
<1>2. /\ n \in DOMAIN peers /\ n \in Pods /\ peers[n] \in Member /\ peers[n].Online
      /\ ~peers[n].AppFailed /\ ~peers[n].AppPrimary
  BY <1>1, ChosenIsCandidate DEF Candidates, LocalTypeOK, IsMemberSet
<1>3. pc \in {"primaries", "secondaries"} /\ pc' = pc  BY DEF StartPrimary, StartSecondary
<1>4. PrimariesOf(peers) # {}
  BY DEF StartPrimary, StartSecondary, Joinable, TrueSequences
<1>5. PICK known : known = appendPrimaries(peers)  OBVIOUS
<1>6. known # {}  BY <1>4, <1>5, KnownPrimaries
<1>7. PICK command : command = startCommand(asPrimary, AppPrimaries(peers))  OBVIOUS
<1>8. StartCall(n, command, known, ok)  BY <1>1, <1>5, <1>7 DEF startAppMember
<1>9. AppPrimaries(peers) # 0  BY <1>4, PrimariesCount DEF AppPrimaries
<1>10. command = "secondary" <=> ~asPrimary
  BY <1>7, <1>9 DEF startCommand, OneSoftFault
<1>11. Alive(n) /\ pod[n] # "absent"  BY <1>2 DEF AllPodsRun, Alive
<1>12. ~Fault("start") /\ ~Fault("get")  BY DEF ReliableCalls, OneSoftFault, Fault
<1>13. faults' = faults  BY <1>8, <1>12 DEF StartCall
<1>14. \A p \in Pods \ {n} : app'[p] = app[p]  BY <1>2, <1>8, StartCallHealth
<1>15. Stale = {} \/ \A k \in DOMAIN peers : peers[k].Failures = 1 => peers[k].AppFailed
  BY <1>3 DEF FailsOnce
<1>16. n \notin Stale  BY <1>2 DEF Stale, PrimariesOf
<1>17. CASE ok
  <2>1. PICK g : AppBecomes(n, IF command = "secondary" THEN "secondary" ELSE "primary", g)
    BY <1>6, <1>8, <1>11, <1>12, <1>17 DEF StartCall
  <2>2. asPrimary => app'[n] = "primary"
    BY <1>2, <1>10, <2>1 DEF AppBecomes, EnvInv, EnvTypeOK
  <2> DEFINE r == Started(peers[n], asPrimary)
  <2>3. r.Failures = peers[n].Failures  BY <1>2, RecordFailures
  <2>4. r.AppPrimary <=> asPrimary  BY <1>2, OnlineRecord, StartedRecord DEF Online
  <2>5. peers' = [peers EXCEPT ![n] = r]  BY <1>1, <1>17 DEF startAppMember
  <2> HIDE DEF r
  <2>6. FailuresKept /\ Stale' \ {n} = Stale \ {n} /\ n \notin Stale'
    BY <1>2, <1>14, <2>2, <2>3, <2>4, <2>5, ReplaceStale
  <2>7. Stale' = Stale
    <3>1. Stale' = Stale' \ {n} /\ Stale = Stale \ {n}  BY <1>16, <2>6
    <3> QED  BY <2>6, <3>1
  <2>8. /\ DOMAIN peers' = DOMAIN peers /\ peers'[n].Failures = peers[n].Failures
        /\ \A k \in DOMAIN peers \ {n} : peers'[k] = peers[k]
    BY <1>2, <2>3, <2>5 DEF LocalTypeOK, IsMemberSet
  <2>9. Stale' = {} \/ \A k \in DOMAIN peers' : peers'[k].Failures = 1 => peers'[k].AppFailed
    BY <1>2, <1>15, <2>7, <2>8
  <2> QED  BY <1>3, <1>13, <2>6, <2>7, <2>9, NotWorse DEF FailsOnce
<1>18. CASE ~ok
  <2>1. LivePrimaries = {}
    BY <1>6, <1>8, <1>11, <1>12, <1>18 DEF StartCall
  <2>2. Stale # {}  BY <1>4, <2>1 DEF Stale
  <2>3. peers[n].Failures = 0
    <3>1. peers[n].Failures # 1  BY <1>2, <1>15, <2>2
    <3>2. peers[n].Failures <= 1  BY <1>2 DEF FailsOnce
    <3>3. peers[n].Failures \in Nat  BY <1>2, SMT DEF Member, FailureCap
    <3> QED  BY <3>1, <3>2, <3>3, SMT
  <2>4. faults' # 0  BY <1>13, <2>2 DEF FailsOnce
  <2> DEFINE r == Failing(peers[n])
  <2>5. r.Failures = 1 /\ r.AppFailed  BY <1>2, <2>3, RecordFailures, StartedSequence
  <2>6. peers' = [peers EXCEPT ![n] = r]  BY <1>1, <1>18 DEF startAppMember
  <2> HIDE DEF r
  <2>7. /\ DOMAIN peers' = DOMAIN peers /\ peers'[n] = r
        /\ \A k \in DOMAIN peers \ {n} : peers'[k] = peers[k]
    BY <1>2, <2>6 DEF LocalTypeOK, IsMemberSet
  <2>8. \A k \in DOMAIN peers' : peers'[k].Failures <= 1
    <3>1. 1 <= 1  BY SMT
    <3> QED  BY <2>5, <2>7, <3>1 DEF FailsOnce
  <2>9. \A k \in DOMAIN peers' : peers'[k].Failures = 1 => peers'[k].AppFailed
    BY <1>15, <2>2, <2>5, <2>7
  <2> QED  BY <1>3, <2>4, <2>8, <2>9 DEF FailsOnce
<1> QED  BY <1>17, <1>18

\* The outside world: an application fails before any member did.
LEMMA OutsideFails ==
    ASSUME OneSoftFault, OneLineageInv, AllPodsRun, FailsOnce, EnvStep \/ UNCHANGED <<app, faults>>,
           UNCHANGED <<pc, peers, todo>>
    PROVE  FailsOnce'
<1>1. CASE UNCHANGED <<app, faults>>
  <2>1. UNCHANGED <<Stale, NoneFailedYet>>  BY <1>1 DEF Stale, LivePrimaries, NoneFailedYet
  <2> QED  BY <1>1, <2>1 DEF FailsOnce
<1>2. CASE \E kind : Fault(kind)
  <2>1. faults = 0 /\ faults' # 0  BY <1>2, InvParts, FirstFault DEF EnvInv
  <2>2. NoneFailedYet  BY <2>1 DEF FailsOnce
  <2>3. NoneFailedYet'  BY <2>2 DEF NoneFailedYet
  <2>4. \A n \in DOMAIN peers' : peers'[n].Failures # 1
    <3>1. 0 # 1  BY SMT
    <3> QED  BY <2>3, <3>1 DEF NoneFailedYet
  <2> QED  BY <2>1, <2>3, <2>4 DEF FailsOnce
<1>3. CASE EnvStep
  BY <1>1, <1>2, <1>3, InvParts
     DEF EnvStep, KubernetesStep, FaultStep, PodGone, PodCreated, PodRuns, StartFinishes,
         AppStops, AppBreaks, AppDemoted, PodDies, Write, AllPodsRun, EnvInv, AppsSettled
<1> QED  BY <1>1, <1>3

\* Every step preserves the invariant.
LEMMA NextFails ==
    ASSUME ReliableCalls, TrueSequences, OneSoftFault, OneLineageInv, OneLineageInv', AllPodsRun,
           FailsOnce, [Next]_vars
    PROVE  FailsOnce'
<1>1. ASSUME GiveUp, UNCHANGED env PROVE FailsOnce'
  BY <1>1, StartReconcileFails DEF GiveUp
<1>2. ASSUME Idle, UNCHANGED peers, UNCHANGED env PROVE FailsOnce'
  BY <1>2, MoveFails DEF Idle, Visit, env, world
<1>3. CASE \/ ReconcileDone \/ Replicate \/ DetectDone \/ ChooseSeeds \/ SeedsExhausted
           \/ CleanupDone
  BY <1>1, <1>2, <1>3, SilentSteps, MoveFails
     DEF ReconcileDone, Replicate, DetectDone, ChooseSeeds, SeedsExhausted, CleanupDone, Visit
<1>4. CASE PrimariesDone \/ DemoteDone \/ SecondariesDone
  BY <1>2, <1>4, SilentSteps, MoveFails
     DEF PrimariesDone, DemoteDone, SecondariesDone, LeaveStage, Finish, Visit
<1>5. CASE OperatorStep
  BY <1>3, <1>4, <1>5, PollPodsFails, CheckDoneFails, SeedMemberFails, StartStageFails,
     DemotePrimaryFails, CheckMemberFails, RecoverMemberFails, DetectMemberFails
     DEF OperatorStep
<1>6. CASE OperatorRestarts
  <2>1. DOMAIN peers' = {}  BY <1>6 DEF OperatorRestarts, NoMembers
  <2>2. NoneFailedYet' /\ Stale' = {}  BY <2>1 DEF NoneFailedYet, Stale, PrimariesOf
  <2> QED  BY <2>1, <2>2 DEF FailsOnce
<1>7. CASE Outside(EnvStep) \/ UNCHANGED vars
  BY <1>7, OutsideFails DEF Outside, vars, env, world, local
<1> QED  BY <1>5, <1>6, <1>7 DEF Next

\* The operator starts with every Pod running.
LEMMA InitFails ==
    ASSUME OneSoftFault
    PROVE  Init => AllPodsRun /\ FailsOnce
<1>1. Init => AllPodsRun  BY DEF OneSoftFault, Init, EnvInit, AllPodsRun
<1>2. Init => DOMAIN peers = {}  BY DEF Init, NoMembers
<1>3. DOMAIN peers = {} => NoneFailedYet /\ Stale = {}  BY DEF NoneFailedYet, Stale, PrimariesOf
<1> QED  BY <1>1, <1>2, <1>3 DEF FailsOnce

\* For any cluster without Pods left over: one application that stops, breaks or loses
\* its role, one status command that fails or one restart of the operator never makes
\* recover() delete a Pod; restarting applications is enough (Failures stays below the
\* threshold of recover(), because reconcile() corrects every record in between).
THEOREM OneFaultDeletesNoPod ==
    ASSUME ReliableCalls, TrueSequences, OneSoftFault
    PROVE  Spec => []AllPodsRun
<1> DEFINE J == AllPodsRun /\ FailsOnce
<1>1. Init => J  BY InitFails
<1>2. OneLineageInv /\ OneLineageInv' /\ J /\ [Next]_vars => J'  BY NextFails, NextPodsRun
<1>3. Spec => []J  BY <1>1, <1>2, OneLineageInvAlways, PTL DEF Spec
<1> QED  BY <1>3, PTL

\* For any cluster without Pods left over: after one application that stops, breaks or
\* loses its role, one failing status command or one restart of the operator, at any
\* point of any round, every live primary still has what clients were told is written.
THEOREM NoRollbackAlways ==
    ASSUME ReliableCalls, TrueSequences, OneSoftFault
    PROVE  Spec => []NoRollback
<1>1. "start" \notin Faults  BY DEF OneSoftFault
<1> QED  BY <1>1, OneFaultDeletesNoPod, RunningPodsKeepWrites, PTL

----------------------------------------------------------------------------
(***************************************************************************)
(* What a round without errors reaches.                                    *)
(***************************************************************************)

\* The last stage has no more primaries than the spec asks for.
NotTooMany == pc = "secondaries" => AppPrimaries(peers) <= Primaries

\* Starting a secondary makes no primary of it.
LEMMA StartSecondaryPrimaries ==
    ASSUME OneLineageInv, StartSecondary
    PROVE  PrimariesOf(peers') = PrimariesOf(peers)
<1> USE InvParts
<1>1. PICK n \in chooseMember(peers), ok \in BOOLEAN : startAppMember(n, FALSE, ok)
  BY DEF StartSecondary
<1>2. /\ n \in DOMAIN peers /\ peers[n] \in Member /\ Consistent(peers[n]) /\ peers[n].Online
      /\ ~peers[n].AppPrimary
  BY <1>1, ChosenIsCandidate DEF Candidates, LocalTypeOK, IsMemberSet, MembersConsistent
<1> DEFINE r == IF ok THEN Started(peers[n], FALSE) ELSE Failing(peers[n])
<1>3. ~r.AppPrimary  BY <1>2, StartedRecord
<1>4. peers' = [peers EXCEPT ![n] = r]  BY <1>1 DEF startAppMember
<1> HIDE DEF r
<1>5. PrimariesOf(peers') \ {n} = PrimariesOf(peers) \ {n} /\ n \notin PrimariesOf(peers')
  BY <1>2, <1>3, <1>4, ReplaceRecord
<1>6. n \notin PrimariesOf(peers)  BY <1>2 DEF PrimariesOf
<1>7. /\ PrimariesOf(peers') = PrimariesOf(peers') \ {n}
      /\ PrimariesOf(peers) = PrimariesOf(peers) \ {n}
  BY <1>5, <1>6
<1> QED  BY <1>5, <1>7

\* The last stage begins with the right number and keeps it.
LEMMA NextNotTooMany ==
    ASSUME OneLineageInv, NotTooMany, [Next]_vars
    PROVE  NotTooMany'
<1>1. CASE pc' # "secondaries"  BY <1>1 DEF NotTooMany
<1>2. CASE UNCHANGED <<pc, peers>>  BY <1>2 DEF NotTooMany, AppPrimaries
<1>3. CASE StartSecondary
  <2>1. pc = "secondaries" /\ AppPrimaries(peers') = AppPrimaries(peers)
    BY <1>3, StartSecondaryPrimaries DEF StartSecondary, AppPrimaries
  <2> QED  BY <2>1 DEF NotTooMany
<1>4. CASE DemoteDone
  <2>1. peers' = peers /\ (pc' = "secondaries" => AppPrimaries(peers) <= Primaries)
    BY <1>4 DEF DemoteDone, LeaveStage, Finish, Idle, Visit
  <2> QED  BY <2>1 DEF NotTooMany
<1>5. CASE PrimariesDone \/ SecondariesDone
  BY <1>1, <1>5 DEF PrimariesDone, SecondariesDone, LeaveStage, Finish, Idle, Visit
<1>6. CASE \/ PollPods \/ CheckDone \/ ReconcileDone \/ Replicate \/ DetectDone \/ ChooseSeeds
           \/ SeedMember \/ SeedsExhausted \/ CleanupDone \/ StartPrimary \/ DemotePrimary
  BY <1>1, <1>6 DEF PollPods, StartReconcile, CheckDone, ReconcileDone, Replicate, GiveUp,
     DetectDone, ChooseSeeds, SeedMember, SeedsExhausted, CleanupDone, StartPrimary,
     DemotePrimary, Idle, Visit
<1>7. ASSUME NEW n \in Pods, CheckMember(n) \/ RecoverMember(n) \/ DetectMember(n)
      PROVE  pc' # "secondaries"
  BY <1>7 DEF CheckMember, RecoverMember, DetectMember
<1>8. CASE OperatorStep
  BY <1>1, <1>3, <1>4, <1>5, <1>6, <1>7, <1>8 DEF OperatorStep
<1>9. CASE OperatorRestarts  BY <1>1, <1>9 DEF OperatorRestarts, Idle, Visit
<1> QED  BY <1>2, <1>8, <1>9 DEF Next, Outside, vars

\* For any cluster and any faults that leave calls reliable: the loop that stops
\* primaries never runs out of them ("No primaries remaining") unless a stop command
\* failed; it ends with as many as the spec asks for (chooseCurrentPrimary).
THEOREM DemotionReachesNumber ==
    ASSUME ReliableCalls
    PROVE  Spec => [][DemoteDone /\ ~errs => AppPrimaries(peers) = Primaries]_vars
<1>1. ASSUME OneLineageInv, EnoughKnown, DemoteDone, ~errs
      PROVE  AppPrimaries(peers) = Primaries
  <2> USE <1>1, InvParts
  <2>1. AppPrimaries(peers) >= Primaries /\ PrimariesOf(peers) \intersect Failed(peers) = {}
    BY DEF DemoteDone, EnoughKnown
  <2>2. AppPrimaries(peers) \in Nat /\ Primaries \in Nat
    BY PrimariesAreMembers, EnvironmentAssumption
  <2>3. ASSUME AppPrimaries(peers) > Primaries PROVE FALSE
    <3>1. chooseCurrentPrimary(peers) = {}  BY <2>3 DEF DemoteDone
    <3>2. {n \in DOMAIN peers : peers[n].AppPrimary /\ ~peers[n].AppFailed} = {}
      BY <3>1, DemotionPossible, EnvironmentAssumption DEF LocalTypeOK
    <3>3. PrimariesOf(peers) = {}  BY <2>1, <3>2 DEF PrimariesOf, Failed
    <3>4. AppPrimaries(peers) = 0  BY <3>3, FS_EmptySet DEF AppPrimaries
    <3> QED  BY <2>2, <2>3, <3>4, SMT
  <2> QED  BY <2>1, <2>2, <2>3, SMT
<1>2. OneLineageInv /\ EnoughKnown =>
        [DemoteDone /\ ~errs => AppPrimaries(peers) = Primaries]_vars
  BY <1>1
<1> QED  BY <1>2, EnoughKnownAlways, PTL

\* For any cluster, if status and stop commands answer truly as well: whenever the last
\* stage of a round runs, the operator knows exactly as many primaries as the spec asks
\* for, and no more are live, whatever failed on the way (the stages of replicate()).
THEOREM RoundReachesNumber ==
    ASSUME ReliableCalls, TrueAnswers
    PROVE  Spec => [](pc = "secondaries" => /\ AppPrimaries(peers) = Primaries
                                            /\ Cardinality(LivePrimaries) <= Primaries)
<1> DEFINE G == pc = "secondaries" => /\ AppPrimaries(peers) = Primaries
                                      /\ Cardinality(LivePrimaries) <= Primaries
<1>1. Init => NotTooMany  BY DEF Init, NotTooMany
<1>2. OneLineageInv /\ NotTooMany /\ [Next]_vars => NotTooMany'  BY NextNotTooMany
<1>3. ASSUME OneLineageInv, EnoughKnown, HealthInv, NotTooMany PROVE G
  <2> SUFFICES ASSUME pc = "secondaries"
               PROVE  /\ AppPrimaries(peers) = Primaries
                      /\ Cardinality(LivePrimaries) <= Primaries
    OBVIOUS
  <2> USE <1>3, InvParts
  <2>1. AppPrimaries(peers) >= Primaries /\ AppPrimaries(peers) <= Primaries
    BY DEF EnoughKnown, NotTooMany
  <2>2. AppPrimaries(peers) \in Nat /\ Primaries \in Nat
    BY PrimariesAreMembers, EnvironmentAssumption
  <2>3. AppPrimaries(peers) = Primaries  BY <2>1, <2>2, SMT
  <2>4. LivePrimaries \subseteq PrimariesOf(peers)  BY DEF HealthInv, AllKnown
  <2>5. IsFiniteSet(PrimariesOf(peers))
    <3>1. PrimariesOf(peers) \subseteq Pods  BY DEF PrimariesOf, LocalTypeOK, IsMemberSet
    <3> QED  BY <3>1, FS_Subset, EnvironmentAssumption
  <2>6. Cardinality(LivePrimaries) <= AppPrimaries(peers)
    BY <2>4, <2>5, FS_Subset DEF AppPrimaries
  <2> QED  BY <2>3, <2>6
<1>4. OneLineageInv /\ EnoughKnown /\ HealthInv /\ NotTooMany => G  BY <1>3
<1> HIDE DEF G
<1>5. Spec => []G
  BY <1>1, <1>2, <1>4, EnoughKnownAlways, HealthInvAlways, PTL DEF Spec
<1> QED  BY <1>5 DEF G
\* In running Pods, and if stop commands work, demotion meets no error.
LEMMA NextCleanDemotion ==
    ASSUME ReliableCalls, "stop" \notin Faults, OneLineageInv, AllPodsRun, pc = "demote" => ~errs,
           [Next]_vars
    PROVE  (pc = "demote" => ~errs)'
<1> USE InvParts
<1>1. CASE pc' # "demote"  BY <1>1
<1>2. CASE UNCHANGED <<pc, errs>>  BY <1>2
<1>3. CASE DemotePrimary
  <2>1. PICK n \in chooseCurrentPrimary(peers), ok \in BOOLEAN :
           stopAppMember(n, ok) /\ errs' = (errs \/ ~ok)
    BY <1>3 DEF DemotePrimary
  <2>2. n \in Pods  BY <2>1 DEF chooseCurrentPrimary, LocalTypeOK, IsMemberSet
  <2>3. Alive(n) /\ ~Fault("stop") /\ ~Fault("get")
    BY <2>2 DEF AllPodsRun, Alive, ReliableCalls, Fault
  <2>4. ok  BY <2>1, <2>3 DEF stopAppMember, StopCall
  <2> QED  BY <1>3, <2>1, <2>4 DEF DemotePrimary
<1>4. CASE PrimariesDone
  BY <1>1, <1>4 DEF PrimariesDone, LeaveStage, Finish, Idle, Visit
<1>5. CASE DemoteDone \/ SecondariesDone
  BY <1>1, <1>5 DEF DemoteDone, SecondariesDone, LeaveStage, Finish, Idle, Visit
<1>6. CASE \/ PollPods \/ CheckDone \/ ReconcileDone \/ Replicate \/ DetectDone \/ ChooseSeeds
           \/ SeedMember \/ SeedsExhausted \/ CleanupDone \/ StartPrimary \/ StartSecondary
  BY <1>1, <1>6 DEF PollPods, StartReconcile, CheckDone, ReconcileDone, Replicate, GiveUp,
     DetectDone, ChooseSeeds, SeedMember, SeedsExhausted, CleanupDone, StartPrimary,
     StartSecondary, Idle, Visit
<1>7. ASSUME NEW n \in Pods, CheckMember(n) \/ RecoverMember(n) \/ DetectMember(n)
      PROVE  pc' # "demote"
  BY <1>7 DEF CheckMember, RecoverMember, DetectMember
<1>8. CASE OperatorStep
  BY <1>1, <1>3, <1>4, <1>5, <1>6, <1>7, <1>8 DEF OperatorStep
<1>9. CASE OperatorRestarts  BY <1>1, <1>9 DEF OperatorRestarts, Idle, Visit
<1> QED  BY <1>2, <1>8, <1>9 DEF Next, Outside, vars, local

\* For any cluster without Pods left over and one fault of an application, the operator
\* or a status command: demotion leaves as many healthy primaries as the spec asks for,
\* in every round.
THEOREM OneFaultKeepsEnough ==
    ASSUME ReliableCalls, TrueSequences, OneSoftFault
    PROVE  Spec => []DemotionKeepsEnough
<1> DEFINE C == pc = "demote" => ~errs
<1>1. Init => C  BY DEF Init
<1>2. "stop" \notin Faults  BY DEF OneSoftFault
<1>3. OneLineageInv /\ AllPodsRun /\ C /\ [Next]_vars => C'  BY <1>2, NextCleanDemotion
<1>4. C /\ (~errs => DemotionKeepsEnough) => DemotionKeepsEnough  BY DEF DemotionKeepsEnough
<1> HIDE DEF C
<1> QED
  BY <1>1, <1>3, <1>4, OneFaultDeletesNoPod, OneLineageInvAlways, DemotionKeepsEnoughAlways, PTL
     DEF Spec
============================================================================
