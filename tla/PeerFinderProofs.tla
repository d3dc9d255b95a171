-------------------------- MODULE PeerFinderProofs --------------------------
(***************************************************************************)
(* Proofs about PeerFinder, for any Pods (while their names sort like      *)
(* their ordinals), flags, chaos level and number of failures.             *)
(***************************************************************************)
EXTENDS PeerFinder, FiniteSetTheorems, TLAPS

\* The invariant, with the types it needs.
FinderTypeOK ==
    /\ up \subseteq Pods /\ dns \subseteq Pods
    /\ newPeers \in [Pods -> SUBSET Pods]
    /\ cfg \in [Pods -> SUBSET Pods]
    /\ myId \in [Pods -> Nat]
    /\ pc \in [Pods -> {"main", "poll", "number", "copy", "exited"}]

IInv == FinderTypeOK /\ PeerFinderInv

----------------------------------------------------------------------------
\* A position in a list is a number.
LEMMA PositionNat ==
    ASSUME NEW S \in SUBSET Pods, NEW p \in Pods
    PROVE  Position(p, S) \in Nat
<1> DEFINE T == {q \in S : q <= p}
<1>1. IsFiniteSet(T)
  BY MonkeysAssumption, FS_Subset
<1> QED  BY <1>1, FS_CardinalityType DEF Position

\* Different Pods have different positions in one sorted list.
LEMMA PositionsDiffer ==
    ASSUME NEW S \in SUBSET Pods, NEW p \in S, NEW q \in S, p < q
    PROVE  Position(p, S) # Position(q, S)
<1> DEFINE T == {r \in S : r <= p}
           U == {r \in S : r <= q}
<1>1. S \subseteq Nat /\ IsFiniteSet(S)
  BY MonkeysAssumption, FS_Subset
<1>2. U \subseteq S /\ IsFiniteSet(U)  BY <1>1, FS_Subset
<1>3. T \subseteq U
  <2>1. ASSUME NEW r \in S, r <= p PROVE r <= q
    <3>1. p \in Nat /\ q \in Nat /\ r \in Nat  BY <1>1
    <3> QED  BY <2>1, <3>1
  <2> QED  BY <2>1
<1>4. q \in U /\ q \notin T  BY <1>1
<1>5. T # U  BY <1>4
<1> HIDE DEF T, U
<1>6. Cardinality(T) # Cardinality(U)
  BY <1>2, <1>3, <1>5, FS_Subset
<1> QED  BY <1>6 DEF T, U, Position

\* What the invariant says of one Pod.
PodInv(p) ==
    /\ pc[p] \in {"number", "copy"} => p \in newPeers[p]
    /\ pc[p] = "copy" => myId[p] = Position(p, newPeers[p])
    /\ pc[p] \notin {"copy", "exited"} /\ cfg[p] # {} =>
          p \in cfg[p] /\ myId[p] = Position(p, cfg[p])

\* The invariant holds of all Pods.
LEMMA InvByPod == PeerFinderInv <=> \A p \in Pods : PodInv(p)
BY DEF PeerFinderInv, PodInv

\* The same in the next state.
LEMMA InvByPodNext == PeerFinderInv' <=> \A p \in Pods : PodInv(p)'
BY DEF PeerFinderInv, PodInv

\* What a step of one Pod leaves alone.
Untouched(q) ==
    /\ pc'[q] = pc[q] /\ newPeers'[q] = newPeers[q]
    /\ myId'[q] = myId[q] /\ cfg'[q] = cfg[q]

\* A step of one Pod leaves what the invariant says of the others.
LEMMA OtherPods ==
    ASSUME PeerFinderInv, NEW p \in Pods, PodInv(p)',
           \A q \in Pods \ {p} : Untouched(q)
    PROVE  PeerFinderInv'
<1> SUFFICES ASSUME NEW q \in Pods, q # p PROVE PodInv(q)'
  BY InvByPodNext
<1>1. PodInv(q)  BY InvByPod
<1> QED  BY <1>1 DEF PodInv, Untouched

\* A new container satisfies the invariant.
LEMMA FreshInv ==
    ASSUME IInv, NEW p \in Pods, Fresh(p), up' \subseteq Pods, dns' = dns
    PROVE  IInv'
<1>1. FinderTypeOK'  BY DEF IInv, FinderTypeOK, Fresh
<1>2. PodInv(p)'  BY DEF IInv, FinderTypeOK, Fresh, PodInv
<1>3. \A q \in Pods \ {p} : Untouched(q)  BY DEF IInv, FinderTypeOK, Fresh, Untouched
<1>4. PeerFinderInv'  BY <1>2, <1>3, OtherPods DEF IInv
<1> QED  BY <1>1, <1>4 DEF IInv

\* Steps that do not touch the finders.
LEMMA IdleInv ==
    ASSUME IInv, UNCHANGED <<pc, newPeers, myId, cfg>>, up' \subseteq Pods, dns' \subseteq Pods
    PROVE  IInv'
<1>1. FinderTypeOK'  BY DEF IInv, FinderTypeOK
<1>2. PeerFinderInv'  BY DEF IInv, PeerFinderInv
<1> QED  BY <1>1, <1>2 DEF IInv

\* One step of the finder in p, its script or its container.
LEMMA FinderInv ==
    ASSUME IInv, NEW p \in Pods, Finder(p) \/ ScriptFails(p) \/ ContainerRestarts(p)
    PROVE  IInv'
<1> USE DEF IInv
<1>1. PodInv(p)  BY InvByPod
<1>2. CASE main(p)
  <2>1. PICK a \in {"poll", "exited"} : pc' = [pc EXCEPT ![p] = a]
    BY <1>2 DEF main, Goto
  <2>2. /\ newPeers' = newPeers /\ myId' = myId /\ cfg' = cfg
        /\ up' = up /\ dns' = dns /\ pc[p] = "main"
    BY <1>2 DEF main, others
  <2>3. FinderTypeOK'  BY <2>1, <2>2 DEF FinderTypeOK
  <2>4. PodInv(p)'  BY <1>1, <2>1, <2>2 DEF FinderTypeOK, PodInv
  <2>5. \A q \in Pods \ {p} : Untouched(q)  BY <2>1, <2>2 DEF FinderTypeOK, Untouched
  <2>6. PeerFinderInv'  BY <2>4, <2>5, OtherPods
  <2> QED  BY <2>3, <2>6
<1>3. CASE lookup(p)
  <2>1. /\ pc' = [pc EXCEPT ![p] = "number"] /\ newPeers' = [newPeers EXCEPT ![p] = dns]
        /\ myId' = myId /\ cfg' = cfg /\ up' = up /\ dns' = dns
        /\ pc[p] = "poll" /\ p \in dns
    BY <1>3 DEF lookup, Goto, HasMyName, others
  <2>2. FinderTypeOK'  BY <2>1 DEF FinderTypeOK
  <2>3. PodInv(p)'  BY <1>1, <2>1 DEF FinderTypeOK, PodInv
  <2>4. \A q \in Pods \ {p} : Untouched(q)  BY <2>1 DEF FinderTypeOK, Untouched
  <2>5. PeerFinderInv'  BY <2>3, <2>4, OtherPods
  <2> QED  BY <2>2, <2>5
<1>4. CASE Number(p)
  <2>1. /\ pc' = [pc EXCEPT ![p] = "copy"]
        /\ myId' = [myId EXCEPT ![p] = Position(p, newPeers[p])]
        /\ newPeers' = newPeers /\ cfg' = cfg /\ up' = up /\ dns' = dns /\ pc[p] = "number"
    BY <1>4 DEF Number, Goto, others
  <2>2. Position(p, newPeers[p]) \in Nat  BY PositionNat DEF FinderTypeOK
  <2>3. FinderTypeOK'  BY <2>1, <2>2 DEF FinderTypeOK
  <2>4. PodInv(p)'  BY <1>1, <2>1 DEF FinderTypeOK, PodInv
  <2>5. \A q \in Pods \ {p} : Untouched(q)  BY <2>1 DEF FinderTypeOK, Untouched
  <2>6. PeerFinderInv'  BY <2>4, <2>5, OtherPods
  <2> QED  BY <2>3, <2>6
<1>5. CASE Copy(p)
  <2>1. PICK a \in {"poll", "exited"} : pc' = [pc EXCEPT ![p] = a]
    BY <1>5 DEF Copy, Goto
  <2>2. /\ cfg' = [cfg EXCEPT ![p] = newPeers[p]]
        /\ newPeers' = newPeers /\ myId' = myId /\ up' = up /\ dns' = dns /\ pc[p] = "copy"
    BY <1>5 DEF Copy, others
  <2>3. FinderTypeOK'  BY <2>1, <2>2 DEF FinderTypeOK
  <2>4. PodInv(p)'  BY <1>1, <2>1, <2>2 DEF FinderTypeOK, PodInv
  <2>5. \A q \in Pods \ {p} : Untouched(q)  BY <2>1, <2>2 DEF FinderTypeOK, Untouched
  <2>6. PeerFinderInv'  BY <2>4, <2>5, OtherPods
  <2> QED  BY <2>3, <2>6
<1>6. CASE ScriptFails(p)
  <2>1. /\ pc' = [pc EXCEPT ![p] = "exited"]
        /\ newPeers' = newPeers /\ myId' = myId /\ cfg' = cfg /\ up' = up /\ dns' = dns
    BY <1>6 DEF ScriptFails, Goto, others
  <2>2. FinderTypeOK'  BY <2>1 DEF FinderTypeOK
  <2>3. PodInv(p)'  BY <2>1 DEF FinderTypeOK, PodInv
  <2>4. \A q \in Pods \ {p} : Untouched(q)  BY <2>1 DEF FinderTypeOK, Untouched
  <2>5. PeerFinderInv'  BY <2>3, <2>4, OtherPods
  <2> QED  BY <2>2, <2>5
<1>7. CASE ContainerRestarts(p)
  BY <1>7, FreshInv DEF ContainerRestarts, others, FinderTypeOK
<1> QED  BY <1>2, <1>3, <1>4, <1>5, <1>6, <1>7 DEF Finder

\* Chaos takes away at most one Pod in a step.
LEMMA ChaosInv ==
    ASSUME IInv, Chaos
    PROVE  IInv'
<1>1. dns' = dns  BY DEF Chaos
<1>2. CASE up' = up
  BY <1>1, <1>2, IdleInv DEF Chaos, finder, IInv, FinderTypeOK
<1>3. CASE up' # up
  <2>1. PICK p \in Pods : p \in up \ up' /\ up' \subseteq Pods
    BY <1>3 DEF Chaos, MonkeyStep, MonkeyWakes, List, Draw, Killed, Kill, IInv, FinderTypeOK
  <2>2. Fresh(p)  BY <1>3, <2>1 DEF Chaos
  <2> QED  BY <1>1, <2>1, <2>2, FreshInv
<1> QED  BY <1>2, <1>3

\* Every step preserves the invariant.
LEMMA NextInv == IInv /\ [Next]_vars => IInv'
<1> SUFFICES ASSUME IInv, [Next]_vars PROVE IInv'
  OBVIOUS
<1>1. ASSUME NEW p \in Pods, Finder(p) \/ ScriptFails(p) \/ ContainerRestarts(p) PROVE IInv'
  BY <1>1, FinderInv
<1>2. CASE Chaos  BY <1>2, ChaosInv
<1>3. CASE DnsCatchesUp
  BY <1>3, IdleInv DEF DnsCatchesUp, finder, IInv, FinderTypeOK
<1>4. CASE Replaced
  BY <1>4, IdleInv DEF Replaced, PodReplaced, finder, IInv, FinderTypeOK
<1>5. CASE UNCHANGED vars
  BY <1>5, IdleInv DEF vars, finder, IInv, FinderTypeOK
<1> QED  BY <1>1, <1>2, <1>3, <1>4, <1>5 DEF Next

\* All containers are new in the beginning.
LEMMA InitInv == Init => IInv
BY DEF Init, MonkeyInit, IInv, FinderTypeOK, PeerFinderInv

\* For any StatefulSet, whatever the chaos goroutine kills and however look-ups,
\* scripts, failures and the name server's delay interleave: two Pods that work
\* from the same list of peers have different numbers (on-change.sh).
THEOREM IdsDistinctAlways == Spec => []IdsDistinct
<1>1. IInv => IdsDistinct
  <2> SUFFICES ASSUME IInv, NEW p \in up, NEW q \in up, p # q, cfg[p] # {}, cfg[p] = cfg[q],
                      {pc[p], pc[q]} \intersect {"copy", "exited"} = {}
               PROVE  myId[p] # myId[q]
    BY DEF IdsDistinct
  <2>1. p \in Pods /\ q \in Pods /\ cfg[p] \subseteq Pods
    BY DEF IInv, FinderTypeOK
  <2>2. /\ p \in cfg[p] /\ myId[p] = Position(p, cfg[p])
        /\ q \in cfg[p] /\ myId[q] = Position(q, cfg[p])
    BY <2>1 DEF IInv, PeerFinderInv
  <2>3. p < q \/ q < p  BY <2>1, MonkeysAssumption
  <2> QED  BY <2>1, <2>2, <2>3, PositionsDiffer
<1> QED  BY InitInv, NextInv, <1>1, PTL DEF Spec


----------------------------------------------------------------------------
\* The chaos goroutine, on its own.
MonkeyOK == MonkeyTypeOK /\ MonkeyInv

\* The number drawn is at least one and at most the number of Pods listed.
LEMMA CapType ==
    ASSUME NEW items \in SUBSET Pods, items # {}, NEW kmax \in 1..3
    PROVE  Cap(kmax, items) \in 1..Cardinality(items)
<1>1. IsFiniteSet(items)  BY MonkeysAssumption, FS_Subset
<1>2. Cardinality(items) \in Nat \ {0}  BY <1>1, FS_CardinalityType, FS_EmptySet
<1> QED  BY <1>2 DEF Cap

\* Every step of the goroutine, and of Kubernetes, keeps its invariant.
LEMMA MonkeyStepInv ==
    ASSUME MonkeyOK, MonkeyStep
    PROVE  MonkeyOK'
<1> USE DEF MonkeyOK, MonkeyTypeOK, MonkeyInv
<1>1. CASE MonkeyWakes  BY <1>1 DEF MonkeyWakes
<1>2. CASE List
  <2>1. PICK kmax \in 1..3 : max' = Cap(kmax, listed')
    BY <1>2 DEF List, KillMax
  <2>2. listed' \subseteq Selected /\ listed' \subseteq Pods /\ listed' # {}
    BY <1>2, MonkeysAssumption DEF List
  <2>3. max' \in 1..Cardinality(listed')  BY <2>1, <2>2, CapType
  <2>4. IsFiniteSet(listed')  BY <2>2, MonkeysAssumption, FS_Subset
  <2>5. max' \in Nat  BY <2>3, <2>4, FS_CardinalityType
  <2>6. rounds' \in 0..MaxRounds  BY <1>2, MonkeysAssumption DEF List
  <2> QED  BY <1>2, <2>2, <2>3, <2>5, <2>6 DEF List
<1>3. CASE Draw  BY <1>3 DEF Draw
<1>4. CASE Killed  BY <1>4 DEF Killed
<1>5. ASSUME NEW p \in Pods, Kill(p) PROVE MonkeyOK'  BY <1>5 DEF Kill
<1> QED  BY <1>1, <1>2, <1>3, <1>4, <1>5 DEF MonkeyStep

\* What else TypeOK says.
RestOK == MonkeyOK /\ args \in Args /\ peers \in [Pods -> SUBSET Pods] /\ faults \in 0..MaxFaults

\* The parts of the invariant.
LEMMA PeersParts == PeersInv <=> IInv /\ RestOK
BY DEF PeersInv, TypeOK, IInv, FinderTypeOK, RestOK, MonkeyOK, MonkeyTypeOK

\* Steps that leave the goroutine alone.
LEMMA MonkeyIdle ==
    ASSUME MonkeyOK, UNCHANGED monkeyVars, up' \subseteq Pods
    PROVE  MonkeyOK'
BY DEF MonkeyOK, MonkeyTypeOK, MonkeyInv, monkeyVars

\* Every step keeps the rest of the invariant.
LEMMA NextRest == IInv /\ RestOK /\ [Next]_vars => RestOK'
<1> SUFFICES ASSUME IInv, RestOK, [Next]_vars PROVE RestOK'
  OBVIOUS
<1> USE DEF RestOK
<1>1. up \subseteq Pods /\ newPeers \in [Pods -> SUBSET Pods]  BY DEF IInv, FinderTypeOK
<1>2. ASSUME NEW p \in Pods, Finder(p) \/ ScriptFails(p) \/ ContainerRestarts(p) PROVE RestOK'
  <2>1. UNCHANGED others
    BY <1>2 DEF Finder, main, lookup, Number, Copy, ScriptFails, ContainerRestarts
  <2>2. MonkeyOK' /\ args' \in Args  BY <1>1, <2>1, MonkeyIdle DEF others
  <2>3. CASE UNCHANGED <<peers, faults>>  BY <2>2, <2>3
  <2>4. CASE Copy(p)  BY <1>1, <2>2, <2>4 DEF Copy
  <2>5. CASE ScriptFails(p)
    BY <2>2, <2>5, PeerFinderAssumption DEF ScriptFails
  <2>6. CASE ContainerRestarts(p)  BY <2>2, <2>6 DEF ContainerRestarts, Fresh
  <2> QED  BY <1>2, <2>3, <2>4, <2>5, <2>6 DEF Finder, main, lookup, Number
<1>3. CASE Chaos
  <2>1. MonkeyOK' /\ UNCHANGED <<args, faults>>  BY <1>3, MonkeyStepInv DEF Chaos
  <2>2. CASE up' = up  BY <1>3, <2>1, <2>2 DEF Chaos, finder
  <2>3. CASE up' # up
    <3>1. PICK p \in Pods : p \in up \ up'
      BY <1>1, <1>3, <2>3 DEF Chaos, MonkeyStep, MonkeyWakes, List, Draw, Killed, Kill
    <3>2. peers' = [peers EXCEPT ![p] = {}]  BY <1>3, <2>3, <3>1 DEF Chaos, Fresh
    <3> QED  BY <2>1, <3>2
  <2> QED  BY <2>2, <2>3
<1>4. CASE DnsCatchesUp
  BY <1>1, <1>4, MonkeyIdle DEF DnsCatchesUp, finder
<1>5. CASE Replaced
  BY <1>1, <1>5, MonkeyIdle DEF Replaced, PodReplaced, finder
<1>6. CASE UNCHANGED vars
  BY <1>1, <1>6, MonkeyIdle DEF vars, finder
<1> QED  BY <1>2, <1>3, <1>4, <1>5, <1>6 DEF Next

\* And so it is in the beginning.
LEMMA InitRest == Init => RestOK
BY MonkeysAssumption, PeerFinderAssumption
   DEF Init, MonkeyInit, startChaos, RestOK, MonkeyOK, MonkeyTypeOK, MonkeyInv

\* For any StatefulSet, chaos level and number of failures: the variables of all
\* finders and of the chaos goroutine have their types, the script is only given
\* lists with the own name in them, the number it wrote is the position in the list it
\* installed (on-change.sh), and never more Pods are to be drawn than were listed
\* (chaos.go, CrushPods).
THEOREM PeersInvAlways == Spec => []PeersInv
<1>1. Spec => [](IInv /\ RestOK)
  <2>1. Init => IInv /\ RestOK  BY InitInv, InitRest
  <2>2. IInv /\ RestOK /\ [Next]_vars => (IInv /\ RestOK)'  BY NextInv, NextRest
  <2> QED  BY <2>1, <2>2, PTL DEF Spec
<1> QED  BY <1>1, PeersParts, PTL

\* Theorem: when the chaos goroutine draws names there is a choice it can end with, for
\* any number of Pods and any draw: its loop is never left without one.
THEOREM DrawPossible ==
    Spec => [](monkey = "choose" => \E S \in SUBSET listed : Cardinality(S) = max)
<1>1. ASSUME PeersInv, monkey = "choose"
      PROVE  \E S \in SUBSET listed : Cardinality(S) = max
  <2>1. listed \subseteq Pods /\ max \in 1..Cardinality(listed)
    BY <1>1, MonkeysAssumption DEF PeersInv, TypeOK, MonkeyTypeOK, MonkeyInv
  <2>2. IsFiniteSet(listed)  BY <2>1, MonkeysAssumption, FS_Subset
  <2>3. Cardinality(listed) \in Nat /\ ExistsBijection(1..Cardinality(listed), listed)
    BY <2>2, FS_CardinalityType
  <2> DEFINE n == Cardinality(listed)
  <2>4. PICK f \in Bijection(1..n, listed) : TRUE  BY <2>3 DEF ExistsBijection
  <2> HIDE DEF n
  <2>5. /\ f \in [1..n -> listed]
        /\ \A i, j \in 1..n : f[i] = f[j] => i = j
    BY <2>4 DEF Bijection, Injection, IsInjective
  <2> DEFINE S == {f[i] : i \in 1..max}
             g == [i \in 1..max |-> f[i]]
  <2>6. n \in Nat /\ max \in 1..n  BY <2>1, <2>3 DEF n
  <2>7. S \subseteq listed  BY <2>5, <2>6
  <2>8. g \in Bijection(1..max, S)
    <3>1. g \in [1..max -> S]  OBVIOUS
    <3>2. \A i, j \in 1..max : g[i] = g[j] => i = j  BY <2>5, <2>6
    <3>3. \A y \in S : \E i \in 1..max : g[i] = y  OBVIOUS
    <3> HIDE DEF g, S
    <3> QED  BY <3>1, <3>2, <3>3 DEF Bijection, Injection, Surjection, IsInjective
  <2> HIDE DEF g, S
  <2>9. IsFiniteSet(1..max) /\ Cardinality(1..max) = max
    <3>1. 1 \in Int /\ max \in Int /\ max - 1 + 1 = max /\ ~(1 > max)  BY <2>6
    <3> QED  BY <3>1, FS_Interval
  <2>10. Cardinality(S) = max  BY <2>8, <2>9, FS_Bijection DEF ExistsBijection
  <2> QED  BY <2>7, <2>10
<1> QED  BY <1>1, PeersInvAlways, PTL
============================================================================
