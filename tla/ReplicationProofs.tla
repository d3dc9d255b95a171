------------------------- MODULE ReplicationProofs -------------------------
(***************************************************************************)
(* Proofs about Replication, for any Pods, replica and primary counts and  *)
(* fault budget: what the choice functions return, that all live primaries *)
(* belong to one lineage, what the records say whatever calls fail, that   *)
(* replicate() seeds only with all replicas online and none failed, never  *)
(* in a cluster that is scaled to zero, that it demotes only down to the   *)
(* number of primaries it wants, leaves healthy members alone, and labels  *)
(* all primaries.                                                          *)
(***************************************************************************)
EXTENDS Replication, FiniteSetTheorems, SequenceTheorems, WellFoundedInduction, TLAPS

\* Leaves about numbers, sequences and records name SMT; Zenon does the others.
USE Zenon

----------------------------------------------------------------------------
(***************************************************************************)
(* Choosing a member: what the loops over a Go map hold when they end,     *)
(* whatever the order of their visits.                                     *)
(***************************************************************************)

\* A nonempty set of numbers has a least one.  This is induction in the form the
\* provers can use.
LEMMA LeastNumber ==
    ASSUME NEW T, T \subseteq Nat, T # {}
    PROVE  \E k \in T : k - 1 \notin T
<1> DEFINE R == OpToRel(<, Nat)
<1>1. IsWellFoundedOn(R, Nat)  BY NatLessThanWellFounded
<1>2. \A i, j \in Nat : i < j => <<i, j>> \in R
  BY DEF OpToRel
<1> HIDE DEF R
<1>3. PICK k \in T : \A y \in T : ~ (<<y, k>> \in R)
  BY <1>1, WFMin
<1>4. k \in Nat /\ k - 1 < k  BY SMT
<1> QED  BY <1>2, <1>3, <1>4

\* The loop of chooseSeeds: what it holds after each member.
LEMMA SeedLoopSteps ==
    ASSUME NEW ms, NEW order, Len(order) \in Nat
    PROVE  LET best == SeedLoop(ms, order) IN
           /\ best[0] = <<>>
           /\ \A i \in 1..Len(order) : best[i] = VisitSeed(ms, best[i - 1], order[i])
<1> DEFINE N == Len(order)
           Upto(k) == \E g : g = [i \in 0..k |-> IF i = 0 THEN <<>> ELSE VisitSeed(ms, g[i - 1], order[i])]
           T == {k \in Nat : ~Upto(k)}
<1>1. Upto(0)
  <2>1. \A g, i : i \in 0..0 => (IF i = 0 THEN <<>> ELSE VisitSeed(ms, g[i - 1], order[i])) = <<>>
    BY SMT
  <2> WITNESS [i \in 0..0 |-> <<>>]
  <2> QED  BY <2>1
<1>2. ASSUME NEW k \in Nat \ {0}, Upto(k - 1) PROVE Upto(k)
  <2>1. PICK g : g = [i \in 0..(k - 1) |-> IF i = 0 THEN <<>> ELSE VisitSeed(ms, g[i - 1], order[i])]
    BY <1>2
  <2> DEFINE h == [i \in 0..k |-> IF i = k THEN VisitSeed(ms, g[k - 1], order[k]) ELSE g[i]]
  <2>2. \A i \in 0..(k - 1) : h[i] = g[i]  BY SMT
  <2>3. \A i \in 0..(k - 1) : g[i] = IF i = 0 THEN <<>> ELSE VisitSeed(ms, g[i - 1], order[i])
    BY <2>1
  <2>4. ASSUME NEW i \in 0..k
        PROVE  h[i] = IF i = 0 THEN <<>> ELSE VisitSeed(ms, h[i - 1], order[i])
    <3>1. CASE i = k  BY <2>2, <3>1, SMT
    <3>2. CASE i # k
      <4>1. i \in 0..(k - 1) /\ (i # 0 => i - 1 \in 0..(k - 1))  BY <3>2, SMT
      <4> HIDE DEF h
      <4> QED  BY <2>2, <2>3, <4>1
    <3> QED  BY <3>1, <3>2
  <2>5. h = [i \in 0..k |-> IF i = 0 THEN <<>> ELSE VisitSeed(ms, h[i - 1], order[i])]
    <3>1. h = [i \in 0..k |-> h[i]]  OBVIOUS
    <3> HIDE DEF h
    <3> QED  BY <2>4, <3>1
  <2> HIDE DEF h
  <2> QED  BY <2>5
<1>3. Upto(N)
  <2> SUFFICES ASSUME ~Upto(N) PROVE FALSE
    OBVIOUS
  <2>1. T \subseteq Nat /\ T # {}  OBVIOUS
  <2>2. PICK k \in T : k - 1 \notin T  BY <2>1, LeastNumber
  <2> HIDE DEF Upto
  <2>3. k \in Nat /\ k # 0 /\ k - 1 \in Nat  BY <1>1, <2>2, SMT
  <2>4. Upto(k - 1)  BY <2>2, <2>3
  <2> QED  BY <1>2, <2>2, <2>3, <2>4
<1>4. LET best == SeedLoop(ms, order) IN
      best = [i \in 0..N |-> IF i = 0 THEN <<>> ELSE VisitSeed(ms, best[i - 1], order[i])]
  BY <1>3 DEF SeedLoop
<1> QED  BY <1>4, SMT

\* An order of visits meets every member once, and there is one.
LEMMA OrdersMeetAll ==
    ASSUME NEW S, IsFiniteSet(S)
    PROVE  /\ \A o \in Orders(S) : /\ Len(o) = Cardinality(S) /\ Len(o) \in Nat
                                   /\ o \in [1..Len(o) -> S]
                                   /\ \A x \in S : \E i \in 1..Len(o) : o[i] = x
           /\ Orders(S) # {}
<1> DEFINE D == 1..Cardinality(S)
<1>1. Cardinality(S) \in Nat /\ ExistsBijection(D, S)  BY FS_CardinalityType
<1>2. IsFiniteSet(D) /\ Cardinality(D) = Cardinality(S)
  BY <1>1, FS_Interval, SMT
<1>3. ASSUME NEW o \in Orders(S)
      PROVE  /\ Len(o) = Cardinality(S) /\ o \in [1..Len(o) -> S]
             /\ \A x \in S : \E i \in 1..Len(o) : o[i] = x
  <2>1. o \in [D -> S] /\ \A i, j \in D : i # j => o[i] # o[j]  BY DEF Orders
  <2>2. Len(o) = Cardinality(S)  BY <1>1, <2>1, SMT
  <2>3. o \in Injection(D, S)  BY <2>1 DEF Injection, IsInjective
  <2>4. o \in Surjection(D, S)  BY <1>2, <2>3, FS_Injection
  <2> QED  BY <2>1, <2>2, <2>4 DEF Surjection
<1>4. PICK f : f \in Bijection(D, S)  BY <1>1 DEF ExistsBijection
<1>5. f \in Orders(S)  BY <1>4 DEF Bijection, Injection, IsInjective, Orders
<1> QED  BY <1>1, <1>3, <1>5

\* One iteration of the loop of chooseSeeds: its list stays one of the members
\* visited, and its first member has the highest sequence number among them.
LEMMA VisitSeedNewest ==
    ASSUME NEW ms, NEW S, \A n \in S : ms[n].SEQ \in Nat,
           NEW best \in Seq(S), NEW n \in S, NEW next, next = VisitSeed(ms, best, n)
    PROVE  /\ next \in Seq(S) /\ next # <<>> /\ next[1] \in S
           /\ ms[n].SEQ <= ms[next[1]].SEQ
           /\ best # <<>> => ms[best[1]].SEQ <= ms[next[1]].SEQ
<1>1. CASE best = <<>>
  <2>1. next = <<n>>  BY <1>1 DEF VisitSeed
  <2>2. <<n>> \in Seq(S) /\ <<n>>[1] = n /\ <<n>> # <<>>  BY SMT
  <2>3. ms[n].SEQ \in Nat  OBVIOUS
  <2>4. ms[n].SEQ <= ms[n].SEQ  BY <2>3, SMT
  <2> QED  BY <1>1, <2>1, <2>2, <2>4
<1>2. CASE best # <<>>
  <2>1. best[1] \in S /\ Len(best) \in Nat /\ Len(best) > 0  BY <1>2, SMT
  <2>2. ms[n].SEQ \in Nat /\ ms[best[1]].SEQ \in Nat  BY <2>1
  <2>3. CASE ms[n].SEQ <= ms[best[1]].SEQ
    <3>1. next = Append(best, n)  BY <1>2, <2>3 DEF VisitSeed
    <3>2. /\ Append(best, n) \in Seq(S) /\ Append(best, n)[1] = best[1]
          /\ Append(best, n) # <<>>
      BY <2>1, SMT
    <3> QED  BY <2>1, <2>2, <2>3, <3>1, <3>2, SMT
  <2>4. CASE ~(ms[n].SEQ <= ms[best[1]].SEQ)
    <3>1. next = <<n>>  BY <1>2, <2>4 DEF VisitSeed
    <3>2. <<n>> \in Seq(S) /\ <<n>>[1] = n /\ <<n>> # <<>>  BY SMT
    <3>3. ms[n].SEQ <= ms[n].SEQ /\ ms[best[1]].SEQ <= ms[n].SEQ  BY <2>2, <2>4, SMT
    <3> QED  BY <3>1, <3>2, <3>3
  <2> QED  BY <2>3, <2>4
<1> QED  BY <1>1, <1>2

\* The loop of chooseSeeds, after any number of members: by induction.
LEMMA SeedLoopNewest ==
    ASSUME NEW ms, NEW S, \A n \in S : ms[n].SEQ \in Nat,
           NEW order, Len(order) \in Nat, order \in [1..Len(order) -> S],
           NEW i \in 0..Len(order), NEW s, s = SeedLoop(ms, order)[i]
    PROVE  /\ s \in Seq(S)
           /\ i > 0 => /\ s # <<>> /\ s[1] \in S
                       /\ \A j \in 1..i : ms[order[j]].SEQ <= ms[s[1]].SEQ
<1> DEFINE N == Len(order)
           best == SeedLoop(ms, order)
           Good(k) == /\ best[k] \in Seq(S)
                      /\ k > 0 => /\ best[k] # <<>> /\ best[k][1] \in S
                                  /\ \A j \in 1..k : ms[order[j]].SEQ <= ms[best[k][1]].SEQ
           T == {k \in 0..N : ~Good(k)}
<1>1. best[0] = <<>> /\ \A k \in 1..N : best[k] = VisitSeed(ms, best[k - 1], order[k])
  BY SeedLoopSteps
<1> HIDE DEF best
<1>2. Good(0)  BY <1>1, SMT
<1>3. ASSUME NEW k \in 1..N, Good(k - 1) PROVE Good(k)
  <2>1. best[k - 1] \in Seq(S) /\ order[k] \in S /\ best[k] = VisitSeed(ms, best[k - 1], order[k])
    BY <1>1, <1>3
  <2>2. /\ best[k] \in Seq(S) /\ best[k] # <<>> /\ best[k][1] \in S
        /\ ms[order[k]].SEQ <= ms[best[k][1]].SEQ
        /\ best[k - 1] # <<>> => ms[best[k - 1][1]].SEQ <= ms[best[k][1]].SEQ
    BY <2>1, VisitSeedNewest
  <2>3. ASSUME NEW j \in 1..k PROVE ms[order[j]].SEQ <= ms[best[k][1]].SEQ
    <3>1. CASE j = k  BY <2>2, <3>1
    <3>2. CASE j # k
      <4>1. k - 1 > 0 /\ j \in 1..(k - 1) /\ j \in 1..N  BY <3>2, SMT
      <4>2. /\ best[k - 1] # <<>> /\ best[k - 1][1] \in S
            /\ ms[order[j]].SEQ <= ms[best[k - 1][1]].SEQ
        BY <1>3, <4>1
      <4>3. /\ ms[order[j]].SEQ \in Nat /\ ms[best[k][1]].SEQ \in Nat
            /\ ms[best[k - 1][1]].SEQ \in Nat
        BY <2>2, <4>1, <4>2
      <4> QED  BY <2>2, <4>2, <4>3, SMT
    <3> QED  BY <3>1, <3>2
  <2> QED  BY <2>2, <2>3
<1>4. Good(i)
  <2> SUFFICES ASSUME ~Good(i) PROVE FALSE
    OBVIOUS
  <2> HIDE DEF Good
  <2>1. T \subseteq Nat /\ T # {}  BY SMT
  <2>2. PICK k \in T : k - 1 \notin T  BY <2>1, LeastNumber
  <2>3. k \in 1..N /\ k - 1 \in 0..N  BY <1>2, <2>2, SMT
  <2>4. Good(k - 1)  BY <2>2, <2>3
  <2> QED  BY <1>3, <2>2, <2>3, <2>4
<1> QED  BY <1>1, <1>4 DEF best

\* The loop of chooseMember: what it holds after each member.
LEMMA MemberLoopSteps ==
    ASSUME NEW ms, NEW order, Len(order) \in Nat
    PROVE  LET best == MemberLoop(ms, order) IN
           /\ best[0] = <<>>
           /\ \A i \in 1..Len(order) : best[i] = VisitMember(ms, best[i - 1], order[i])
<1> DEFINE N == Len(order)
           Upto(k) == \E g : g = [i \in 0..k |-> IF i = 0 THEN <<>> ELSE VisitMember(ms, g[i - 1], order[i])]
           T == {k \in Nat : ~Upto(k)}
<1>1. Upto(0)
  <2>1. \A g, i : i \in 0..0 => (IF i = 0 THEN <<>> ELSE VisitMember(ms, g[i - 1], order[i])) = <<>>
    BY SMT
  <2> WITNESS [i \in 0..0 |-> <<>>]
  <2> QED  BY <2>1
<1>2. ASSUME NEW k \in Nat \ {0}, Upto(k - 1) PROVE Upto(k)
  <2>1. PICK g : g = [i \in 0..(k - 1) |-> IF i = 0 THEN <<>> ELSE VisitMember(ms, g[i - 1], order[i])]
    BY <1>2
  <2> DEFINE h == [i \in 0..k |-> IF i = k THEN VisitMember(ms, g[k - 1], order[k]) ELSE g[i]]
  <2>2. \A i \in 0..(k - 1) : h[i] = g[i]  BY SMT
  <2>3. \A i \in 0..(k - 1) : g[i] = IF i = 0 THEN <<>> ELSE VisitMember(ms, g[i - 1], order[i])
    BY <2>1
  <2>4. ASSUME NEW i \in 0..k
        PROVE  h[i] = IF i = 0 THEN <<>> ELSE VisitMember(ms, h[i - 1], order[i])
    <3>1. CASE i = k  BY <2>2, <3>1, SMT
    <3>2. CASE i # k
      <4>1. i \in 0..(k - 1) /\ (i # 0 => i - 1 \in 0..(k - 1))  BY <3>2, SMT
      <4> HIDE DEF h
      <4> QED  BY <2>2, <2>3, <4>1
    <3> QED  BY <3>1, <3>2
  <2>5. h = [i \in 0..k |-> IF i = 0 THEN <<>> ELSE VisitMember(ms, h[i - 1], order[i])]
    <3>1. h = [i \in 0..k |-> h[i]]  OBVIOUS
    <3> HIDE DEF h
    <3> QED  BY <2>4, <3>1
  <2> HIDE DEF h
  <2> QED  BY <2>5
<1>3. Upto(N)
  <2> SUFFICES ASSUME ~Upto(N) PROVE FALSE
    OBVIOUS
  <2>1. T \subseteq Nat /\ T # {}  OBVIOUS
  <2>2. PICK k \in T : k - 1 \notin T  BY <2>1, LeastNumber
  <2> HIDE DEF Upto
  <2>3. k \in Nat /\ k # 0 /\ k - 1 \in Nat  BY <1>1, <2>2, SMT
  <2>4. Upto(k - 1)  BY <2>2, <2>3
  <2> QED  BY <1>2, <2>2, <2>3, <2>4
<1>4. LET best == MemberLoop(ms, order) IN
      best = [i \in 0..N |-> IF i = 0 THEN <<>> ELSE VisitMember(ms, best[i - 1], order[i])]
  BY <1>3 DEF MemberLoop
<1> QED  BY <1>4, SMT

\* The loop of chooseMember holds one of the members it has visited: by induction.
LEMMA MemberLoopChooses ==
    ASSUME NEW ms, NEW S, NEW order, Len(order) \in Nat, order \in [1..Len(order) -> S],
           NEW i \in 0..Len(order), i > 0, NEW b, b = MemberLoop(ms, order)[i]
    PROVE  b \in {<<m>> : m \in S}
<1> DEFINE N == Len(order)
           best == MemberLoop(ms, order)
           Good(k) == k > 0 => \E m \in S : best[k] = <<m>>
           T == {k \in 0..N : ~Good(k)}
<1>1. best[0] = <<>> /\ \A k \in 1..N : best[k] = VisitMember(ms, best[k - 1], order[k])
  BY MemberLoopSteps
<1> HIDE DEF best
<1>2. Good(0)  BY SMT
<1>3. ASSUME NEW k \in 1..N, Good(k - 1) PROVE Good(k)
  <2>1. order[k] \in S /\ best[k] \in {<<order[k]>>, best[k - 1]}
    BY <1>1 DEF VisitMember
  <2>2. CASE k = 1
    <3>1. k - 1 = 0  BY <2>2, SMT
    <3>2. best[k] = <<order[k]>>  BY <1>1, <3>1 DEF VisitMember
    <3> QED  BY <2>1, <3>2
  <2>3. CASE k # 1
    <3>1. k - 1 > 0  BY <2>3, SMT
    <3> QED  BY <1>3, <2>1, <3>1
  <2> QED  BY <2>2, <2>3
<1>4. Good(i)
  <2> SUFFICES ASSUME ~Good(i) PROVE FALSE
    OBVIOUS
  <2> HIDE DEF Good
  <2>1. T \subseteq Nat /\ T # {}  BY SMT
  <2>2. PICK k \in T : k - 1 \notin T  BY <2>1, LeastNumber
  <2>3. k \in 1..N /\ k - 1 \in 0..N  BY <1>2, <2>2, SMT
  <2>4. Good(k - 1)  BY <2>2, <2>3
  <2> QED  BY <1>3, <2>2, <2>3, <2>4
<1> QED  BY <1>4 DEF best

\* The seeds are members that chooseSeeds does not skip, there are some when
\* there is such a member, and the first is the newest of them.
LEMMA SeedsNewest ==
    ASSUME NEW ms, NEW P, IsFiniteSet(P), IsMemberSet(ms, P), NEW s \in chooseSeeds(ms)
    PROVE  /\ s \in Seq(Candidates(ms))
           /\ s = <<>> <=> Candidates(ms) = {}
           /\ s # <<>> => \A q \in Candidates(ms) : ms[q].SEQ <= ms[s[1]].SEQ
<1> DEFINE S == Candidates(ms)
<1>1. S \subseteq P /\ \A n \in S : ms[n].SEQ \in Nat
  <2>1. S \subseteq DOMAIN ms /\ S \subseteq P  BY DEF Candidates, IsMemberSet
  <2>2. \A n \in S : ms[n] \in Member  BY <2>1 DEF IsMemberSet
  <2>3. \A m \in Member : m.SEQ \in Nat  BY SMT DEF Member
  <2> QED  BY <2>1, <2>2, <2>3
<1>2. IsFiniteSet(S)  BY <1>1, FS_Subset
<1>3. PICK o \in Orders(S) : s = SeedLoop(ms, o)[Len(o)]  BY DEF chooseSeeds
<1> HIDE DEF S
<1>4. /\ Len(o) = Cardinality(S) /\ Len(o) \in Nat /\ o \in [1..Len(o) -> S]
      /\ \A x \in S : \E i \in 1..Len(o) : o[i] = x
  BY <1>2, OrdersMeetAll
<1>5. Len(o) \in 0..Len(o) /\ Len(o) \in Nat /\ o \in [1..Len(o) -> S]  BY <1>4, SMT
<1>6. /\ s \in Seq(S)
      /\ Len(o) = 0 => s = <<>>
      /\ Len(o) > 0 => /\ s # <<>>
                       /\ \A j \in 1..Len(o) : ms[o[j]].SEQ <= ms[s[1]].SEQ
  <2>1. s \in Seq(S)  BY <1>1, <1>3, <1>5, SeedLoopNewest
  <2>2. SeedLoop(ms, o)[0] = <<>>  BY <1>5, SeedLoopSteps
  <2>3. Len(o) > 0 => /\ s # <<>> /\ s[1] \in S
                      /\ \A j \in 1..Len(o) : ms[o[j]].SEQ <= ms[s[1]].SEQ
    BY <1>1, <1>3, <1>5, SeedLoopNewest
  <2> QED  BY <1>3, <2>1, <2>2, <2>3
<1>7. Len(o) = 0 <=> S = {}
  BY <1>2, <1>4, FS_EmptySet
<1>8. Len(o) = 0 \/ Len(o) > 0  BY <1>4, SMT
<1>9. s # <<>> => \A q \in S : ms[q].SEQ <= ms[s[1]].SEQ
  BY <1>4, <1>6, <1>8
<1> QED  BY <1>6, <1>7, <1>8, <1>9 DEF S

\* Whatever the order in which Go visits the map, chooseMember returns a member
\* exactly when there is one it does not skip ("No further peers available" is
\* never an accident of the order), and chooseSeeds always has a result.
THEOREM ChoicePossible ==
    ASSUME NEW ms, NEW P, IsFiniteSet(P), IsMemberSet(ms, P)
    PROVE  /\ chooseSeeds(ms) # {}
           /\ chooseMember(ms) = {} <=> Candidates(ms) = {}
<1> DEFINE S == Candidates(ms)
<1>1. S \subseteq P  BY DEF Candidates, IsMemberSet
<1>2. IsFiniteSet(S)  BY <1>1, FS_Subset
<1>3. PICK o \in Orders(S) : TRUE  BY <1>2, OrdersMeetAll
<1>4. chooseSeeds(ms) # {}  BY <1>3 DEF chooseSeeds
<1>5. ASSUME S # {} PROVE chooseMember(ms) # {}
  <2>1. /\ Len(o) = Cardinality(S) /\ Len(o) \in Nat /\ o \in [1..Len(o) -> S]
    BY <1>2, OrdersMeetAll
  <2>2. Len(o) # 0  BY <1>2, <1>5, <2>1, FS_EmptySet
  <2>3. Len(o) > 0 /\ Len(o) \in 0..Len(o)  BY <2>1, <2>2, SMT
  <2> HIDE DEF S
  <2>4. PICK b : b = MemberLoop(ms, o)[Len(o)]  OBVIOUS
  <2>5. Len(o) \in Nat /\ o \in [1..Len(o) -> S]  BY <2>1
  <2>6. b \in {<<m>> : m \in S}
    BY <2>3, <2>4, <2>5, MemberLoopChooses
  <2> QED  BY <2>4, <2>6 DEF chooseMember, S
<1>6. chooseMember(ms) \subseteq S  BY DEF chooseMember
<1> QED  BY <1>4, <1>5, <1>6

\* A nonempty finite set of numbers has a greatest one: by induction on its size.
LEMMA GreatestNumber ==
    ASSUME NEW S, IsFiniteSet(S), S # {}, S \subseteq Nat
    PROVE  \E x \in S : \A y \in S : y <= x
<1> DEFINE Has(A) == \E x \in A : \A y \in A : y <= x
           T == {k \in Nat : \E A \in SUBSET Nat :
                   IsFiniteSet(A) /\ A # {} /\ Cardinality(A) = k /\ ~Has(A)}
<1> SUFFICES ASSUME ~Has(S) PROVE FALSE
  OBVIOUS
<1>1. Cardinality(S) \in Nat  BY FS_CardinalityType
<1>2. Cardinality(S) \in T  BY <1>1
<1>3. T \subseteq Nat /\ T # {}  BY <1>2
<1>4. PICK k \in T : k - 1 \notin T  BY <1>3, LeastNumber
<1>5. PICK A \in SUBSET Nat : IsFiniteSet(A) /\ A # {} /\ Cardinality(A) = k /\ ~Has(A)
  BY <1>4
<1>6. PICK x \in A : TRUE  BY <1>5
<1> DEFINE B == A \ {x}
<1>7. IsFiniteSet(B) /\ Cardinality(B) = k - 1  BY <1>5, <1>6, FS_RemoveElement
<1>8. Cardinality(B) \in Nat  BY <1>7, FS_CardinalityType
<1>9. B = {} \/ Has(B)  BY <1>4, <1>7, <1>8
<1>10. CASE B = {}
  <2>1. \A y \in A : y = x  BY <1>10
  <2> QED  BY <1>5, <1>6, <2>1, SMT
<1>11. CASE Has(B)
  <2>1. PICK z \in B : \A y \in B : y <= z  BY <1>11
  <2>2. z \in Nat /\ x \in Nat /\ z \in A  BY <1>6, <2>1
  <2>3. CASE x <= z
    <3>1. \A y \in A : y <= z  BY <2>1, <2>3
    <3> QED  BY <1>5, <2>2, <3>1
  <2>4. CASE ~(x <= z)
    <3>1. \A y \in A : y <= x  BY <1>5, <2>1, <2>2, <2>4, SMT
    <3> QED  BY <1>5, <1>6, <3>1
  <2> QED  BY <2>3, <2>4
<1> QED  BY <1>9, <1>10, <1>11

\* chooseCurrentPrimary has a result exactly when a recorded primary is not failed.
LEMMA DemotionPossible ==
    ASSUME NEW ms, NEW P, IsFiniteSet(P), P \subseteq Nat, IsMemberSet(ms, P)
    PROVE  chooseCurrentPrimary(ms) = {} <=> {n \in DOMAIN ms : ms[n].AppPrimary /\ ~ms[n].AppFailed} = {}
<1> DEFINE healthy == {n \in DOMAIN ms : ms[n].AppPrimary /\ ~ms[n].AppFailed}
           gone == {n \in healthy : ~ms[n].Online}
           last == {n \in healthy : \A k \in healthy : k <= n}
<1>1. chooseCurrentPrimary(ms) = IF gone # {} THEN gone ELSE last
  BY DEF chooseCurrentPrimary
<1>2. IsFiniteSet(healthy) /\ healthy \subseteq Nat
  <2>1. healthy \subseteq P  BY DEF IsMemberSet
  <2> QED  BY <2>1, FS_Subset
<1>3. healthy # {} => last # {}  BY <1>2, GreatestNumber
<1>4. gone \subseteq healthy /\ last \subseteq healthy  OBVIOUS
<1> QED  BY <1>1, <1>3, <1>4

----------------------------------------------------------------------------
(***************************************************************************)
(* Records.                                                                *)
(***************************************************************************)

\* What the operator writes into a member's record is again a record.
LEMMA MemberTypes ==
    ASSUME NEW m \in Member, NEW rc
    PROVE  /\ newMember \in Member
           /\ Offline(m) \in Member
           /\ Failing(m) \in Member
           /\ Stopped(m) \in Member
           /\ Checked(m, rc) \in Member
<1>1. newMember \in Member  BY SMT DEF Member, newMember, FailureCap
<1>2. Offline(m) \in Member  BY DEF Member, Offline
<1>3. Failing(m) \in Member
  <2> DEFINE f == IF m.Failures < FailureCap THEN m.Failures + 1 ELSE m.Failures
  <2>1. f \in 0..FailureCap  BY SMT DEF Member, FailureCap
  <2>2. Failing(m) = [m EXCEPT !.AppFailed = TRUE, !.Failures = f]  BY DEF Failing
  <2> HIDE DEF f
  <2> QED  BY <2>1, <2>2 DEF Member
<1>4. Stopped(m) \in Member  BY DEF Member, Stopped
<1>5. Checked(m, rc) \in Member  BY DEF Member, Checked
<1> QED  BY <1>1, <1>2, <1>3, <1>4, <1>5

\* Nothing the operator writes into the record of an online member makes the
\* record inconsistent.
LEMMA ConsistentUpdates ==
    ASSUME NEW m \in Member, Consistent(m), m.Online, NEW rc
    PROVE  /\ Consistent(newMember)
           /\ Consistent(Offline(m))
           /\ Consistent(Failing(m))
           /\ Consistent(Stopped(m))
           /\ Consistent(Checked(m, rc))
BY SMT DEF Member, Consistent, newMember, Offline, Failing, Stopped, Checked, FailureCap

\* After a status command that answers "primary" the record says so.
LEMMA CheckedPrimary ==
    ASSUME NEW m \in Member
    PROVE  Checked(m, 8).AppRunning /\ Checked(m, 8).AppPrimary
<1>1. Checked(m, 8) = [m EXCEPT !.AppRunning = TRUE, !.AppPrimary = TRUE]
  BY SMT DEF Checked
<1> QED  BY <1>1 DEF Member

\* The record of a member that leaves or comes back.
LEMMA OnlineUpdates ==
    ASSUME NEW m \in Member, Consistent(m)
    PROVE  LET back == [m EXCEPT !.Online = TRUE] IN
           /\ Offline(m) \in Member /\ Consistent(Offline(m)) /\ ~Offline(m).Online
           /\ back \in Member /\ Consistent(back) /\ back.Online
<1> DEFINE back == [m EXCEPT !.Online = TRUE]
<1>1. Offline(m) \in Member  BY DEF Member, Offline
<1>2. Consistent(Offline(m)) /\ ~Offline(m).Online
  BY SMT DEF Member, Consistent, Offline
<1>3. back \in Member  BY DEF Member
<1>4. Consistent(back) /\ back.Online  BY DEF Member, Consistent
<1> QED  BY <1>1, <1>2, <1>3, <1>4

\* Reconcile() gives exactly the listed Pods an online record, and keeps the
\* records consistent.
LEMMA ReconcileOnline ==
    ASSUME NEW ms, IsMemberSet(ms, Pods), \A n \in DOMAIN ms : Consistent(ms[n]),
           NEW names \in SUBSET Pods
    PROVE  LET rs == Reconcile(ms, podsToMemberSet(names)) IN
           /\ IsMemberSet(rs, Pods)
           /\ \A n \in DOMAIN rs : Consistent(rs[n])
           /\ Online(rs) = names
<1> DEFINE new == podsToMemberSet(names)
           rs == Reconcile(ms, new)
<1>1. /\ DOMAIN new = names
      /\ \A n \in names : new[n] = newMember
      /\ DOMAIN rs = DOMAIN ms \union names
  BY DEF podsToMemberSet, Reconcile
<1>2. ASSUME NEW n \in DOMAIN ms \ names
      PROVE  rs[n] = Offline(ms[n])
  BY <1>1 DEF Reconcile
<1>3. ASSUME NEW n \in names \ DOMAIN ms
      PROVE  rs[n] = newMember
  <2>1. rs[n] = newMember \/ rs[n] = [newMember EXCEPT !.Online = TRUE]
    BY <1>1 DEF Reconcile
  <2> QED  BY <2>1 DEF newMember
<1>4. ASSUME NEW n \in names \intersect DOMAIN ms
      PROVE  rs[n] = [ms[n] EXCEPT !.Online = TRUE]
  <2>1. ms[n] \in Member  BY DEF IsMemberSet
  <2>2. newMember.Online  BY DEF newMember
  <2>3. CASE ms[n].Online
    <3>1. rs[n] = ms[n]  BY <1>1, <2>2, <2>3 DEF Reconcile, DiffExtended
    <3> QED  BY <3>1, <2>1, <2>3 DEF Member
  <2>4. CASE ~ms[n].Online
    BY <1>1, <2>2, <2>4 DEF Reconcile, DiffExtended
  <2> QED  BY <2>3, <2>4
<1>5. ASSUME NEW n \in DOMAIN rs
      PROVE  /\ rs[n] \in Member
             /\ Consistent(rs[n])
             /\ rs[n].Online <=> n \in names
  <2>1. CASE n \in DOMAIN ms \ names
    BY <2>1, <1>2, OnlineUpdates DEF IsMemberSet
  <2>2. CASE n \in names \ DOMAIN ms
    <3>1. newMember \in Member /\ Consistent(newMember) /\ newMember.Online
      BY SMT DEF newMember, Member, FailureCap, Consistent
    <3> QED  BY <2>2, <1>3, <3>1
  <2>3. CASE n \in names \intersect DOMAIN ms
    BY <2>3, <1>4, OnlineUpdates DEF IsMemberSet
  <2> QED  BY <1>1, <2>1, <2>2, <2>3
<1>6. rs \in [DOMAIN rs -> Member]
  BY <1>1, <1>5 DEF Reconcile
<1> QED  BY <1>1, <1>5, <1>6 DEF IsMemberSet, Online

----------------------------------------------------------------------------
(***************************************************************************)
(* Calls and steps of the outside world.                                   *)
(***************************************************************************)
EnvInv == EnvTypeOK /\ OneLineage /\ AppsSettled

\* No application becomes a primary or changes its lineage.
NoNewPrimary ==
    \A p \in Pods : app'[p] = "primary" => app[p] = "primary" /\ lineage'[p] = lineage[p]

\* A lineage no other primary has exists: there are more numbers to choose
\* from than Pods.
LEMMA NewLineageNat ==
    ASSUME EnvTypeOK, NEW p \in Pods
    PROVE  NewLineage(p) \in Nat
<1> DEFINE G == 1..(Cardinality(Pods) + 1)
           Free(g) == \A q \in LivePrimaries \ {p} : lineage[q] # g
<1>1. IsFiniteSet(Pods) /\ Cardinality(Pods) \in Nat
  BY EnvironmentAssumption, FS_CardinalityType
<1>2. IsFiniteSet(G) /\ Cardinality(G) = Cardinality(Pods) + 1
  BY <1>1, FS_Interval, SMT
<1>3. \E g \in G : Free(g)
  <2> SUFFICES ASSUME \A g \in G : ~Free(g) PROVE FALSE
    OBVIOUS
  <2> DEFINE f == [g \in G |-> CHOOSE q \in Pods : lineage[q] = g]
  <2>1. \A g \in G : f[g] \in Pods /\ lineage[f[g]] = g
    BY DEF LivePrimaries
  <2>2. f \in [G -> Pods]  BY <2>1
  <2> HIDE DEF f, G
  <2>3. \E x, y \in G : x # y /\ f[x] = f[y]
    BY <1>1, <1>2, <2>2, FS_PigeonHole, SMT
  <2> QED  BY <2>1, <2>3
<1>4. NewLineage(p) \in G
  BY <1>3 DEF NewLineage
<1> QED  BY <1>1, <1>4, SMT

\* Changing the state of one application keeps the types of app and lineage.
LEMMA AppBecomesType ==
    ASSUME EnvTypeOK, NEW p \in Pods, NEW s \in AppStates, NEW g \in Nat, AppBecomes(p, s, g)
    PROVE  app' \in [Pods -> AppStates] /\ lineage' \in [Pods -> Nat]
BY DEF EnvTypeOK, AppBecomes

\* A start command leaves at most one lineage: it is only given no primary to
\* join when none is live.
LEMMA StartCallEnv ==
    ASSUME ReliableCalls, EnvInv, NEW n \in Pods, NEW command, NEW known, NEW ok \in BOOLEAN,
           StartCall(n, command, known, ok), label' \in [Pods -> BOOLEAN],
           LivePrimaries = {} \/ known # {} \/ command = "secondary"
    PROVE  EnvInv' /\ (~ok => LivePrimaries' \subseteq LivePrimaries)
<1> DEFINE role == IF command = "secondary" THEN "secondary" ELSE "primary"
           sources == IF app[n] = "primary" THEN {n} ELSE LivePrimaries
<1> USE DEF EnvInv
<1>1. pod' = pod /\ committed' = committed  BY DEF StartCall
<1>2. CASE Alive(n) /\ known = {} /\ ok /\ UNCHANGED <<data, faults>>
           /\ AppBecomes(n, role, NewLineage(n))
  <2>1. app' \in [Pods -> AppStates] /\ lineage' \in [Pods -> Nat]
    BY <1>2, NewLineageNat, AppBecomesType DEF AppStates
  <2>2. EnvTypeOK'  BY <1>1, <1>2, <2>1 DEF EnvTypeOK
  <2>3. OneLineage'
    BY <1>2 DEF OneLineage, LivePrimaries, AppBecomes, EnvTypeOK
  <2>4. AppsSettled'
    BY <1>1, <1>2 DEF AppsSettled, AppBecomes, EnvTypeOK, Alive
  <2> QED  BY <1>2, <2>2, <2>3, <2>4
<1>3. CASE Alive(n) /\ known # {} /\ ok /\ UNCHANGED faults
           /\ \E q \in sources : /\ AppBecomes(n, role, lineage[q])
                                 /\ data' = [data EXCEPT ![n] = data[q]]
  <2> PICK q \in sources : /\ AppBecomes(n, role, lineage[q])
                           /\ data' = [data EXCEPT ![n] = data[q]]
    BY <1>3
  <2>1. q \in LivePrimaries /\ q \in Pods /\ lineage[q] \in Nat
    BY DEF LivePrimaries, EnvTypeOK
  <2>2. app' \in [Pods -> AppStates] /\ lineage' \in [Pods -> Nat]
    BY <2>1, AppBecomesType DEF AppStates
  <2>3. EnvTypeOK'  BY <1>1, <1>3, <2>1, <2>2 DEF EnvTypeOK
  <2>4. OneLineage'
    BY <2>1 DEF OneLineage, LivePrimaries, AppBecomes, EnvTypeOK
  <2>5. AppsSettled'
    BY <1>1, <1>3 DEF AppsSettled, AppBecomes, EnvTypeOK, Alive
  <2> QED  BY <1>3, <2>3, <2>4, <2>5
<1>4. CASE UNCHANGED <<app, lineage, data, faults>>
  BY <1>1, <1>4 DEF EnvTypeOK, OneLineage, LivePrimaries, AppsSettled, Alive
<1>5. CASE Alive(n) /\ ~ok /\ Fault("start") /\ UNCHANGED data
           /\ \E s \in FailedStartLeaves : AppBecomes(n, s, NewLineage(n))
  <2> PICK s \in FailedStartLeaves : AppBecomes(n, s, NewLineage(n))
    BY <1>5
  <2>1. s \in AppStates /\ s # "primary" /\ s # "starting"
    BY EnvironmentAssumption DEF ReliableCalls
  <2>2. app' \in [Pods -> AppStates] /\ lineage' \in [Pods -> Nat]
    BY <2>1, NewLineageNat, AppBecomesType
  <2>3. faults' \in 0..MaxFaults
    BY <1>5, EnvironmentAssumption, SMT DEF Fault, EnvTypeOK
  <2>4. EnvTypeOK'  BY <1>1, <1>5, <2>2, <2>3 DEF EnvTypeOK
  <2>5. OneLineage'
    BY <2>1 DEF OneLineage, LivePrimaries, AppBecomes, EnvTypeOK
  <2>6. AppsSettled'
    BY <1>1, <2>1 DEF AppsSettled, AppBecomes, EnvTypeOK, Alive
  <2>7. LivePrimaries' \subseteq LivePrimaries
    BY <2>1 DEF LivePrimaries, AppBecomes, EnvTypeOK
  <2> QED  BY <2>4, <2>5, <2>6, <2>7
<1> QED
  BY <1>2, <1>3, <1>4, <1>5 DEF StartCall, ReliableCalls, Fault

\* Losing primaries cannot break the environment's part of the invariant.
LEMMA LossEnv ==
    ASSUME EnvInv, EnvTypeOK', NoNewPrimary,
           \A p \in Pods : /\ app'[p] = "starting" => app[p] = "starting"
                           /\ app'[p] = "primary" /\ Alive(p) => Alive(p)'
    PROVE  EnvInv' /\ LivePrimaries' \subseteq LivePrimaries
<1>1. LivePrimaries' \subseteq LivePrimaries  BY DEF LivePrimaries, NoNewPrimary
<1>2. OneLineage'  BY DEF EnvInv, OneLineage, LivePrimaries, NoNewPrimary
<1>3. ASSUME NEW p \in Pods
      PROVE  app'[p] # "starting" /\ (app'[p] = "primary" => Alive(p)')
  <2>1. app[p] # "starting" /\ (app[p] = "primary" => Alive(p))
    BY DEF EnvInv, AppsSettled
  <2> QED  BY <2>1 DEF NoNewPrimary
<1>4. AppsSettled'  BY <1>3 DEF AppsSettled, Alive
<1> QED  BY <1>1, <1>2, <1>4 DEF EnvInv

\* A stop command that reports success has stopped the application.
LEMMA StopCallEnv ==
    ASSUME ReliableCalls, EnvInv, NEW n \in Pods, NEW ok \in BOOLEAN, StopCall(n, ok),
           label' \in [Pods -> BOOLEAN], pod' \in [Pods -> PodStates],
           \A p \in Pods : Alive(p) => Alive(p)'
    PROVE  /\ EnvInv'
           /\ LivePrimaries' \subseteq LivePrimaries
           /\ ok => n \notin LivePrimaries'
<1> USE DEF EnvInv
<1>1. PICK s \in AppStates :
         \/ AppBecomes(n, s, lineage[n]) /\ s \in {app[n], "stopped"} /\ (ok => s = "stopped")
         \/ UNCHANGED <<app, lineage>> /\ (ok => app[n] # "primary")
  <2>1. CASE Alive(n) /\ ok /\ AppBecomes(n, "stopped", 0)
    BY <2>1 DEF AppStates, AppBecomes
  <2>2. CASE Alive(n) /\ ~ok /\ \E s \in {app[n], "stopped"} : AppBecomes(n, s, lineage[n])
    BY <2>2 DEF AppStates, EnvTypeOK
  <2>3. CASE ~Alive(n) /\ UNCHANGED <<app, lineage>>
    BY <2>3 DEF AppStates, AppsSettled
  <2> QED  BY <2>1, <2>2, <2>3 DEF StopCall, ReliableCalls, Fault
<1>2. app' \in [Pods -> AppStates] /\ lineage' \in [Pods -> Nat]
  BY <1>1, AppBecomesType DEF EnvTypeOK
<1>3. faults' \in 0..MaxFaults
  BY EnvironmentAssumption, SMT DEF StopCall, Fault, EnvTypeOK
<1>4. EnvTypeOK'
  BY <1>2, <1>3 DEF StopCall, EnvTypeOK
<1>5. NoNewPrimary
  BY <1>1 DEF NoNewPrimary, AppBecomes, EnvTypeOK
<1>6. \A p \in Pods : app'[p] = "starting" => app[p] = "starting"
  BY <1>1 DEF AppBecomes, EnvTypeOK
<1>7. ok => n \notin LivePrimaries'
  BY <1>1 DEF AppBecomes, EnvTypeOK, LivePrimaries
<1> QED  BY <1>4, <1>5, <1>6, <1>7, LossEnv

\* Deleting a Pod leaves every application in place until the Pod is gone.
LEMMA DeleteCallPods ==
    ASSUME EnvInv, NEW n \in Pods, NEW ok \in BOOLEAN, DeleteCall(n, ok)
    PROVE  pod' \in [Pods -> PodStates] /\ \A p \in Pods : Alive(p) => Alive(p)'
BY DEF EnvInv, EnvTypeOK, DeleteCall, PodStates, Alive

\* tagAppMember keeps the labels well typed.
LEMMA TagType ==
    ASSUME EnvTypeOK, NEW n \in Pods, NEW on \in BOOLEAN, tagAppMember(n, on)
    PROVE  label' \in [Pods -> BOOLEAN]
BY DEF EnvTypeOK, tagAppMember

\* On its own the outside world only takes primaries away.
LEMMA EnvStepEnv ==
    ASSUME EnvInv, EnvStep
    PROVE  EnvInv' /\ LivePrimaries' \subseteq LivePrimaries
<1> USE DEF EnvInv
<1> DEFINE Kept == /\ NoNewPrimary
                   /\ \A p \in Pods : /\ app'[p] = "starting" => app[p] = "starting"
                                      /\ app'[p] = "primary" /\ Alive(p) => Alive(p)'
<1>1. ASSUME NEW p \in Pods, PodGone(p) \/ PodDies(p)
      PROVE  EnvTypeOK' /\ Kept
  <2>1. app' \in [Pods -> AppStates] /\ lineage' \in [Pods -> Nat]
    BY <1>1, AppBecomesType DEF PodGone, PodDies, Vanish, AppStates
  <2>2. faults' \in 0..MaxFaults
    BY <1>1, EnvironmentAssumption, SMT DEF PodGone, PodDies, Fault, EnvTypeOK
  <2>3. EnvTypeOK'
    BY <1>1, <2>1, <2>2 DEF PodGone, PodDies, Vanish, EnvTypeOK, PodStates
  <2>4. Kept
    BY <1>1 DEF PodGone, PodDies, Vanish, AppBecomes, NoNewPrimary, EnvTypeOK, Alive
  <2> QED  BY <2>3, <2>4
<1>2. ASSUME NEW p \in Pods, PodCreated(p) \/ PodRuns(p)
      PROVE  EnvTypeOK' /\ Kept
  BY <1>2 DEF PodCreated, PodRuns, NoNewPrimary, EnvTypeOK, PodStates, Alive
<1>3. ASSUME NEW p \in Pods, StartFinishes(p)
      PROVE  FALSE
  BY <1>3 DEF StartFinishes, AppsSettled
<1>4. ASSUME NEW p \in Pods, AppStops(p) \/ AppBreaks(p) \/ AppDemoted(p)
      PROVE  EnvTypeOK' /\ Kept
  <2>1. app' \in [Pods -> AppStates] /\ lineage' \in [Pods -> Nat]
    BY <1>4, AppBecomesType DEF AppStops, AppBreaks, AppDemoted, AppStates
  <2>2. EnvTypeOK'
    BY <1>4, <2>1, EnvironmentAssumption, SMT DEF AppStops, AppBreaks, AppDemoted, Fault, EnvTypeOK
  <2>3. Kept
    BY <1>4 DEF AppStops, AppBreaks, AppDemoted, AppBecomes, NoNewPrimary, EnvTypeOK, Alive
  <2> QED  BY <2>2, <2>3
<1>5. ASSUME NEW p \in Pods, Write(p)
      PROVE  EnvTypeOK' /\ Kept
  BY <1>5, SMT DEF Write, NoNewPrimary, EnvTypeOK, Alive
<1> HIDE DEF EnvInv
<1> QED  BY <1>1, <1>2, <1>3, <1>4, <1>5, LossEnv DEF EnvStep, KubernetesStep, FaultStep

----------------------------------------------------------------------------
(***************************************************************************)
(* Steps of the operator.                                                  *)
(***************************************************************************)
LocalTypeOK ==
    /\ pc \in PCs
    /\ IsMemberSet(peers, Pods)
    /\ running \subseteq Pods
    /\ todo \subseteq Pods
    /\ seeds \in Seq(Pods)
    /\ errs \in BOOLEAN
    /\ again \in BOOLEAN
    /\ steady \subseteq Pods

\* The invariant names its conjuncts.
LEMMA InvParts ==
    OneLineageInv <=> /\ EnvInv /\ LocalTypeOK
                      /\ MembersConsistent /\ VisitsOnline /\ Covered /\ Joinable
BY DEF OneLineageInv, TypeOK, EnvInv, LocalTypeOK

\* The same in the next state.
LEMMA InvPartsNext ==
    OneLineageInv' <=> /\ EnvInv' /\ LocalTypeOK'
                       /\ MembersConsistent' /\ VisitsOnline' /\ Covered' /\ Joinable'
BY DEF OneLineageInv, TypeOK, EnvInv, LocalTypeOK

\* The history variable stays a set of Pods.
LEMMA TrackType ==
    ASSUME LocalTypeOK, Track
    PROVE  steady' \subseteq Pods
BY DEF LocalTypeOK, Track

\* The record of an online member is a consistent record.
LEMMA OnlineRecord ==
    ASSUME LocalTypeOK, MembersConsistent, NEW n \in Online(peers)
    PROVE  /\ n \in DOMAIN peers /\ n \in Pods
           /\ peers[n] \in Member /\ Consistent(peers[n]) /\ peers[n].Online
BY DEF LocalTypeOK, MembersConsistent, Online, IsMemberSet

\* Replacing one record by a consistent one.
LEMMA UpdateMember ==
    ASSUME LocalTypeOK, MembersConsistent, NEW n \in DOMAIN peers,
           NEW m \in Member, Consistent(m), peers' = [peers EXCEPT ![n] = m]
    PROVE  /\ IsMemberSet(peers, Pods)'
           /\ MembersConsistent'
           /\ DOMAIN peers' = DOMAIN peers
           /\ peers'[n] = m
           /\ \A k \in DOMAIN peers \ {n} : peers'[k] = peers[k]
           /\ m.Online => Online(peers) \subseteq Online(peers')
           /\ Online(peers) \ {n} \subseteq Online(peers')
BY DEF LocalTypeOK, MembersConsistent, IsMemberSet, Online

\* reconcile() begins: the live primaries are among the Pods it is given,
\* unless it follows a failed replicate().
LEMMA StartReconcileInv ==
    ASSUME OneLineageInv, NEW names \in SUBSET Pods, NEW retry \in BOOLEAN,
           StartReconcile(names, retry), UNCHANGED env, Track,
           retry \/ LivePrimaries \subseteq names
    PROVE  OneLineageInv'
<1> USE InvParts
<1>1. EnvInv' /\ LivePrimaries' = LivePrimaries
  BY DEF env, world, EnvInv, EnvTypeOK, OneLineage, LivePrimaries, AppsSettled, Alive
<1>2. /\ IsMemberSet(peers, Pods)'
      /\ MembersConsistent'
      /\ Online(peers') = names
  BY ReconcileOnline DEF StartReconcile, LocalTypeOK, MembersConsistent
<1>3. /\ pc' = "check" /\ todo' = Online(peers') \ Failed(peers')
      /\ running' = names /\ ~errs' /\ errs' \in BOOLEAN /\ again' = retry /\ seeds' = <<>>
  BY DEF StartReconcile, Visit
<1>4. LocalTypeOK'
  BY <1>2, <1>3, TrackType, SMT DEF LocalTypeOK, PCs
<1>5. VisitsOnline'
  BY <1>3 DEF VisitsOnline
<1>6. Covered'
  BY <1>1, <1>2, <1>3 DEF Covered, Online, Failed
<1>7. Joinable'
  BY <1>3 DEF Joinable
<1> QED  BY <1>1, <1>2, <1>4, <1>5, <1>6, <1>7, InvPartsNext

\* The goroutine waits for its timer.
LEMMA IdleInv ==
    ASSUME OneLineageInv, Idle, EnvInv', IsMemberSet(peers, Pods)', MembersConsistent', Track
    PROVE  OneLineageInv'
<1> USE InvParts
<1>1. /\ pc' = "idle" /\ todo' = {} /\ running' = {} /\ seeds' = <<>>
      /\ errs' \in BOOLEAN /\ again' \in BOOLEAN
  BY DEF Idle, Visit
<1>2. LocalTypeOK'  BY <1>1, TrackType, SMT DEF LocalTypeOK, PCs
<1>3. VisitsOnline' /\ Covered' /\ Joinable'
  BY <1>1 DEF VisitsOnline, Covered, Joinable
<1> QED  BY <1>2, <1>3, InvPartsNext

\* The timer fires.
LEMMA PollPodsInv ==
    ASSUME OneLineageInv, PollPods, Track
    PROVE  OneLineageInv'
<1> USE InvParts
<1> DEFINE names == {p \in Pods : Alive(p)}
<1>1. LivePrimaries \subseteq names
  BY DEF EnvInv, AppsSettled, LivePrimaries
<1>2. CASE StartReconcile(names, FALSE)
  BY <1>1, <1>2, StartReconcileInv DEF PollPods
<1>3. CASE /\ peers' = IF Replicas = 0 THEN NoMembers ELSE Reconcile(peers, NoMembers)
           /\ UNCHANGED <<pc, local>>
  <2>1. pc = "idle" /\ UNCHANGED env  BY DEF PollPods
  <2>2. EnvInv'
    BY <2>1 DEF env, world, EnvInv, EnvTypeOK, OneLineage, LivePrimaries, AppsSettled, Alive
  <2>3. NoMembers = podsToMemberSet({})  BY DEF NoMembers, podsToMemberSet
  <2>4. IsMemberSet(NoMembers, Pods) /\ \A n \in DOMAIN NoMembers : Consistent(NoMembers[n])
    BY DEF IsMemberSet, NoMembers
  <2>5. IsMemberSet(peers, Pods)' /\ MembersConsistent'
    BY <1>3, <2>3, <2>4, ReconcileOnline DEF LocalTypeOK, MembersConsistent
  <2>6. LocalTypeOK'
    BY <1>3, <2>5, TrackType DEF LocalTypeOK, local
  <2>7. VisitsOnline' /\ Covered' /\ Joinable'
    BY <1>3, <2>1 DEF VisitsOnline, Covered, Joinable, local
  <2> QED  BY <2>2, <2>5, <2>6, <2>7, InvPartsNext
<1> QED  BY <1>2, <1>3 DEF PollPods

\* The answer of one status command: a live primary is known afterwards, or
\* the round has met an error.
LEMMA CheckMemberInv ==
    ASSUME ReliableCalls, OneLineageInv, NEW n \in Pods, CheckMember(n), Track
    PROVE  OneLineageInv'
<1> USE InvParts
<1>1. PICK code \in {0, 1, 7, 8} :
         /\ StatusCall(n, code)
         /\ peers' = [peers EXCEPT ![n] = Checked(peers[n], Remap(code))]
         /\ errs' = (errs \/ CheckError(peers[n], Remap(code)))
         /\ IF peers'[n].AppFailed THEN tagAppMember(n, FALSE) ELSE UNCHANGED label
  BY DEF CheckMember
<1> DEFINE rc == Remap(code)
           m == Checked(peers[n], rc)
<1>2. /\ pc = "check" /\ pc' = "check" /\ n \in todo /\ todo' = todo \ {n}
      /\ running' = running /\ seeds' = seeds /\ again' = again
  BY DEF CheckMember
<1>3. n \in Online(peers)  BY <1>2 DEF VisitsOnline
<1>4. /\ n \in DOMAIN peers /\ peers[n] \in Member
      /\ Consistent(peers[n]) /\ peers[n].Online
  BY <1>3, OnlineRecord
<1>5. m \in Member /\ Consistent(m)
  BY <1>4, MemberTypes, ConsistentUpdates
<1>6. m.Online
  BY <1>4 DEF Checked, Member
<1>7. /\ IsMemberSet(peers, Pods)'
      /\ MembersConsistent'
      /\ DOMAIN peers' = DOMAIN peers
      /\ peers'[n] = m
      /\ \A k \in DOMAIN peers \ {n} : peers'[k] = peers[k]
      /\ Online(peers) \subseteq Online(peers')
  <2> HIDE DEF m
  <2> QED  BY <1>1, <1>4, <1>5, <1>6, UpdateMember DEF m, rc
<1>8. label' \in [Pods -> BOOLEAN]
  BY <1>1, TagType DEF EnvInv, EnvTypeOK
<1>9. /\ pod' = pod /\ app' = app /\ lineage' = lineage /\ data' = data /\ committed' = committed
      /\ faults' \in 0..MaxFaults
  BY <1>1, EnvironmentAssumption, SMT DEF StatusCall, Fault, EnvInv, EnvTypeOK
<1>10. EnvInv' /\ LivePrimaries' = LivePrimaries
  BY <1>8, <1>9 DEF EnvInv, EnvTypeOK, OneLineage, LivePrimaries, AppsSettled, Alive
<1>11. errs' \in BOOLEAN
  BY <1>1 DEF LocalTypeOK, CheckError
<1>12. LocalTypeOK'
  BY <1>2, <1>7, <1>11, TrackType DEF LocalTypeOK
<1>13. VisitsOnline'
  BY <1>2, <1>7 DEF VisitsOnline
<1>14. ASSUME n \in LivePrimaries, ~errs'
       PROVE  n \in PrimariesOf(peers')
  <2>1. Alive(n) /\ app[n] = "primary"
    BY <1>14 DEF EnvInv, AppsSettled, LivePrimaries
  <2>2. code = 8 \/ code = 1
    BY <1>1, <2>1 DEF StatusCall, StatusCode, ReliableCalls, Fault, Alive
  <2>3. code = 1 => CheckError(peers[n], rc)
    BY SMT DEF CheckError, Remap
  <2>4. rc = 8
    BY <1>1, <1>14, <2>2, <2>3 DEF Remap
  <2>5. m.AppRunning /\ m.AppPrimary /\ m.Online
    <3> HIDE DEF rc
    <3> QED  BY <1>4, <1>6, <2>4, CheckedPrimary
  <2> HIDE DEF m
  <2> QED  BY <1>4, <1>7, <2>5 DEF PrimariesOf
<1>15. Covered'
  <2> SUFFICES ASSUME ~errs', ~again', NEW p \in LivePrimaries
               PROVE  \/ p \in PrimariesOf(peers')
                      \/ p \in todo'
                      \/ p \in Online(peers') /\ peers'[p].AppFailed
    BY <1>2, <1>10 DEF Covered
  <2>1. ~errs  BY <1>1 DEF LocalTypeOK, CheckError
  <2>2. CASE p = n  BY <1>14, <2>2
  <2>3. CASE p # n
    <3>1. \/ p \in PrimariesOf(peers)
          \/ p \in todo
          \/ p \in Online(peers) /\ peers[p].AppFailed
      BY <1>2, <2>1 DEF Covered
    <3> HIDE DEF m
    <3> QED  BY <1>2, <1>7, <2>3, <3>1 DEF PrimariesOf, Online
  <2> QED  BY <2>2, <2>3
<1>16. Joinable'
  BY <1>2 DEF Joinable
<1> QED  BY <1>7, <1>10, <1>12, <1>13, <1>15, <1>16, InvPartsNext

\* A step that touches neither the outside world nor the records.
LEMMA SameRecords ==
    ASSUME OneLineageInv, UNCHANGED <<env, peers>>
    PROVE  /\ EnvInv' /\ LivePrimaries' = LivePrimaries
           /\ IsMemberSet(peers, Pods)' /\ MembersConsistent'
BY InvParts DEF env, world, EnvInv, EnvTypeOK, OneLineage, LivePrimaries, AppsSettled,
                Alive, LocalTypeOK, MembersConsistent

\* The status loop ends: a failed member that is online is one to recover.
LEMMA CheckDoneInv ==
    ASSUME OneLineageInv, CheckDone, Track
    PROVE  OneLineageInv'
<1> USE InvParts
<1>1. /\ pc = "check" /\ todo = {} /\ pc' = "recover" /\ todo' = Recoverable(peers)
      /\ peers' = peers /\ running' = running /\ seeds' = seeds /\ errs' = errs /\ again' = again
  BY DEF CheckDone, Visit
<1>2. /\ EnvInv' /\ LivePrimaries' = LivePrimaries
      /\ IsMemberSet(peers, Pods)' /\ MembersConsistent'
  BY SameRecords DEF CheckDone
<1>3. Recoverable(peers) \subseteq Online(peers)
  BY DEF Recoverable, Failed, Online, MembersConsistent, Consistent
<1>4. Recoverable(peers) \subseteq Pods
  BY DEF Recoverable, Failed, LocalTypeOK, IsMemberSet
<1>5. LocalTypeOK'
  BY <1>1, <1>2, <1>4, TrackType DEF LocalTypeOK, PCs
<1>6. VisitsOnline' /\ Joinable'
  BY <1>1, <1>3 DEF VisitsOnline, Joinable
<1>7. Covered'
  BY <1>1, <1>2 DEF Covered, Recoverable, Failed, Online
<1> QED  BY <1>2, <1>5, <1>6, <1>7, InvPartsNext

\* What recover() writes into the record m of a member.
LEMMA RecoveredRecord ==
    ASSUME NEW m \in Member, Consistent(m), m.Online
    PROVE  \A r \in {Stopped(m), m, Offline(m), Failing(m), Offline(Failing(m))} :
              r \in Member /\ Consistent(r)
<1>1. Failing(m) \in Member /\ Consistent(Failing(m))
  BY MemberTypes, ConsistentUpdates
<1> QED  BY <1>1, MemberTypes, ConsistentUpdates, OnlineUpdates

\* A failed member is stopped, or its Pod deleted and the round has an error.
LEMMA RecoverMemberInv ==
    ASSUME ReliableCalls, OneLineageInv, NEW n \in Pods, RecoverMember(n), Track
    PROVE  OneLineageInv'
<1> USE InvParts
<1>1. /\ pc \in {"recover", "cleanup"} /\ pc' = pc /\ n \in todo /\ todo' = todo \ {n}
      /\ running' = running /\ seeds' = seeds /\ again' = again /\ tagAppMember(n, FALSE)
  BY DEF RecoverMember
<1>2. n \in Online(peers)  BY <1>1 DEF VisitsOnline
<1>3. /\ n \in DOMAIN peers /\ peers[n] \in Member
      /\ Consistent(peers[n]) /\ peers[n].Online
  BY <1>2, OnlineRecord
<1>4. label' \in [Pods -> BOOLEAN]
  BY <1>1, TagType DEF EnvInv
<1>5. PICK r \in {Stopped(peers[n]), peers[n], Offline(peers[n]),
                  Failing(peers[n]), Offline(Failing(peers[n]))} :
         peers' = [peers EXCEPT ![n] = r]
  BY DEF RecoverMember, deleteMember
<1>6. r \in Member /\ Consistent(r)
  BY <1>3, <1>5, RecoveredRecord
<1>7. /\ IsMemberSet(peers, Pods)' /\ MembersConsistent'
      /\ DOMAIN peers' = DOMAIN peers
      /\ \A k \in DOMAIN peers \ {n} : peers'[k] = peers[k]
      /\ Online(peers) \ {n} \subseteq Online(peers')
  BY <1>3, <1>5, <1>6, UpdateMember
<1>8. /\ EnvInv' /\ LivePrimaries' \subseteq LivePrimaries
      /\ errs' \in BOOLEAN /\ (~errs' => ~errs /\ n \notin LivePrimaries')
  <2>1. CASE deleteMember(n, peers[n]) /\ errs' = TRUE
             /\ UNCHANGED <<app, lineage, data, committed, faults>>
    <3>1. pod' \in [Pods -> PodStates] /\ \A p \in Pods : Alive(p) => Alive(p)'
      BY <2>1, DeleteCallPods DEF deleteMember
    <3>2. EnvTypeOK' /\ NoNewPrimary /\ app' = app
      BY <1>4, <2>1, <3>1 DEF EnvInv, EnvTypeOK, NoNewPrimary
    <3> QED  BY <2>1, <3>1, <3>2, LossEnv
  <2>2. CASE StopCall(n, TRUE) /\ UNCHANGED <<pod, errs>>
    <3>1. pod' \in [Pods -> PodStates] /\ \A p \in Pods : Alive(p) => Alive(p)'
      BY <2>2 DEF EnvInv, EnvTypeOK, Alive
    <3> QED  BY <1>4, <2>2, <3>1, StopCallEnv DEF LocalTypeOK
  <2>3. CASE StopCall(n, FALSE) /\ deleteMember(n, Failing(peers[n])) /\ errs' = TRUE
    <3>1. pod' \in [Pods -> PodStates] /\ \A p \in Pods : Alive(p) => Alive(p)'
      BY <2>3, DeleteCallPods DEF deleteMember
    <3> QED  BY <1>4, <2>3, <3>1, StopCallEnv
  <2> QED  BY <2>1, <2>2, <2>3 DEF RecoverMember
<1>9. LocalTypeOK'
  BY <1>1, <1>7, <1>8, TrackType DEF LocalTypeOK
<1>10. VisitsOnline' /\ Joinable'
  BY <1>1, <1>7 DEF VisitsOnline, Joinable
<1>11. Covered'
  BY <1>1, <1>3, <1>7, <1>8 DEF Covered, PrimariesOf
<1> QED  BY <1>7, <1>8, <1>9, <1>10, <1>11, InvPartsNext

\* reconcile() returns.
LEMMA ReconcileDoneInv ==
    ASSUME OneLineageInv, ReconcileDone, Track
    PROVE  OneLineageInv'
<1> USE InvParts
<1>1. pc = "recover" /\ todo = {} /\ UNCHANGED <<env, peers>>
  BY DEF ReconcileDone
<1>2. /\ EnvInv' /\ LivePrimaries' = LivePrimaries
      /\ IsMemberSet(peers, Pods)' /\ MembersConsistent'
  BY <1>1, SameRecords
<1>3. CASE Idle
  BY <1>2, <1>3, IdleInv
<1>4. CASE /\ ~(errs \/ again)
           /\ Visit("replicate", {}) /\ UNCHANGED <<running, seeds, errs, again>>
  <2>1. pc' = "replicate" /\ todo' = {}  BY <1>4 DEF Visit
  <2>2. LocalTypeOK'
    BY <1>2, <1>4, <2>1, TrackType DEF LocalTypeOK, PCs
  <2>3. VisitsOnline' /\ Joinable'
    BY <2>1 DEF VisitsOnline, Joinable
  <2>4. Covered'
    BY <1>1, <1>2, <1>4, <2>1 DEF Covered
  <2> QED  BY <1>2, <2>2, <2>3, <2>4, InvPartsNext
<1> QED  BY <1>3, <1>4 DEF ReconcileDone

\* A replicate() that gives up before its stages leads to a reconcile() that
\* keeps the invariant.
LEMMA GiveUpInv ==
    ASSUME OneLineageInv, GiveUp, UNCHANGED env, Track
    PROVE  OneLineageInv'
BY InvParts, StartReconcileInv DEF GiveUp, LocalTypeOK

\* replicate() begins.
LEMMA ReplicateInv ==
    ASSUME OneLineageInv, Replicate, Track
    PROVE  OneLineageInv'
<1> USE InvParts
<1>1. pc = "replicate" /\ UNCHANGED env  BY DEF Replicate
<1>2. CASE GiveUp  BY <1>1, <1>2, GiveUpInv
<1>3. CASE /\ \/ Visit("detect", Online(peers)) \/ Visit("detect", {})
           /\ UNCHANGED <<peers, running, seeds, errs, again>>
  <2>1. pc' = "detect" /\ todo' \subseteq Online(peers)  BY <1>3 DEF Visit
  <2>2. /\ EnvInv' /\ LivePrimaries' = LivePrimaries
        /\ IsMemberSet(peers, Pods)' /\ MembersConsistent'
    BY <1>1, <1>3, SameRecords
  <2>3. LocalTypeOK'
    BY <1>3, <2>1, <2>2, TrackType, OnlineRecord DEF LocalTypeOK, PCs
  <2>4. VisitsOnline' /\ Joinable'
    BY <1>3, <2>1 DEF VisitsOnline, Joinable
  <2>5. Covered'
    BY <1>1, <1>3, <2>1, <2>2 DEF Covered
  <2> QED  BY <2>2, <2>3, <2>4, <2>5, InvPartsNext
<1> QED  BY <1>2, <1>3 DEF Replicate

\* A new sequence number in the record of an online member.
LEMMA SequencedRecord ==
    ASSUME NEW m \in Member, Consistent(m), m.Online, NEW seq \in Nat
    PROVE  LET r == [m EXCEPT !.SEQ = seq] IN
           /\ r \in Member /\ Consistent(r) /\ r.Online
           /\ r.AppPrimary = m.AppPrimary /\ r.AppRunning = m.AppRunning
<1> DEFINE r == [m EXCEPT !.SEQ = seq]
<1>1. r \in Member  BY DEF Member
<1>2. /\ r.Online = m.Online /\ r.AppPrimary = m.AppPrimary
      /\ r.AppRunning = m.AppRunning /\ r.AppFailed = m.AppFailed
  BY DEF Member
<1> QED  BY <1>1, <1>2 DEF Consistent

\* Asking a member for its sequence number keeps the invariant.
LEMMA DetectMemberInv ==
    ASSUME OneLineageInv, NEW n \in Pods, DetectMember(n), Track
    PROVE  OneLineageInv'
<1> USE InvParts
<1>1. PICK seq \in {peers[n].SEQ, data[n], 0} :
         /\ SequenceCall(n, peers[n].SEQ, seq)
         /\ peers' = [peers EXCEPT ![n].SEQ = seq]
  BY DEF DetectMember
<1>2. /\ pc = "detect" /\ pc' = "detect" /\ n \in todo /\ todo' = todo \ {n}
      /\ running' = running /\ seeds' = seeds /\ errs' = errs /\ again' = again
  BY DEF DetectMember
<1>3. n \in Online(peers)  BY <1>2 DEF VisitsOnline
<1>4. /\ n \in DOMAIN peers /\ peers[n] \in Member
      /\ Consistent(peers[n]) /\ peers[n].Online
  BY <1>3, OnlineRecord
<1>5. seq \in Nat
  BY <1>1, <1>4, SMT DEF Member, EnvInv, EnvTypeOK
<1> DEFINE r == [peers[n] EXCEPT !.SEQ = seq]
<1>6. /\ r \in Member /\ Consistent(r) /\ r.Online
      /\ r.AppPrimary = peers[n].AppPrimary /\ r.AppRunning = peers[n].AppRunning
  BY <1>4, <1>5, SequencedRecord
<1>7. peers' = [peers EXCEPT ![n] = r]  BY <1>1
<1> HIDE DEF r
<1>8. /\ IsMemberSet(peers, Pods)' /\ MembersConsistent'
      /\ DOMAIN peers' = DOMAIN peers /\ peers'[n] = r
      /\ \A k \in DOMAIN peers \ {n} : peers'[k] = peers[k]
      /\ Online(peers) \subseteq Online(peers')
  BY <1>4, <1>6, <1>7, UpdateMember
<1>9. PrimariesOf(peers) \subseteq PrimariesOf(peers')
  BY <1>6, <1>8 DEF PrimariesOf
<1>10. EnvInv' /\ LivePrimaries' = LivePrimaries
  <2>1. UNCHANGED world /\ faults' \in 0..MaxFaults
    BY <1>1, EnvironmentAssumption, SMT DEF SequenceCall, Fault, EnvInv, EnvTypeOK
  <2> QED
    BY <2>1 DEF world, EnvInv, EnvTypeOK, OneLineage, LivePrimaries, AppsSettled, Alive
<1>11. LocalTypeOK'
  BY <1>2, <1>8, TrackType DEF LocalTypeOK
<1>12. VisitsOnline' /\ Joinable'
  BY <1>2, <1>8 DEF VisitsOnline, Joinable
<1>13. Covered'
  BY <1>2, <1>9, <1>10 DEF Covered
<1> QED  BY <1>8, <1>10, <1>11, <1>12, <1>13, InvPartsNext

\* The count of primaries the code compares with zero.
LEMMA PrimariesCount ==
    ASSUME LocalTypeOK
    PROVE  /\ IsFiniteSet(PrimariesOf(peers))
           /\ AppPrimaries(peers) \in Nat
           /\ AppPrimaries(peers) = 0 <=> PrimariesOf(peers) = {}
<1>1. PrimariesOf(peers) \subseteq Pods  BY DEF LocalTypeOK, IsMemberSet, PrimariesOf
<1>2. IsFiniteSet(PrimariesOf(peers))  BY <1>1, FS_Subset, EnvironmentAssumption
<1> QED  BY <1>2, FS_CardinalityType, FS_EmptySet DEF AppPrimaries

\* After the sequence numbers: seeds are needed only if no primary is known,
\* and then none is live.
LEMMA DetectDoneInv ==
    ASSUME OneLineageInv, DetectDone, Track
    PROVE  OneLineageInv'
<1> USE InvParts
<1>1. /\ pc = "detect" /\ todo = {} /\ UNCHANGED <<env, peers, local>>
      /\ pc' = IF AppPrimaries(peers) = 0 THEN "choose" ELSE "primaries"
  BY DEF DetectDone
<1>2. /\ EnvInv' /\ LivePrimaries' = LivePrimaries
      /\ IsMemberSet(peers, Pods)' /\ MembersConsistent'
  BY <1>1, SameRecords
<1>3. pc' \in {"choose", "primaries"}  BY <1>1
<1>4. LocalTypeOK'
  BY <1>1, <1>2, <1>3, TrackType DEF LocalTypeOK, PCs, local
<1>5. VisitsOnline' /\ Covered'
  BY <1>1, <1>3 DEF VisitsOnline, Covered, local
<1>6. LivePrimaries \subseteq PrimariesOf(peers)
  BY <1>1 DEF Covered
<1>7. Joinable'
  BY <1>1, <1>2, <1>6, PrimariesCount DEF Joinable
<1> QED  BY <1>2, <1>4, <1>5, <1>7, InvPartsNext

\* What chooseMember returns is online, not failed and not a primary.
LEMMA ChosenIsCandidate ==
    ASSUME NEW ms
    PROVE  chooseMember(ms) \subseteq Candidates(ms)
BY DEF chooseMember

\* Choosing seeds keeps the invariant.
LEMMA ChooseSeedsInv ==
    ASSUME OneLineageInv, ChooseSeeds, Track
    PROVE  OneLineageInv'
<1> USE InvParts
<1>1. pc = "choose" /\ UNCHANGED env  BY DEF ChooseSeeds
<1>2. CASE GiveUp  BY <1>1, <1>2, GiveUpInv
<1>3. CASE \E s \in chooseSeeds(peers) :
              pc' = "seed" /\ seeds' = s /\ UNCHANGED <<peers, running, todo, errs, again>>
  <2>1. /\ EnvInv' /\ LivePrimaries' = LivePrimaries
        /\ IsMemberSet(peers, Pods)' /\ MembersConsistent'
    BY <1>1, <1>3, SameRecords
  <2>2. seeds' \in Seq(Candidates(peers))  BY <1>3, SeedsNewest, EnvironmentAssumption DEF LocalTypeOK
  <2>3. Candidates(peers) \subseteq Online(peers) /\ Candidates(peers) \subseteq Pods
    BY DEF Candidates, Online, LocalTypeOK, IsMemberSet
  <2>4. seeds' \in Seq(Online(peers)) /\ seeds' \in Seq(Pods)
    BY <2>2, <2>3, SeqMonotonic
  <2>5. LocalTypeOK'
    BY <1>3, <2>1, <2>4, TrackType DEF LocalTypeOK, PCs
  <2>6. VisitsOnline' /\ Covered' /\ Joinable'
    BY <1>1, <1>3, <2>1, <2>4 DEF VisitsOnline, Covered, Joinable
  <2> QED  BY <2>1, <2>5, <2>6, InvPartsNext
<1> QED  BY <1>2, <1>3 DEF ChooseSeeds

\* The record of a member after a start command.
LEMMA StartedRecord ==
    ASSUME NEW m \in Member, Consistent(m), m.Online, NEW asPrimary \in BOOLEAN
    PROVE  /\ Started(m, asPrimary) \in Member /\ Consistent(Started(m, asPrimary))
           /\ Started(m, asPrimary).Online /\ Started(m, asPrimary).AppRunning
           /\ Started(m, asPrimary).AppPrimary <=> asPrimary
           /\ Failing(m) \in Member /\ Consistent(Failing(m))
           /\ Failing(m).Online /\ (Failing(m).AppPrimary <=> m.AppPrimary)
<1> DEFINE r == Started(m, asPrimary)
<1>1. r \in Member  BY DEF Member, Started
<1>2. r.Online = m.Online /\ r.AppPrimary = asPrimary /\ r.AppRunning /\ r.SEQ = m.SEQ
  BY DEF Member, Started
<1>3. Consistent(r)  BY <1>2 DEF Consistent
<1>4. Failing(m).Online = m.Online /\ Failing(m).AppPrimary = m.AppPrimary
  BY DEF Failing, Member
<1>5. Failing(m) \in Member /\ Consistent(Failing(m))
  BY MemberTypes, ConsistentUpdates
<1> QED  BY <1>1, <1>2, <1>3, <1>4, <1>5

\* startAppMember on an online member that is not a primary: no primary is
\* forgotten, and one more is known exactly when a primary was started.
LEMMA StartMember ==
    ASSUME ReliableCalls, OneLineageInv, NEW n \in Online(peers), ~peers[n].AppPrimary,
           NEW asPrimary \in BOOLEAN, NEW ok \in BOOLEAN, startAppMember(n, asPrimary, ok),
           \/ LivePrimaries = {}
           \/ appendPrimaries(peers) # {}
           \/ startCommand(asPrimary, AppPrimaries(peers)) = "secondary"
    PROVE  /\ EnvInv' /\ (~ok => LivePrimaries' \subseteq LivePrimaries)
           /\ IsMemberSet(peers, Pods)' /\ MembersConsistent'
           /\ Online(peers) \subseteq Online(peers')
           /\ PrimariesOf(peers) \subseteq PrimariesOf(peers')
           /\ ok /\ asPrimary => n \in PrimariesOf(peers')
           /\ ~ok => PrimariesOf(peers') \subseteq PrimariesOf(peers)
<1> USE InvParts
<1> DEFINE m == peers[n]
           x == IF ok THEN Started(m, asPrimary) ELSE Failing(m)
<1>1. /\ n \in DOMAIN peers /\ n \in Pods
      /\ m \in Member /\ Consistent(m) /\ m.Online
  BY OnlineRecord
<1>2. label' \in [Pods -> BOOLEAN]
  BY <1>1, TagType DEF startAppMember, EnvInv, EnvTypeOK
<1>3. EnvInv' /\ (~ok => LivePrimaries' \subseteq LivePrimaries)
  BY <1>1, <1>2, StartCallEnv DEF startAppMember
<1>4. peers' = [peers EXCEPT ![n] = x]
  BY DEF startAppMember
<1>5. /\ x \in Member /\ Consistent(x) /\ x.Online
      /\ ok => (x.AppPrimary <=> asPrimary) /\ x.AppRunning
      /\ ~ok => (x.AppPrimary <=> m.AppPrimary)
  BY <1>1, StartedRecord
<1> HIDE DEF x
<1>7. /\ IsMemberSet(peers, Pods)' /\ MembersConsistent'
      /\ DOMAIN peers' = DOMAIN peers /\ peers'[n] = x
      /\ \A k \in DOMAIN peers \ {n} : peers'[k] = peers[k]
      /\ Online(peers) \subseteq Online(peers')
  BY <1>1, <1>4, <1>5, UpdateMember
<1>8. /\ PrimariesOf(peers) \subseteq PrimariesOf(peers')
      /\ ok /\ asPrimary => n \in PrimariesOf(peers')
      /\ ~ok => PrimariesOf(peers') \subseteq PrimariesOf(peers)
  BY <1>1, <1>5, <1>7 DEF PrimariesOf
<1> QED  BY <1>3, <1>7, <1>8

\* With no primary in the records no host name is handed to the command.
LEMMA KnownPrimaries ==
    ASSUME OneLineageInv
    PROVE  appendPrimaries(peers) = PrimariesOf(peers)
BY InvParts DEF appendPrimaries, PrimariesOf, MembersConsistent, Consistent

\* Starting a seed keeps the invariant: no primary is live, so the lineage it
\* founds is the only one.
LEMMA SeedMemberInv ==
    ASSUME ReliableCalls, OneLineageInv, SeedMember, Track
    PROVE  OneLineageInv'
<1> USE InvParts
<1> DEFINE n == Head(seeds)
<1>1. PICK ok \in BOOLEAN : startAppMember(n, TRUE, ok)
  BY DEF SeedMember
<1>2. /\ pc = "seed" /\ seeds # <<>> /\ running' = running /\ todo' = todo
      /\ errs' = errs /\ again' = again
  BY DEF SeedMember
<1>3. LivePrimaries = {} /\ PrimariesOf(peers) = {} /\ seeds \in Seq(Online(peers))
  BY <1>2 DEF Joinable, VisitsOnline
<1>4. n \in Online(peers) /\ Tail(seeds) \in Seq(Online(peers))
  BY <1>2, <1>3, HeadTailProperties
<1>5. ~peers[n].AppPrimary
  BY <1>3, <1>4, OnlineRecord DEF PrimariesOf, Consistent
<1>6. /\ EnvInv' /\ (~ok => LivePrimaries' \subseteq LivePrimaries)
      /\ IsMemberSet(peers, Pods)' /\ MembersConsistent'
      /\ Online(peers) \subseteq Online(peers')
      /\ ok => n \in PrimariesOf(peers')
      /\ ~ok => PrimariesOf(peers') \subseteq PrimariesOf(peers)
  <2> HIDE DEF n
  <2> QED  BY <1>1, <1>3, <1>4, <1>5, StartMember
<1>7. AppPrimaries(peers') = 0 <=> PrimariesOf(peers') = {}
  <2>1. PrimariesOf(peers') \subseteq Pods  BY <1>6 DEF IsMemberSet, PrimariesOf
  <2>2. IsFiniteSet(PrimariesOf(peers'))  BY <2>1, FS_Subset, EnvironmentAssumption
  <2> QED  BY <2>2, FS_EmptySet DEF AppPrimaries
<1>8. CASE AppPrimaries(peers') # 0
  <2>1. pc' = "primaries" /\ seeds' = <<>>  BY <1>8 DEF SeedMember
  <2>2. LocalTypeOK'  BY <1>2, <1>6, <2>1, TrackType, SMT DEF LocalTypeOK, PCs
  <2>3. VisitsOnline' /\ Covered' /\ Joinable'
    BY <1>2, <1>6, <1>7, <1>8, <2>1 DEF VisitsOnline, Covered, Joinable
  <2> QED  BY <1>6, <2>2, <2>3, InvPartsNext
<1>9. CASE AppPrimaries(peers') = 0
  <2>1. pc' = "seed" /\ seeds' = Tail(seeds)  BY <1>2, <1>9 DEF SeedMember
  <2>2. ~ok  BY <1>6, <1>7, <1>9
  <2>3. seeds' \in Seq(Pods) /\ seeds' \in Seq(Online(peers'))
    <3>1. Online(peers) \subseteq Pods  BY OnlineRecord
    <3> QED  BY <1>4, <1>6, <2>1, <3>1, SeqMonotonic
  <2>4. LocalTypeOK'  BY <1>2, <1>6, <2>1, <2>3, TrackType DEF LocalTypeOK, PCs
  <2>5. VisitsOnline' /\ Covered' /\ Joinable'
    BY <1>2, <1>3, <1>6, <2>1, <2>2, <2>3 DEF VisitsOnline, Covered, Joinable
  <2> QED  BY <1>6, <2>4, <2>5, InvPartsNext
<1> QED  BY <1>8, <1>9

\* Starting one more member in a stage that knows a primary to join, or whose
\* command starts secondaries.
LEMMA StartInStage ==
    ASSUME ReliableCalls, OneLineageInv, pc \in {"primaries", "secondaries"},
           NEW n \in chooseMember(peers), NEW asPrimary \in BOOLEAN, NEW ok \in BOOLEAN,
           startAppMember(n, asPrimary, ok), errs' = (errs \/ ~ok),
           PrimariesOf(peers) # {} \/ (~asPrimary /\ HasSecondary),
           UNCHANGED <<pc, running, todo, seeds, again>>, Track
    PROVE  OneLineageInv'
<1> USE InvParts
<1>1. n \in Online(peers) /\ ~peers[n].AppPrimary
  BY ChosenIsCandidate DEF Candidates, Online
<1>2. \/ appendPrimaries(peers) # {}
      \/ startCommand(asPrimary, AppPrimaries(peers)) = "secondary"
  BY KnownPrimaries DEF startCommand
<1>3. /\ EnvInv' /\ IsMemberSet(peers, Pods)' /\ MembersConsistent'
      /\ Online(peers) \subseteq Online(peers')
      /\ PrimariesOf(peers) \subseteq PrimariesOf(peers')
  BY <1>1, <1>2, StartMember
<1>4. errs' \in BOOLEAN  BY DEF LocalTypeOK
<1>5. LocalTypeOK'
  BY <1>3, <1>4, TrackType DEF LocalTypeOK
<1>6. VisitsOnline' /\ Covered' /\ Joinable'
  BY <1>3 DEF VisitsOnline, Covered, Joinable
<1> QED  BY <1>3, <1>5, <1>6, InvPartsNext

\* Starting a further primary keeps the invariant.
LEMMA StartPrimaryInv ==
    ASSUME ReliableCalls, OneLineageInv, StartPrimary, Track
    PROVE  OneLineageInv'
<1>1. pc = "primaries" /\ UNCHANGED <<pc, running, todo, seeds, again>>
  BY DEF StartPrimary
<1>2. PrimariesOf(peers) # {}  BY <1>1, InvParts DEF Joinable
<1> QED  BY <1>1, <1>2, StartInStage DEF StartPrimary

\* Starting a secondary keeps the invariant.
LEMMA StartSecondaryInv ==
    ASSUME ReliableCalls, OneLineageInv, StartSecondary, Track
    PROVE  OneLineageInv'
<1>1. pc = "secondaries" /\ UNCHANGED <<pc, running, todo, seeds, again>>
  BY DEF StartSecondary
<1>2. PrimariesOf(peers) # {} \/ HasSecondary
  BY <1>1, InvParts DEF Joinable, ReliableCalls
<1> QED  BY <1>1, <1>2, StartInStage DEF StartSecondary

\* The record of a member after a stop command.
LEMMA StoppedRecord ==
    ASSUME NEW m \in Member, Consistent(m), m.Online
    PROVE  /\ Stopped(m) \in Member /\ Consistent(Stopped(m)) /\ Stopped(m).Online
           /\ Failing(m) \in Member /\ Consistent(Failing(m)) /\ Failing(m).Online
<1>1. Stopped(m).Online = m.Online /\ Failing(m).Online = m.Online
  BY DEF Stopped, Failing, Member
<1> QED  BY <1>1, MemberTypes, ConsistentUpdates

\* Stopping one of more than enough primaries leaves one.
LEMMA DemotePrimaryInv ==
    ASSUME ReliableCalls, OneLineageInv, DemotePrimary, Track
    PROVE  OneLineageInv'
<1> USE InvParts
<1>1. PICK n \in chooseCurrentPrimary(peers), ok \in BOOLEAN :
         stopAppMember(n, ok) /\ errs' = (errs \/ ~ok)
  BY DEF DemotePrimary
<1>2. /\ pc = "demote" /\ AppPrimaries(peers) > Primaries
      /\ UNCHANGED <<pod, pc, running, todo, seeds, again>>
  BY DEF DemotePrimary
<1>3. n \in DOMAIN peers /\ peers[n].AppPrimary
  BY <1>1 DEF chooseCurrentPrimary
<1>4. n \in Online(peers)
  BY <1>3 DEF MembersConsistent, Consistent, Online
<1>5. n \in Pods /\ peers[n] \in Member /\ Consistent(peers[n]) /\ peers[n].Online
  BY <1>4, OnlineRecord
<1> DEFINE x == IF ok THEN Stopped(peers[n]) ELSE Failing(peers[n])
<1>6. x \in Member /\ Consistent(x) /\ x.Online
  BY <1>5, StoppedRecord
<1>7. peers' = [peers EXCEPT ![n] = x]
  BY <1>1 DEF stopAppMember
<1> HIDE DEF x
<1>8. /\ IsMemberSet(peers, Pods)' /\ MembersConsistent'
      /\ DOMAIN peers' = DOMAIN peers
      /\ \A k \in DOMAIN peers \ {n} : peers'[k] = peers[k]
      /\ Online(peers) \subseteq Online(peers')
  BY <1>3, <1>6, <1>7, UpdateMember
<1>9. EnvInv'
  <2>1. label' \in [Pods -> BOOLEAN]
    BY <1>1, <1>5, TagType DEF stopAppMember, EnvInv
  <2>2. pod' \in [Pods -> PodStates] /\ \A p \in Pods : Alive(p) => Alive(p)'
    BY <1>2 DEF EnvInv, EnvTypeOK, Alive
  <2> QED  BY <1>1, <1>5, <2>1, <2>2, StopCallEnv DEF stopAppMember
<1>10. errs' \in BOOLEAN  BY <1>1 DEF LocalTypeOK
<1>11. LocalTypeOK'
  BY <1>2, <1>8, <1>10, TrackType DEF LocalTypeOK
<1>12. Primaries > 0 => PrimariesOf(peers') # {}
  <2> SUFFICES ASSUME Primaries > 0 PROVE PrimariesOf(peers') # {}
    OBVIOUS
  <2> DEFINE S == PrimariesOf(peers)
  <2>1. IsFiniteSet(S) /\ Cardinality(S) \in Nat /\ Cardinality(S) > 1
    BY <1>2, PrimariesCount, EnvironmentAssumption, SMT DEF AppPrimaries
  <2> HIDE DEF S
  <2>2. IsFiniteSet(S \ {n})
        /\ (Cardinality(S \ {n}) = Cardinality(S) - 1 \/ Cardinality(S \ {n}) = Cardinality(S))
    <3>1. CASE n \in S  BY <2>1, <3>1, FS_RemoveElement
    <3>2. CASE n \notin S
      <4>1. S \ {n} = S  BY <3>2
      <4> QED  BY <2>1, <4>1
    <3> QED  BY <3>1, <3>2
  <2>3. S \ {n} # {}  BY <2>1, <2>2, FS_EmptySet, SMT
  <2> QED  BY <1>8, <2>3 DEF S, PrimariesOf
<1>13. VisitsOnline' /\ Covered' /\ Joinable'
  BY <1>2, <1>8, <1>12 DEF VisitsOnline, Covered, Joinable
<1> QED  BY <1>8, <1>9, <1>11, <1>13, InvPartsNext

\* One stage ends; the next begins, or replicate() does.
LEMMA LeaveStageInv ==
    ASSUME OneLineageInv, pc \in {"primaries", "demote", "secondaries"},
           NEW done \in BOOLEAN, NEW next \in {"demote", "secondaries", "finish"},
           LeaveStage(done, next), Track,
           next # "finish" /\ Primaries > 0 => PrimariesOf(peers) # {}
    PROVE  OneLineageInv'
<1> USE InvParts
<1>1. UNCHANGED <<env, peers>>  BY DEF LeaveStage
<1>2. EnvInv' /\ IsMemberSet(peers, Pods)' /\ MembersConsistent'
  BY <1>1, SameRecords
<1>3. CASE Idle  BY <1>2, <1>3, IdleInv
<1>4. CASE Visit("cleanup", Recoverable(peers)) /\ errs' = (errs \/ ~done)
           /\ UNCHANGED <<running, seeds, again>>
  <2>1. pc' = "cleanup" /\ todo' = Recoverable(peers)  BY <1>4 DEF Visit
  <2>2. Recoverable(peers) \subseteq Online(peers) /\ Recoverable(peers) \subseteq Pods
    BY DEF Recoverable, Failed, Online, MembersConsistent, Consistent, LocalTypeOK, IsMemberSet
  <2>3. errs' \in BOOLEAN  BY <1>4 DEF LocalTypeOK
  <2>4. LocalTypeOK'
    BY <1>2, <1>4, <2>1, <2>2, <2>3, TrackType DEF LocalTypeOK, PCs
  <2>5. VisitsOnline' /\ Covered' /\ Joinable'
    BY <1>1, <2>1, <2>2 DEF VisitsOnline, Covered, Joinable
  <2> QED  BY <1>2, <2>4, <2>5, InvPartsNext
<1>5. CASE next # "finish" /\ Visit(next, {}) /\ UNCHANGED <<running, seeds, errs, again>>
  <2>1. pc' = next /\ todo' = {}  BY <1>5 DEF Visit
  <2>2. LocalTypeOK'
    BY <1>2, <1>5, <2>1, TrackType DEF LocalTypeOK, PCs
  <2>3. VisitsOnline' /\ Covered' /\ Joinable'
    BY <1>1, <1>5, <2>1 DEF VisitsOnline, Covered, Joinable
  <2> QED  BY <1>2, <2>2, <2>3, InvPartsNext
<1> QED  BY <1>3, <1>4, <1>5 DEF LeaveStage, Finish

\* Leaving each of the three stages keeps the invariant.
LEMMA StagesDoneInv ==
    ASSUME OneLineageInv, PrimariesDone \/ DemoteDone \/ SecondariesDone, Track
    PROVE  OneLineageInv'
<1> USE InvParts
<1>1. CASE PrimariesDone
  <2>1. PICK done \in BOOLEAN : done <=> AppPrimaries(peers) >= Primaries
    OBVIOUS
  <2>2. LeaveStage(done, "demote")
    BY <1>1, <2>1 DEF PrimariesDone, LeaveStage, Finish
  <2> QED  BY <1>1, <2>2, LeaveStageInv DEF PrimariesDone, Joinable
<1>2. CASE DemoteDone
  <2>1. PICK done \in BOOLEAN : done <=> AppPrimaries(peers) <= Primaries
    OBVIOUS
  <2>2. LeaveStage(done, "secondaries")
    BY <1>2, <2>1 DEF DemoteDone, LeaveStage, Finish
  <2> QED  BY <1>2, <2>2, LeaveStageInv DEF DemoteDone, Joinable
<1>3. CASE SecondariesDone
  <2>1. PICK done \in BOOLEAN : done <=> AppMembers(peers) >= Replicas
    OBVIOUS
  <2>2. LeaveStage(done, "finish")
    BY <1>3, <2>1 DEF SecondariesDone, LeaveStage, Finish
  <2> QED  BY <1>3, <2>2, LeaveStageInv DEF SecondariesDone, Joinable
<1> QED  BY <1>1, <1>2, <1>3

\* The end of the clean-up keeps the invariant.
LEMMA CleanupDoneInv ==
    ASSUME OneLineageInv, CleanupDone, Track
    PROVE  OneLineageInv'
<1>1. CASE GiveUp  BY <1>1, GiveUpInv DEF CleanupDone
<1>2. CASE Idle /\ UNCHANGED peers  BY <1>2, SameRecords, IdleInv DEF CleanupDone
<1> QED  BY <1>1, <1>2 DEF CleanupDone

\* A new operator, which knows nothing, satisfies the invariant.
LEMMA OperatorRestartsInv ==
    ASSUME OneLineageInv, OperatorRestarts, Track
    PROVE  OneLineageInv'
<1>1. faults' \in 0..MaxFaults /\ UNCHANGED world
  BY InvParts, EnvironmentAssumption, SMT DEF OperatorRestarts, Fault, EnvInv, EnvTypeOK
<1>2. EnvInv'
  BY <1>1, InvParts DEF world, EnvInv, EnvTypeOK, OneLineage, LivePrimaries, AppsSettled, Alive
<1>3. IsMemberSet(peers, Pods)' /\ MembersConsistent'
  BY DEF OperatorRestarts, NoMembers, IsMemberSet, MembersConsistent
<1> QED  BY <1>2, <1>3, IdleInv DEF OperatorRestarts

\* Whatever the outside world does between two steps keeps the invariant.
LEMMA OutsideInv ==
    ASSUME OneLineageInv, Outside(EnvStep)
    PROVE  OneLineageInv'
<1> USE InvParts
<1>1. EnvInv' /\ LivePrimaries' \subseteq LivePrimaries
  BY EnvStepEnv DEF Outside
<1>2. UNCHANGED <<pc, peers, running, todo, seeds, errs, again>> /\ Track
  BY DEF Outside, local
<1>3. LocalTypeOK'  BY <1>2, TrackType DEF LocalTypeOK
<1>4. MembersConsistent' /\ VisitsOnline' /\ Covered' /\ Joinable'
  BY <1>1, <1>2 DEF MembersConsistent, VisitsOnline, Covered, Joinable
<1> QED  BY <1>1, <1>3, <1>4, InvPartsNext

\* The state in which an operator finds the cluster.
LEMMA InitInv == Init => OneLineageInv
<1> SUFFICES ASSUME Init PROVE OneLineageInv
  OBVIOUS
<1>1. /\ pc = "idle" /\ peers = NoMembers /\ running = {} /\ todo = {} /\ seeds = <<>>
      /\ errs = FALSE /\ again = FALSE /\ steady \subseteq Pods
  BY DEF Init
<1>2. /\ pod = [p \in Pods |-> IF p < Replicas THEN "Running" ELSE "Terminating"]
      /\ app \in [Pods -> {"stopped", "primary"}]
      /\ lineage = [p \in Pods |-> IF app[p] = "primary" THEN 1 ELSE 0]
      /\ label = [p \in Pods |-> app[p] = "primary"]
      /\ data \in [Pods -> 0..MaxSeq] /\ committed \in {data[p] : p \in Pods}
      /\ faults = 0
  BY DEF Init, EnvInit
<1>3. pod \in [Pods -> PodStates] /\ \A p \in Pods : Alive(p)
  BY <1>2 DEF PodStates, Alive
<1>4. app \in [Pods -> AppStates] /\ lineage \in [Pods -> Nat]
  BY <1>2 DEF AppStates
<1>5. label \in [Pods -> BOOLEAN]
  BY <1>2
<1>6. data \in [Pods -> Nat] /\ committed \in Nat /\ faults \in 0..MaxFaults
  BY <1>2, EnvironmentAssumption, SMT
<1>7. EnvTypeOK  BY <1>3, <1>4, <1>5, <1>6 DEF EnvTypeOK
<1>8. OneLineage /\ AppsSettled
  BY <1>2, <1>3 DEF OneLineage, LivePrimaries, AppsSettled
<1>9. IsMemberSet(peers, Pods) /\ MembersConsistent
  BY <1>1 DEF NoMembers, IsMemberSet, MembersConsistent
<1>10. errs \in BOOLEAN /\ again \in BOOLEAN  BY <1>1
<1>11. TypeOK  BY <1>1, <1>7, <1>9, <1>10, SMT DEF TypeOK, PCs
<1>12. VisitsOnline /\ Covered /\ Joinable
  BY <1>1 DEF VisitsOnline, Covered, Joinable
<1> QED  BY <1>8, <1>9, <1>11, <1>12 DEF OneLineageInv

\* Every step preserves the invariant: the operator's, the outside world's and
\* the restart of the operator.
LEMMA NextInv ==
    ASSUME ReliableCalls
    PROVE  OneLineageInv /\ [Next]_vars => OneLineageInv'
<1> SUFFICES ASSUME OneLineageInv, [Next]_vars PROVE OneLineageInv'
  OBVIOUS
<1>1. CASE OperatorStep
  <2> USE <1>1
  <2>0. Track  BY DEF OperatorStep
  <2>1. CASE PollPods  BY <2>0, <2>1, PollPodsInv
  <2>2. CASE CheckDone  BY <2>0, <2>2, CheckDoneInv
  <2>3. CASE ReconcileDone  BY <2>0, <2>3, ReconcileDoneInv
  <2>4. CASE Replicate  BY <2>0, <2>4, ReplicateInv
  <2>5. CASE DetectDone  BY <2>0, <2>5, DetectDoneInv
  <2>6. CASE ChooseSeeds  BY <2>0, <2>6, ChooseSeedsInv
  <2>7. CASE SeedMember  BY <2>0, <2>7, SeedMemberInv
  <2>8. CASE SeedsExhausted  BY <2>0, <2>8, GiveUpInv DEF SeedsExhausted
  <2>9. CASE StartPrimary  BY <2>0, <2>9, StartPrimaryInv
  <2>10. CASE PrimariesDone \/ DemoteDone \/ SecondariesDone
    BY <2>0, <2>10, StagesDoneInv
  <2>11. CASE DemotePrimary  BY <2>0, <2>11, DemotePrimaryInv
  <2>12. CASE StartSecondary  BY <2>0, <2>12, StartSecondaryInv
  <2>13. CASE CleanupDone  BY <2>0, <2>13, CleanupDoneInv
  <2>14. ASSUME NEW n \in Pods, CheckMember(n) PROVE OneLineageInv'
    BY <2>0, <2>14, CheckMemberInv
  <2>15. ASSUME NEW n \in Pods, RecoverMember(n) PROVE OneLineageInv'
    BY <2>0, <2>15, RecoverMemberInv
  <2>16. ASSUME NEW n \in Pods, DetectMember(n) PROVE OneLineageInv'
    BY <2>0, <2>16, DetectMemberInv
  <2> QED
    BY <2>1, <2>2, <2>3, <2>4, <2>5, <2>6, <2>7, <2>8, <2>9, <2>10, <2>11, <2>12,
       <2>13, <2>14, <2>15, <2>16 DEF OperatorStep
<1>2. CASE Outside(EnvStep)  BY <1>2, OutsideInv
<1>3. CASE OperatorRestarts /\ Track  BY <1>3, OperatorRestartsInv
<1>4. CASE UNCHANGED vars
  <2>1. UNCHANGED <<env, pc, peers, running, todo, seeds, errs, again, steady>>
    BY <1>4 DEF vars, local
  <2>2. EnvInv' /\ IsMemberSet(peers, Pods)' /\ MembersConsistent'
    BY <2>1, SameRecords
  <2>3. LivePrimaries' = LivePrimaries
    BY <2>1 DEF env, world, LivePrimaries
  <2>4. LocalTypeOK' /\ VisitsOnline' /\ Covered' /\ Joinable'
    BY <2>1, <2>3, InvParts DEF LocalTypeOK, VisitsOnline, Covered, Joinable
  <2> QED  BY <2>2, <2>4, InvPartsNext
<1> QED  BY <1>1, <1>2, <1>3, <1>4 DEF Next

\* What a round knows at each of its places, while calls are reliable: every live
\* primary is among those it has recorded or has still to visit, and where it
\* chooses and starts seeds none is live (reconcile(), replicate()).
THEOREM OneLineageInvAlways ==
    ASSUME ReliableCalls
    PROVE  Spec => []OneLineageInv
BY InitInv, NextInv, PTL DEF Spec

\* For any number of Pods, replicas, primaries, faults and writes: while calls
\* are reliable in the sense of ReliableCalls, the operator never brings up a
\* second lineage beside a live one, in whatever state it finds the cluster and
\* however Pod deaths, application failures, failing commands and restarts of
\* the operator fall between its steps.
THEOREM OneLineageAlways ==
    ASSUME ReliableCalls
    PROVE  Spec => []OneLineage
<1>1. OneLineageInv => OneLineage  BY DEF OneLineageInv
<1> QED  BY OneLineageInvAlways, <1>1, PTL

----------------------------------------------------------------------------
(***************************************************************************)
(* What the records say whatever calls fail.                               *)
(***************************************************************************)

\* A start command keeps the types of the outside world, whatever it does.
LEMMA StartCallTypes ==
    ASSUME EnvTypeOK, NEW n \in Pods, NEW command, NEW known, NEW ok \in BOOLEAN,
           StartCall(n, command, known, ok), label' \in [Pods -> BOOLEAN]
    PROVE  EnvTypeOK'
<1>1. /\ pod' = pod /\ committed' = committed
      /\ faults' \in 0..MaxFaults
  BY EnvironmentAssumption, SMT DEF StartCall, Fault, EnvTypeOK
<1>2. ASSUME NEW s \in AppStates, AppBecomes(n, s, NewLineage(n)), data' = data
      PROVE  EnvTypeOK'
  <2>1. app' \in [Pods -> AppStates] /\ lineage' \in [Pods -> Nat]
    BY <1>2, NewLineageNat, AppBecomesType
  <2> QED  BY <1>1, <1>2, <2>1 DEF EnvTypeOK
<1>3. ASSUME NEW s \in AppStates, NEW q \in Pods, AppBecomes(n, s, lineage[q]),
             data' = [data EXCEPT ![n] = data[q]]
      PROVE  EnvTypeOK'
  <2>1. lineage[q] \in Nat  BY DEF EnvTypeOK
  <2>2. app' \in [Pods -> AppStates] /\ lineage' \in [Pods -> Nat]
    BY <1>3, <2>1, AppBecomesType
  <2> QED  BY <1>1, <1>3, <2>2 DEF EnvTypeOK
<1>4. CASE UNCHANGED <<app, lineage, data>>  BY <1>1, <1>4 DEF EnvTypeOK
<1>5. FailedStartLeaves \subseteq AppStates  BY EnvironmentAssumption
<1> QED
  BY <1>2, <1>3, <1>4, <1>5 DEF StartCall, AppStates, LivePrimaries

\* So does a stop command.
LEMMA StopCallTypes ==
    ASSUME EnvTypeOK, NEW n \in Pods, NEW ok \in BOOLEAN, StopCall(n, ok),
           label' \in [Pods -> BOOLEAN], pod' \in [Pods -> PodStates]
    PROVE  EnvTypeOK'
<1>1. faults' \in 0..MaxFaults /\ data' = data /\ committed' = committed
  BY EnvironmentAssumption, SMT DEF StopCall, Fault, EnvTypeOK
<1>2. ASSUME NEW s \in AppStates, NEW g \in Nat, AppBecomes(n, s, g)
      PROVE  EnvTypeOK'
  <2>1. app' \in [Pods -> AppStates] /\ lineage' \in [Pods -> Nat]
    BY <1>2, AppBecomesType
  <2> QED  BY <1>1, <2>1 DEF EnvTypeOK
<1>3. CASE UNCHANGED <<app, lineage>>  BY <1>1, <1>3 DEF EnvTypeOK
<1>4. app[n] \in AppStates /\ lineage[n] \in Nat  BY DEF EnvTypeOK
<1> QED  BY <1>2, <1>3, <1>4 DEF StopCall, AppStates

\* So does the outside world, start commands that finish late included.
LEMMA EnvStepTypes ==
    ASSUME EnvTypeOK, EnvStep
    PROVE  EnvTypeOK'
<1>1. ASSUME NEW p \in Pods, PodGone(p) \/ PodDies(p)
      PROVE  EnvTypeOK'
  <2>1. app' \in [Pods -> AppStates] /\ lineage' \in [Pods -> Nat]
    BY <1>1, AppBecomesType DEF PodGone, PodDies, Vanish, AppStates
  <2>2. faults' \in 0..MaxFaults
    BY <1>1, EnvironmentAssumption, SMT DEF PodGone, PodDies, Fault, EnvTypeOK
  <2> QED  BY <1>1, <2>1, <2>2 DEF PodGone, PodDies, Vanish, EnvTypeOK, PodStates
<1>2. ASSUME NEW p \in Pods, PodCreated(p) \/ PodRuns(p)
      PROVE  EnvTypeOK'
  BY <1>2 DEF PodCreated, PodRuns, EnvTypeOK, PodStates
<1>3. ASSUME NEW p \in Pods, StartFinishes(p)
      PROVE  EnvTypeOK'
  <2>1. app' \in [Pods -> AppStates] /\ lineage' \in [Pods -> Nat]
    BY <1>3, NewLineageNat, AppBecomesType DEF StartFinishes, AppStates
  <2> QED  BY <1>3, <2>1 DEF StartFinishes, EnvTypeOK
<1>4. ASSUME NEW p \in Pods, AppStops(p) \/ AppBreaks(p) \/ AppDemoted(p)
      PROVE  EnvTypeOK'
  <2>1. app' \in [Pods -> AppStates] /\ lineage' \in [Pods -> Nat]
    BY <1>4, AppBecomesType DEF AppStops, AppBreaks, AppDemoted, AppStates
  <2> QED
    BY <1>4, <2>1, EnvironmentAssumption, SMT DEF AppStops, AppBreaks, AppDemoted, Fault, EnvTypeOK
<1>5. ASSUME NEW p \in Pods, Write(p)
      PROVE  EnvTypeOK'
  BY <1>5, SMT DEF Write, EnvTypeOK
<1> QED  BY <1>1, <1>2, <1>3, <1>4, <1>5 DEF EnvStep, KubernetesStep, FaultStep

\* The invariant names its conjuncts, in this state and in the next.
LEMMA RecordsParts ==
    /\ RecordsInv <=> EnvTypeOK /\ LocalTypeOK /\ MembersConsistent /\ VisitsOnline
    /\ RecordsInv' <=> EnvTypeOK' /\ LocalTypeOK' /\ MembersConsistent' /\ VisitsOnline'
BY DEF RecordsInv, TypeOK, LocalTypeOK

\* A call that leads to a new record of one online member, which the loop over
\* the members then leaves behind if it is offline.
LEMMA RecordChanges ==
    ASSUME RecordsInv, EnvTypeOK', NEW n \in Online(peers),
           NEW m \in Member, Consistent(m), peers' = [peers EXCEPT ![n] = m],
           pc' = pc, pc # "seed", todo' \subseteq todo, m.Online \/ n \notin todo',
           UNCHANGED <<running, seeds, again>>, errs' \in BOOLEAN, Track
    PROVE  RecordsInv'
<1> USE RecordsParts
<1>1. n \in DOMAIN peers  BY DEF Online
<1>2. /\ IsMemberSet(peers, Pods)' /\ MembersConsistent'
      /\ m.Online => Online(peers) \subseteq Online(peers')
      /\ Online(peers) \ {n} \subseteq Online(peers')
  BY <1>1, UpdateMember
<1>3. LocalTypeOK'  BY <1>2, TrackType DEF LocalTypeOK
<1>4. VisitsOnline'  BY <1>2 DEF VisitsOnline
<1> QED  BY <1>2, <1>3, <1>4

\* reconcile() begins with consistent records of exactly the Pods it is given.
LEMMA StartReconcileRecords ==
    ASSUME RecordsInv, NEW names \in SUBSET Pods, NEW retry \in BOOLEAN,
           StartReconcile(names, retry), UNCHANGED env, Track
    PROVE  RecordsInv'
<1> USE RecordsParts
<1>1. EnvTypeOK'  BY DEF env, world, EnvTypeOK
<1>2. /\ IsMemberSet(peers, Pods)' /\ MembersConsistent' /\ Online(peers') = names
  BY ReconcileOnline DEF StartReconcile, LocalTypeOK, MembersConsistent
<1>3. /\ pc' = "check" /\ todo' = Online(peers') \ Failed(peers')
      /\ running' = names /\ errs' \in BOOLEAN /\ again' = retry /\ seeds' = <<>>
  BY DEF StartReconcile, Visit
<1>4. LocalTypeOK'  BY <1>2, <1>3, TrackType, SMT DEF LocalTypeOK, PCs
<1>5. VisitsOnline'  BY <1>3 DEF VisitsOnline
<1> QED  BY <1>1, <1>2, <1>4, <1>5

\* A place to go to with the records as they are.
LEMMA VisitRecords ==
    ASSUME RecordsInv, UNCHANGED peers, EnvTypeOK', Track,
           pc' \in PCs, pc' # "seed", todo' \subseteq Online(peers), pc' = "idle" => todo' = {},
           running' \subseteq Pods, seeds' \in Seq(Pods), errs' \in BOOLEAN, again' \in BOOLEAN
    PROVE  RecordsInv'
<1> USE RecordsParts
<1>1. Online(peers) \subseteq Pods  BY OnlineRecord
<1>2. LocalTypeOK' /\ MembersConsistent'
  BY <1>1, TrackType DEF LocalTypeOK, MembersConsistent
<1>3. VisitsOnline'  BY DEF VisitsOnline
<1> QED  BY <1>2, <1>3

\* The operator is done with its round, or begins anew.
LEMMA PollPodsRecords ==
    ASSUME RecordsInv, PollPods, Track
    PROVE  RecordsInv'
<1> USE RecordsParts
<1> DEFINE names == {p \in Pods : Alive(p)}
<1>1. CASE names # {}  BY <1>1, StartReconcileRecords DEF PollPods
<1>2. CASE names = {}
  <2>1. /\ pc = "idle" /\ UNCHANGED <<pc, local>> /\ UNCHANGED env
        /\ peers' = IF Replicas = 0 THEN NoMembers ELSE Reconcile(peers, NoMembers)
    BY <1>2 DEF PollPods
  <2>2. podsToMemberSet({}) = NoMembers  BY DEF podsToMemberSet, NoMembers
  <2>3. IsMemberSet(peers, Pods)' /\ MembersConsistent'
    <3>1. CASE Replicas = 0  BY <2>1, <3>1 DEF MembersConsistent, NoMembers, IsMemberSet
    <3>2. CASE Replicas # 0
      <4>1. peers' = Reconcile(peers, podsToMemberSet({}))  BY <2>1, <2>2, <3>2
      <4> QED  BY <4>1, ReconcileOnline DEF LocalTypeOK, MembersConsistent
    <3> QED  BY <3>1, <3>2
  <2>4. EnvTypeOK' /\ todo = {} /\ todo' = {}
    BY <2>1 DEF env, world, local, EnvTypeOK, VisitsOnline
  <2>5. LocalTypeOK'  BY <2>1, <2>3, TrackType DEF LocalTypeOK, local
  <2>6. VisitsOnline'  BY <2>1, <2>4 DEF VisitsOnline
  <2> QED  BY <2>3, <2>4, <2>5, <2>6
<1> QED  BY <1>1, <1>2

\* The status command changes the record of the member asked.
LEMMA CheckMemberRecords ==
    ASSUME RecordsInv, NEW n \in Pods, CheckMember(n), Track
    PROVE  RecordsInv'
<1> USE RecordsParts
<1>1. PICK code \in {0, 1, 7, 8} :
         /\ StatusCall(n, code)
         /\ peers' = [peers EXCEPT ![n] = Checked(@, Remap(code))]
         /\ errs' = (errs \/ CheckError(peers[n], Remap(code)))
         /\ IF peers'[n].AppFailed THEN tagAppMember(n, FALSE) ELSE UNCHANGED label
  BY DEF CheckMember
<1>2. /\ pc = "check" /\ n \in todo /\ todo' = todo \ {n}
      /\ UNCHANGED <<pc, running, seeds, again>>
  BY DEF CheckMember
<1>3. n \in Online(peers)  BY <1>2 DEF VisitsOnline
<1> DEFINE m == Checked(peers[n], Remap(code))
<1>4. m \in Member /\ Consistent(m)
  BY <1>3, OnlineRecord, MemberTypes, ConsistentUpdates
<1>5. EnvTypeOK'
  <2>1. label' \in [Pods -> BOOLEAN]  BY <1>1, TagType DEF EnvTypeOK
  <2>2. faults' \in 0..MaxFaults
    BY <1>1, EnvironmentAssumption, SMT DEF StatusCall, Fault, EnvTypeOK
  <2> QED  BY <1>1, <2>1, <2>2 DEF StatusCall, EnvTypeOK
<1>6. errs' \in BOOLEAN  BY <1>1 DEF LocalTypeOK, CheckError
<1>7. peers' = [peers EXCEPT ![n] = m]  BY <1>1
<1> HIDE DEF m
<1> QED  BY <1>2, <1>3, <1>4, <1>5, <1>6, <1>7, RecordChanges

\* recover() stops or deletes a failed member and is done with it.
LEMMA RecoverMemberRecords ==
    ASSUME RecordsInv, NEW n \in Pods, RecoverMember(n), Track
    PROVE  RecordsInv'
<1> USE RecordsParts
<1>1. /\ pc # "seed" /\ n \in todo /\ todo' = todo \ {n} /\ tagAppMember(n, FALSE)
      /\ UNCHANGED <<pc, running, seeds, again>> /\ errs' \in BOOLEAN
  BY DEF RecoverMember, LocalTypeOK
<1>2. n \in Online(peers)  BY <1>1 DEF VisitsOnline
<1>3. label' \in [Pods -> BOOLEAN]  BY <1>1, TagType
<1>4. ASSUME NEW ok \in BOOLEAN, DeleteCall(n, ok)
      PROVE  pod' \in [Pods -> PodStates]
  BY <1>4 DEF DeleteCall, EnvTypeOK, PodStates
<1>5. EnvTypeOK'
  <2>1. CASE UNCHANGED <<app, lineage, data, committed, faults>> /\ deleteMember(n, peers[n])
    BY <1>3, <1>4, <2>1 DEF deleteMember, EnvTypeOK
  <2>2. CASE StopCall(n, TRUE) /\ UNCHANGED pod
    <3>1. pod' \in [Pods -> PodStates]  BY <2>2 DEF EnvTypeOK
    <3> QED  BY <1>3, <2>2, <3>1, StopCallTypes
  <2>3. CASE StopCall(n, FALSE) /\ deleteMember(n, Failing(peers[n]))
    <3>1. pod' \in [Pods -> PodStates]  BY <1>4, <2>3 DEF deleteMember
    <3> QED  BY <1>3, <2>3, <3>1, StopCallTypes
  <2> QED  BY <2>1, <2>2, <2>3 DEF RecoverMember
<1>6. PICK m \in {Stopped(peers[n]), peers[n], Offline(peers[n]),
                  Failing(peers[n]), Offline(Failing(peers[n]))} :
         peers' = [peers EXCEPT ![n] = m]
  BY DEF RecoverMember, deleteMember
<1>7. m \in Member /\ Consistent(m)  BY <1>2, OnlineRecord, RecoveredRecord
<1> QED  BY <1>1, <1>2, <1>5, <1>6, <1>7, RecordChanges

\* The sequence command changes one number.
LEMMA DetectMemberRecords ==
    ASSUME RecordsInv, NEW n \in Pods, DetectMember(n), Track
    PROVE  RecordsInv'
<1> USE RecordsParts
<1>1. PICK seq \in {peers[n].SEQ, data[n], 0} :
         SequenceCall(n, peers[n].SEQ, seq) /\ peers' = [peers EXCEPT ![n].SEQ = seq]
  BY DEF DetectMember
<1>2. /\ pc = "detect" /\ n \in todo /\ todo' = todo \ {n}
      /\ UNCHANGED <<pc, running, seeds, errs, again>>
  BY DEF DetectMember
<1>3. n \in Online(peers)  BY <1>2 DEF VisitsOnline
<1>4. seq \in Nat  BY <1>3, OnlineRecord, SMT DEF EnvTypeOK, Member
<1> DEFINE m == [peers[n] EXCEPT !.SEQ = seq]
<1>5. m \in Member /\ Consistent(m)  BY <1>3, <1>4, OnlineRecord, SequencedRecord
<1>6. EnvTypeOK'
  BY <1>1, EnvironmentAssumption, SMT DEF SequenceCall, world, Fault, EnvTypeOK
<1>7. peers' = [peers EXCEPT ![n] = m]  BY <1>1
<1>8. errs' \in BOOLEAN  BY <1>2 DEF LocalTypeOK
<1> HIDE DEF m
<1> QED  BY <1>2, <1>3, <1>5, <1>6, <1>7, <1>8, RecordChanges

\* A start command leads to a consistent record of an online member.
LEMMA StartRecords ==
    ASSUME RecordsInv, NEW n \in Online(peers), NEW asPrimary \in BOOLEAN,
           NEW ok \in BOOLEAN, startAppMember(n, asPrimary, ok)
    PROVE  /\ EnvTypeOK'
           /\ \E m \in Member : Consistent(m) /\ m.Online /\ peers' = [peers EXCEPT ![n] = m]
<1> USE RecordsParts
<1>1. /\ n \in Pods /\ peers[n] \in Member /\ Consistent(peers[n]) /\ peers[n].Online
  BY OnlineRecord
<1>2. label' \in [Pods -> BOOLEAN]  BY <1>1, TagType DEF startAppMember, EnvTypeOK
<1>3. EnvTypeOK'  BY <1>1, <1>2, StartCallTypes DEF startAppMember
<1>4. CASE ok
  <2>1. peers' = [peers EXCEPT ![n] = Started(peers[n], asPrimary)]
    BY <1>4 DEF startAppMember
  <2> QED  BY <1>1, <1>3, <2>1, StartedRecord
<1>5. CASE ~ok
  <2>1. peers' = [peers EXCEPT ![n] = Failing(peers[n])]  BY <1>5 DEF startAppMember
  <2> QED  BY <1>1, <1>3, <2>1, StartedRecord
<1> QED  BY <1>4, <1>5

\* The stages that start and stop members, one member at a time.
LEMMA StageRecords ==
    ASSUME RecordsInv, StartPrimary \/ StartSecondary \/ DemotePrimary, Track
    PROVE  RecordsInv'
<1> USE RecordsParts
<1>1. /\ pc # "seed" /\ UNCHANGED <<pc, running, todo, seeds, again>>
  BY DEF StartPrimary, StartSecondary, DemotePrimary
<1>2. ASSUME NEW n \in chooseMember(peers), NEW asPrimary \in BOOLEAN, NEW ok \in BOOLEAN,
             startAppMember(n, asPrimary, ok), errs' = (errs \/ ~ok)
      PROVE  RecordsInv'
  <2>1. n \in Online(peers)  BY ChosenIsCandidate DEF Candidates, Online
  <2>2. PICK m \in Member : Consistent(m) /\ m.Online /\ peers' = [peers EXCEPT ![n] = m]
    BY <1>2, <2>1, StartRecords
  <2>3. EnvTypeOK' /\ errs' \in BOOLEAN  BY <1>2, <2>1, StartRecords DEF LocalTypeOK
  <2> QED  BY <1>1, <2>1, <2>2, <2>3, RecordChanges
<1>3. ASSUME NEW n \in chooseCurrentPrimary(peers), NEW ok \in BOOLEAN,
             stopAppMember(n, ok), errs' = (errs \/ ~ok), pod' = pod
      PROVE  RecordsInv'
  <2>1. n \in DOMAIN peers /\ peers[n].AppPrimary  BY DEF chooseCurrentPrimary
  <2>2. n \in Online(peers)
    BY <2>1 DEF MembersConsistent, Consistent, Online
  <2>3. /\ n \in Pods /\ peers[n] \in Member /\ Consistent(peers[n]) /\ peers[n].Online
    BY <2>2, OnlineRecord
  <2>4. label' \in [Pods -> BOOLEAN] /\ pod' \in [Pods -> PodStates]
    BY <1>3, <2>3, TagType DEF stopAppMember, EnvTypeOK
  <2>5. EnvTypeOK' /\ errs' \in BOOLEAN
    BY <1>3, <2>3, <2>4, StopCallTypes DEF stopAppMember, LocalTypeOK
  <2> DEFINE m == IF ok THEN Stopped(peers[n]) ELSE Failing(peers[n])
  <2>6. m \in Member /\ Consistent(m) /\ m.Online  BY <2>3, StoppedRecord
  <2>7. peers' = [peers EXCEPT ![n] = m]  BY <1>3 DEF stopAppMember
  <2> HIDE DEF m
  <2> QED  BY <1>1, <2>2, <2>5, <2>6, <2>7, RecordChanges
<1>4. CASE StartPrimary  BY <1>2, <1>4 DEF StartPrimary
<1>5. CASE StartSecondary  BY <1>2, <1>5 DEF StartSecondary
<1>6. CASE DemotePrimary  BY <1>3, <1>6 DEF DemotePrimary
<1> QED  BY <1>4, <1>5, <1>6

\* Seeding: the seeds still to be tried stay online.
LEMMA SeedMemberRecords ==
    ASSUME RecordsInv, SeedMember, Track
    PROVE  RecordsInv'
<1> USE RecordsParts
<1> DEFINE n == Head(seeds)
<1>1. PICK ok \in BOOLEAN : startAppMember(n, TRUE, ok)  BY DEF SeedMember
<1>2. /\ pc = "seed" /\ seeds # <<>> /\ UNCHANGED <<running, todo, errs, again>>
      /\ \/ pc' = "primaries" /\ seeds' = <<>>
         \/ pc' = "seed" /\ seeds' = Tail(seeds)
  BY DEF SeedMember
<1>3. n \in Online(peers) /\ Tail(seeds) \in Seq(Online(peers))
  BY <1>2, HeadTailProperties DEF VisitsOnline
<1> HIDE DEF n
<1>4. PICK m \in Member : Consistent(m) /\ m.Online /\ peers' = [peers EXCEPT ![n] = m]
  BY <1>1, <1>3, StartRecords
<1>5. EnvTypeOK'  BY <1>1, <1>3, StartRecords
<1>6. /\ IsMemberSet(peers, Pods)' /\ MembersConsistent'
      /\ Online(peers) \subseteq Online(peers') /\ Online(peers) \subseteq Pods
  BY <1>3, <1>4, OnlineRecord, UpdateMember
<1>7. /\ seeds' \in Seq(Pods) /\ (pc' = "seed" => seeds' \in Seq(Online(peers')))
  <2> DEFINE t == Tail(seeds)
  <2>1. t \in Seq(Pods) /\ t \in Seq(Online(peers'))  BY <1>3, <1>6, SeqMonotonic
  <2>2. CASE pc' = "primaries" /\ seeds' = <<>>  BY <2>2, SMT
  <2>3. CASE pc' = "seed" /\ seeds' = t
    <3> HIDE DEF t
    <3> QED  BY <2>1, <2>3
  <2> QED  BY <1>2, <2>2, <2>3
<1>8. LocalTypeOK'  BY <1>2, <1>6, <1>7, TrackType DEF LocalTypeOK, PCs
<1>9. VisitsOnline'  BY <1>2, <1>6, <1>7 DEF VisitsOnline
<1> QED  BY <1>5, <1>6, <1>8, <1>9

\* The members chosen as seeds are online.
LEMMA ChooseSeedsRecords ==
    ASSUME RecordsInv, ChooseSeeds, Track
    PROVE  RecordsInv'
<1> USE RecordsParts
<1>1. PICK s \in chooseSeeds(peers) :
         \/ s = <<>> /\ GiveUp
         \/ s # <<>> /\ pc' = "seed" /\ seeds' = s
            /\ UNCHANGED <<peers, running, todo, errs, again>>
  BY DEF ChooseSeeds
<1>2. pc = "choose" /\ UNCHANGED env  BY DEF ChooseSeeds
<1>3. CASE GiveUp
  BY <1>2, <1>3, StartReconcileRecords DEF GiveUp, LocalTypeOK
<1>4. CASE pc' = "seed" /\ seeds' = s /\ UNCHANGED <<peers, running, todo, errs, again>>
  <2>1. s \in Seq(Candidates(peers))
    BY SeedsNewest, EnvironmentAssumption DEF LocalTypeOK
  <2>2. Candidates(peers) \subseteq Online(peers)  BY DEF Candidates, Online
  <2>3. Online(peers) \subseteq Pods  BY OnlineRecord
  <2>4. s \in Seq(Online(peers)) /\ s \in Seq(Pods)  BY <2>1, <2>2, <2>3, SeqMonotonic
  <2>5. LocalTypeOK' /\ MembersConsistent'
    BY <1>4, <2>4, TrackType DEF LocalTypeOK, PCs, MembersConsistent
  <2>6. VisitsOnline'  BY <1>2, <1>4, <2>4 DEF VisitsOnline
  <2>7. EnvTypeOK'  BY <1>2 DEF env, world, EnvTypeOK
  <2> QED  BY <2>5, <2>6, <2>7
<1> QED  BY <1>1, <1>3, <1>4

\* Going back to wait for the timer.
LEMMA IdleRecords ==
    ASSUME RecordsInv, Idle, UNCHANGED <<env, peers>>, Track
    PROVE  RecordsInv'
<1>1. EnvTypeOK'  BY RecordsParts DEF env, world, EnvTypeOK
<1>2. /\ pc' = "idle" /\ todo' = {} /\ running' = {} /\ seeds' = <<>>
      /\ errs' = FALSE /\ again' = FALSE
  BY DEF Idle, Visit
<1>3. running' \subseteq Pods /\ seeds' \in Seq(Pods) /\ pc' \in PCs
  BY <1>2, SMT DEF PCs
<1> QED  BY <1>1, <1>2, <1>3, VisitRecords

\* Reconciling again, with the Pods the round began with.
LEMMA GiveUpRecords ==
    ASSUME RecordsInv, GiveUp, UNCHANGED env, Track
    PROVE  RecordsInv'
BY RecordsParts, StartReconcileRecords DEF GiveUp, LocalTypeOK

\* Leaving a loop for the next place, with online members to visit there.
LEMMA MoveRecords ==
    ASSUME RecordsInv, NEW to \in PCs \ {"seed", "idle"}, NEW S \in SUBSET Online(peers),
           Visit(to, S), UNCHANGED <<env, peers, running, seeds, again>>,
           errs' \in BOOLEAN, Track
    PROVE  RecordsInv'
<1>1. EnvTypeOK'  BY RecordsParts DEF env, world, EnvTypeOK
<1>2. /\ pc' \in PCs /\ pc' # "seed" /\ pc' # "idle" /\ todo' \subseteq Online(peers)
      /\ running' \subseteq Pods /\ seeds' \in Seq(Pods) /\ again' \in BOOLEAN
  BY RecordsParts DEF Visit, LocalTypeOK
<1> QED  BY <1>1, <1>2, VisitRecords

\* The end of a stage.
LEMMA LeaveStageRecords ==
    ASSUME RecordsInv, NEW done \in BOOLEAN, NEW next \in {"demote", "secondaries", "finish"},
           LeaveStage(done, next), Track
    PROVE  RecordsInv'
<1> DEFINE e == errs \/ ~done
<1>1. errs \in BOOLEAN /\ e \in BOOLEAN  BY RecordsParts DEF LocalTypeOK
<1>2. UNCHANGED <<env, peers>>  BY DEF LeaveStage
<1>3. ASSUME Finish(e)
      PROVE  RecordsInv'
  <2>1. CASE Idle  BY <1>2, <2>1, IdleRecords
  <2>2. CASE /\ Visit("cleanup", Recoverable(peers)) /\ errs' = e
             /\ UNCHANGED <<running, seeds, again>>
    <3>1. Recoverable(peers) \subseteq Online(peers)
      BY RecordsParts DEF Recoverable, Failed, Online, MembersConsistent, Consistent
    <3>2. errs' \in BOOLEAN  BY <1>1, <2>2
    <3>3. "cleanup" \in PCs \ {"seed", "idle"}  BY DEF PCs
    <3> QED  BY <1>2, <2>2, <3>1, <3>2, <3>3, MoveRecords
  <2> QED  BY <1>3, <2>1, <2>2 DEF Finish
<1>4. CASE next # "finish" /\ Visit(next, {}) /\ UNCHANGED <<running, seeds, errs, again>>
  <2>1. next \in PCs \ {"seed", "idle"}  BY <1>4 DEF PCs
  <2>2. errs' \in BOOLEAN  BY <1>1, <1>4
  <2> QED  BY <1>2, <1>4, <2>1, <2>2, MoveRecords
<1> HIDE DEF e
<1> QED  BY <1>3, <1>4 DEF LeaveStage, e

\* The steps between the loops.
LEMMA BetweenRecords ==
    ASSUME RecordsInv, Track,
           \/ CheckDone \/ ReconcileDone \/ Replicate \/ DetectDone \/ SeedsExhausted
           \/ PrimariesDone \/ DemoteDone \/ SecondariesDone \/ CleanupDone
    PROVE  RecordsInv'
<1>1. errs \in BOOLEAN /\ todo \subseteq Online(peers)
  BY RecordsParts DEF LocalTypeOK, VisitsOnline
<1>2. {"recover", "replicate", "detect", "choose", "primaries"} \subseteq PCs \ {"seed", "idle"}
  BY DEF PCs
<1>3. CASE CheckDone
  <2>1. Recoverable(peers) \subseteq Online(peers)
    BY RecordsParts DEF Recoverable, Failed, Online, MembersConsistent, Consistent
  <2>2. /\ Visit("recover", Recoverable(peers))
        /\ UNCHANGED <<env, peers, running, seeds, again>> /\ errs' \in BOOLEAN
    BY <1>1, <1>3 DEF CheckDone
  <2> QED  BY <1>2, <2>1, <2>2, MoveRecords
<1>4. CASE ReconcileDone
  <2>1. UNCHANGED <<env, peers>>  BY <1>4 DEF ReconcileDone
  <2>2. CASE Idle  BY <2>1, <2>2, IdleRecords
  <2>3. CASE Visit("replicate", {}) /\ UNCHANGED <<running, seeds, errs, again>>
    BY <1>1, <1>2, <2>1, <2>3, MoveRecords
  <2> QED  BY <1>4, <2>2, <2>3 DEF ReconcileDone
<1>5. CASE Replicate
  <2>1. UNCHANGED env  BY <1>5 DEF Replicate
  <2>2. CASE GiveUp  BY <2>1, <2>2, GiveUpRecords
  <2>3. ASSUME NEW S \in {Online(peers), {}}, Visit("detect", S),
               UNCHANGED <<peers, running, seeds, errs, again>>
        PROVE  RecordsInv'
    BY <1>1, <1>2, <2>1, <2>3, MoveRecords
  <2> QED  BY <1>5, <2>2, <2>3 DEF Replicate
<1>6. CASE DetectDone
  <2>1. /\ pc' \in {"choose", "primaries"} /\ todo' = todo
        /\ UNCHANGED <<env, peers, running, seeds, errs, again>>
    BY <1>6 DEF DetectDone, local
  <2>2. EnvTypeOK'  BY <2>1, RecordsParts DEF env, world, EnvTypeOK
  <2>3. /\ pc' \in PCs /\ pc' # "seed" /\ pc' # "idle" /\ running' \subseteq Pods
        /\ seeds' \in Seq(Pods) /\ errs' \in BOOLEAN /\ again' \in BOOLEAN
    BY <1>2, <2>1, RecordsParts DEF LocalTypeOK
  <2> QED  BY <1>1, <2>1, <2>2, <2>3, VisitRecords
<1>7. CASE SeedsExhausted  BY <1>7, GiveUpRecords DEF SeedsExhausted
<1>8. ASSUME NEW done, NEW next \in {"demote", "secondaries", "finish"},
             LeaveStage(done, next), done \in BOOLEAN
      PROVE  RecordsInv'
  BY <1>8, LeaveStageRecords
<1>9. CASE PrimariesDone
  <2>1. (AppPrimaries(peers) >= Primaries) \in BOOLEAN  BY SMT
  <2> QED  BY <1>8, <1>9, <2>1 DEF PrimariesDone
<1>10. CASE DemoteDone
  <2>1. (AppPrimaries(peers) <= Primaries) \in BOOLEAN  BY SMT
  <2> QED  BY <1>8, <1>10, <2>1 DEF DemoteDone
<1>11. CASE SecondariesDone
  <2>1. (AppMembers(peers) >= Replicas) \in BOOLEAN  BY SMT
  <2> QED  BY <1>8, <1>11, <2>1 DEF SecondariesDone
<1>12. CASE CleanupDone
  BY <1>12, GiveUpRecords, IdleRecords DEF CleanupDone
<1> QED  BY <1>3, <1>4, <1>5, <1>6, <1>7, <1>9, <1>10, <1>11, <1>12

\* A new operator knows no members, and the outside world changes no record.
LEMMA OthersRecords ==
    ASSUME RecordsInv, Outside(EnvStep) \/ (OperatorRestarts /\ Track)
    PROVE  RecordsInv'
<1> USE RecordsParts
<1>1. CASE Outside(EnvStep)
  <2>1. EnvTypeOK'  BY <1>1, EnvStepTypes DEF Outside
  <2>2. LocalTypeOK' /\ MembersConsistent' /\ VisitsOnline'
    BY <1>1, TrackType DEF Outside, local, LocalTypeOK, MembersConsistent, VisitsOnline
  <2> QED  BY <2>1, <2>2
<1>2. CASE OperatorRestarts /\ Track
  <2>1. /\ pc' = "idle" /\ todo' = {} /\ running' = {} /\ seeds' = <<>>
        /\ errs' = FALSE /\ again' = FALSE /\ peers' = NoMembers
    BY <1>2 DEF OperatorRestarts, Idle, Visit
  <2>2. IsMemberSet(peers, Pods)' /\ MembersConsistent'
    BY <2>1 DEF IsMemberSet, NoMembers, MembersConsistent
  <2>3. EnvTypeOK'
    BY <1>2, EnvironmentAssumption, SMT DEF OperatorRestarts, Fault, world, EnvTypeOK
  <2>4. errs' \in BOOLEAN /\ again' \in BOOLEAN  BY <2>1
  <2>5. LocalTypeOK'  BY <1>2, <2>1, <2>2, <2>4, TrackType, SMT DEF LocalTypeOK, PCs
  <2>6. VisitsOnline'  BY <2>1 DEF VisitsOnline
  <2> QED  BY <2>2, <2>3, <2>5, <2>6
<1> QED  BY <1>1, <1>2

\* The variables keep their types, the operator believes nothing of the
\* application of a member that is offline, and no primary not running
\* (Offline() clears what reconcile(), startAppMember and stopAppMember set),
\* and its loops act on online members only: whatever calls fail, Pods die or
\* operators restart.
THEOREM RecordsAlways == Spec => [](TypeOK /\ MembersConsistent /\ VisitsOnline)
<1>1. Init => RecordsInv  BY InitInv DEF OneLineageInv, RecordsInv
<1>2. RecordsInv /\ [Next]_vars => RecordsInv'
  <2> SUFFICES ASSUME RecordsInv, [Next]_vars PROVE RecordsInv'  OBVIOUS
  <2>1. CASE OperatorStep
    <3>1. ASSUME NEW n \in Pods, CheckMember(n) \/ RecoverMember(n) \/ DetectMember(n), Track
          PROVE  RecordsInv'
      BY <3>1, CheckMemberRecords, RecoverMemberRecords, DetectMemberRecords
    <3> QED
      BY <2>1, <3>1, PollPodsRecords, ChooseSeedsRecords, SeedMemberRecords, StageRecords,
         BetweenRecords DEF OperatorStep
  <2>2. CASE Outside(EnvStep) \/ (OperatorRestarts /\ Track)  BY <2>2, OthersRecords
  <2>3. CASE UNCHANGED vars
    BY <2>3 DEF vars, env, world, local, RecordsInv, TypeOK, EnvTypeOK, MembersConsistent,
                VisitsOnline
  <2> QED  BY <2>1, <2>2, <2>3 DEF Next
<1>3. RecordsInv => TypeOK /\ MembersConsistent /\ VisitsOnline  BY DEF RecordsInv
<1> QED  BY <1>1, <1>2, <1>3, PTL DEF Spec

----------------------------------------------------------------------------
(***************************************************************************)
(* Seeding and stopping: the records agree with the Pods the round polled. *)
(***************************************************************************)

\* ActiveMembers() counts the online members.
LEMMA OnlineCount ==
    ASSUME LocalTypeOK
    PROVE  /\ ActiveMembers(peers) = Cardinality(Online(peers))
           /\ IsFiniteSet(Online(peers))
           /\ ActiveMembers(peers) = 0 => Online(peers) = {}
<1>1. Online(peers) \subseteq Pods  BY DEF LocalTypeOK, IsMemberSet, Online
<1>2. IsFiniteSet(Online(peers))  BY <1>1, FS_Subset, EnvironmentAssumption
<1>3. ActiveMembers(peers) = Cardinality(Online(peers))
  BY DEF ActiveMembers, Online
<1> QED  BY <1>2, <1>3, FS_EmptySet

\* AppMembers() is zero only if no member runs the application.
LEMMA RunningCount ==
    ASSUME LocalTypeOK
    PROVE  /\ AppMembers(peers) \in Nat
           /\ AppMembers(peers) = 0 => PrimariesOf(peers) = {}
<1> DEFINE R == {n \in DOMAIN peers : peers[n].Online /\ peers[n].AppRunning}
<1>1. R \subseteq Pods  BY DEF LocalTypeOK, IsMemberSet
<1>2. IsFiniteSet(R)  BY <1>1, FS_Subset, EnvironmentAssumption
<1>3. AppMembers(peers) = Cardinality(R)  BY DEF AppMembers
<1>4. PrimariesOf(peers) \subseteq R  BY DEF PrimariesOf
<1> HIDE DEF R
<1> QED  BY <1>2, <1>3, <1>4, FS_CardinalityType, FS_EmptySet

\* Replacing the record of an online member by another online one changes
\* neither who is online nor who else has failed.
LEMMA ReplaceOnline ==
    ASSUME LocalTypeOK, NEW n \in DOMAIN peers, peers[n].Online,
           NEW r, r.Online, peers' = [peers EXCEPT ![n] = r]
    PROVE  /\ Online(peers') = Online(peers)
           /\ Failed(peers') \subseteq Failed(peers) \union {n}
           /\ ~r.AppFailed => n \notin Failed(peers')
           /\ ActiveMembers(peers') = ActiveMembers(peers)
<1>1. DOMAIN peers' = DOMAIN peers /\ peers'[n] = r
      /\ \A k \in DOMAIN peers \ {n} : peers'[k] = peers[k]
  BY DEF LocalTypeOK, IsMemberSet
<1>2. Online(peers') = Online(peers)  BY <1>1 DEF Online
<1>3. Failed(peers') \subseteq Failed(peers) \union {n}  BY <1>1 DEF Failed
<1>4. ~r.AppFailed => n \notin Failed(peers')  BY <1>1 DEF Failed
<1>5. ActiveMembers(peers') = ActiveMembers(peers)
  BY <1>2 DEF ActiveMembers, Online
<1> QED  BY <1>2, <1>3, <1>4, <1>5

\* After Reconcile() exactly the Pods of the list are online.
LEMMA StartReconcileSeeding ==
    ASSUME OneLineageInv, NEW names \in SUBSET Pods, NEW retry,
           StartReconcile(names, retry)
    PROVE  SeedingInv'
<1>1. IsMemberSet(peers, Pods) /\ \A n \in DOMAIN peers : Consistent(peers[n])
  BY InvParts DEF LocalTypeOK, MembersConsistent
<1>2. Online(peers') = names
  BY <1>1, ReconcileOnline DEF StartReconcile
<1>3. pc' = "check" /\ running' = names
  BY DEF StartReconcile, Visit
<1> QED  BY <1>2, <1>3 DEF SeedingInv, RoundSound, Gated, WoundDown

\* replicate() gives up and reconciles the Pods it already knows.
LEMMA GiveUpSeeding ==
    ASSUME OneLineageInv, GiveUp
    PROVE  SeedingInv'
BY InvParts, StartReconcileSeeding DEF GiveUp, LocalTypeOK

\* Outside of reconcile() and the beginning of replicate() nothing is claimed,
\* except of a cluster that is scaled to zero.
LEMMA ElsewhereSeeding ==
    ASSUME pc' \in {"idle"} \/ (Replicas # 0 /\ pc' \in {"primaries", "demote", "secondaries", "cleanup"})
    PROVE  SeedingInv'
BY DEF SeedingInv, RoundSound, Gated, WoundDown

----------------------------------------------------------------------------
(***************************************************************************)
(* The steps of the operator.                                              *)
(***************************************************************************)

\* The timer fires.
LEMMA PollPodsSeeding ==
    ASSUME OneLineageInv, PollPods
    PROVE  SeedingInv'
<1> DEFINE names == {p \in Pods : Alive(p)}
<1>1. CASE StartReconcile(names, FALSE)  BY <1>1, StartReconcileSeeding
<1>2. CASE UNCHANGED pc  BY <1>2, ElsewhereSeeding DEF PollPods
<1> QED  BY <1>1, <1>2 DEF PollPods

\* The status command is asked of an online member, which stays online.
LEMMA CheckMemberSeeding ==
    ASSUME OneLineageInv, SeedingInv, NEW n \in Pods, CheckMember(n)
    PROVE  SeedingInv'
<1> USE InvParts
<1>1. PICK code \in {0, 1, 7, 8} :
         /\ peers' = [peers EXCEPT ![n] = Checked(peers[n], Remap(code))]
         /\ errs' = (errs \/ CheckError(peers[n], Remap(code)))
  BY DEF CheckMember
<1>2. pc = "check" /\ pc' = "check" /\ n \in todo /\ running' = running
  BY DEF CheckMember
<1>3. n \in DOMAIN peers /\ peers[n] \in Member /\ peers[n].Online
  BY <1>2, OnlineRecord DEF VisitsOnline
<1> DEFINE r == Checked(peers[n], Remap(code))
<1>4. r.Online  BY <1>3 DEF Checked, Member
<1>5. Online(peers') = Online(peers)
  <2> HIDE DEF r
  <2> QED  BY <1>1, <1>3, <1>4, ReplaceOnline DEF r
<1> QED  BY <1>1, <1>2, <1>5 DEF SeedingInv, RoundSound, Gated, WoundDown

\* recover() visits every failed member: they are all online.
LEMMA CheckDoneSeeding ==
    ASSUME OneLineageInv, SeedingInv, CheckDone
    PROVE  SeedingInv'
<1>1. /\ pc = "check" /\ pc' = "recover" /\ todo' = Recoverable(peers)
      /\ peers' = peers /\ running' = running /\ errs' = errs
  BY DEF CheckDone, Visit
<1>2. Failed(peers) \subseteq Recoverable(peers)
  BY InvParts DEF Recoverable, Failed, MembersConsistent, Consistent
<1> QED  BY <1>1, <1>2 DEF SeedingInv, RoundSound, Gated, WoundDown

\* A member that is recovered without an error is no longer failed.
LEMMA RecoverMemberSeeding ==
    ASSUME OneLineageInv, SeedingInv, NEW n \in Pods, RecoverMember(n)
    PROVE  SeedingInv'
<1> USE InvParts
<1>1. /\ pc \in {"recover", "cleanup"} /\ pc' = pc /\ n \in todo
      /\ todo' = todo \ {n} /\ running' = running
      /\ \/ errs' = TRUE
         \/ peers' = [peers EXCEPT ![n] = Stopped(peers[n])] /\ errs' = errs
  BY DEF RecoverMember
<1>2. CASE pc = "cleanup"
  BY <1>1, <1>2, ElsewhereSeeding DEF SeedingInv, WoundDown
<1>3. CASE pc = "recover" /\ errs' = TRUE
  BY <1>1, <1>3 DEF SeedingInv, RoundSound, Gated, WoundDown
<1>4. CASE pc = "recover" /\ errs' = errs
           /\ peers' = [peers EXCEPT ![n] = Stopped(peers[n])]
  <2>1. n \in DOMAIN peers /\ peers[n] \in Member /\ peers[n].Online
    BY <1>1, OnlineRecord DEF VisitsOnline
  <2> DEFINE r == Stopped(peers[n])
  <2>2. r.Online /\ ~r.AppFailed  BY <2>1 DEF Stopped, Member
  <2> HIDE DEF r
  <2>3. /\ Online(peers') = Online(peers)
        /\ Failed(peers') \subseteq Failed(peers) \union {n} /\ n \notin Failed(peers')
    BY <1>4, <2>1, <2>2, ReplaceOnline DEF r
  <2> QED  BY <1>1, <1>4, <2>3 DEF SeedingInv, RoundSound, Gated, WoundDown
<1> QED  BY <1>1, <1>2, <1>3, <1>4

\* replicate() follows only a round without an error.
LEMMA ReconcileDoneSeeding ==
    ASSUME OneLineageInv, SeedingInv, ReconcileDone
    PROVE  SeedingInv'
<1>1. CASE Idle  BY <1>1, ElsewhereSeeding DEF Idle, Visit
<1>2. CASE ~errs /\ Visit("replicate", {}) /\ UNCHANGED running
  <2>1. pc = "recover" /\ todo = {} /\ pc' = "replicate" /\ peers' = peers /\ running' = running
    BY <1>2 DEF ReconcileDone, Visit
  <2> QED  BY <1>2, <2>1 DEF SeedingInv, RoundSound, Gated, WoundDown
<1> QED  BY <1>1, <1>2 DEF ReconcileDone

\* The two gates of replicate().
LEMMA ReplicateSeeding ==
    ASSUME OneLineageInv, SeedingInv, Replicate
    PROVE  SeedingInv'
<1> USE InvParts
<1>1. CASE GiveUp  BY <1>1, GiveUpSeeding
<1>2. CASE /\ ~(AppMembers(peers) > Replicas)
           /\ ~(AppPrimaries(peers) = 0 /\ ActiveMembers(peers) # Replicas)
           /\ pc' = "detect" /\ UNCHANGED <<peers, running>>
  <2>1. pc = "replicate"  BY DEF Replicate
  <2>2. PrimariesOf(peers) = {} => ActiveMembers(peers) = Replicas
    BY <1>2, PrimariesCount
  <2>3. Replicas = 0 => PrimariesOf(peers) = {}
    BY <1>2, RunningCount, SMT
  <2> QED  BY <1>2, <2>1, <2>2, <2>3 DEF SeedingInv, RoundSound, Gated, WoundDown
<1> QED  BY <1>1, <1>2 DEF Replicate, Visit

\* A sequence number changes nothing the gates looked at.
LEMMA DetectMemberSeeding ==
    ASSUME OneLineageInv, SeedingInv, NEW n \in Pods, DetectMember(n)
    PROVE  SeedingInv'
<1> USE InvParts
<1>1. PICK seq \in {peers[n].SEQ, data[n], 0} : peers' = [peers EXCEPT ![n].SEQ = seq]
  BY DEF DetectMember
<1>2. pc = "detect" /\ pc' = "detect" /\ n \in todo /\ running' = running
  BY DEF DetectMember
<1>3. n \in DOMAIN peers /\ peers[n] \in Member /\ peers[n].Online
  BY <1>2, OnlineRecord DEF VisitsOnline
<1> DEFINE r == [peers[n] EXCEPT !.SEQ = seq]
<1>4. /\ r.Online /\ r.AppFailed = peers[n].AppFailed
      /\ r.AppPrimary = peers[n].AppPrimary /\ r.AppRunning = peers[n].AppRunning
  BY <1>3 DEF Member
<1>5. peers' = [peers EXCEPT ![n] = r]  BY <1>1
<1> HIDE DEF r
<1>6. /\ Online(peers') = Online(peers) /\ ActiveMembers(peers') = ActiveMembers(peers)
  BY <1>3, <1>4, <1>5, ReplaceOnline
<1>7. Failed(peers') = Failed(peers)
  BY <1>3, <1>4, <1>5 DEF Failed, LocalTypeOK, IsMemberSet
<1>8. PrimariesOf(peers') = PrimariesOf(peers)
  BY <1>3, <1>4, <1>5 DEF PrimariesOf, LocalTypeOK, IsMemberSet
<1> QED  BY <1>2, <1>6, <1>7, <1>8 DEF SeedingInv, RoundSound, Gated, WoundDown

\* Seeds are needed only when no primary is known.
LEMMA DetectDoneSeeding ==
    ASSUME OneLineageInv, SeedingInv, DetectDone
    PROVE  SeedingInv'
<1> USE InvParts
<1>1. /\ pc = "detect" /\ UNCHANGED <<peers, running>>
      /\ pc' = IF AppPrimaries(peers) = 0 THEN "choose" ELSE "primaries"
  BY DEF DetectDone, local
<1>2. CASE PrimariesOf(peers) = {}
  <2>1. pc' = "choose"  BY <1>1, <1>2, PrimariesCount
  <2> QED  BY <1>1, <1>2, <2>1 DEF SeedingInv, RoundSound, Gated, WoundDown
<1>3. CASE PrimariesOf(peers) # {}
  <2>1. pc' = "primaries"  BY <1>1, <1>3, PrimariesCount
  <2> QED  BY <1>1, <1>3, <2>1, ElsewhereSeeding DEF SeedingInv, WoundDown
<1> QED  BY <1>2, <1>3

\* Without a replica there is no candidate for a seed.
LEMMA ChooseSeedsSeeding ==
    ASSUME OneLineageInv, SeedingInv, ChooseSeeds
    PROVE  SeedingInv'
<1> USE InvParts
<1>1. CASE GiveUp  BY <1>1, GiveUpSeeding
<1>2. ASSUME NEW s \in chooseSeeds(peers), s # <<>>, pc' = "seed",
             UNCHANGED <<peers, running>>
      PROVE  SeedingInv'
  <2>1. pc = "choose"  BY DEF ChooseSeeds
  <2>2. Replicas # 0
    <3> SUFFICES ASSUME Replicas = 0 PROVE FALSE
      OBVIOUS
    <3>1. Online(peers) = {}
      BY <2>1, OnlineCount DEF SeedingInv, Gated
    <3>2. Candidates(peers) = {}  BY <3>1 DEF Candidates, Online
    <3> QED  BY <1>2, <3>2, SeedsNewest, EnvironmentAssumption DEF LocalTypeOK
  <2> QED  BY <1>2, <2>1, <2>2 DEF SeedingInv, RoundSound, Gated, WoundDown
<1> QED  BY <1>1, <1>2 DEF ChooseSeeds

\* Trying a seed leaves it online, whether or not it started.
LEMMA SeedMemberSeeding ==
    ASSUME OneLineageInv, SeedingInv, SeedMember
    PROVE  SeedingInv'
<1> USE InvParts
<1> DEFINE n == Head(seeds)
<1>1. PICK ok \in BOOLEAN : startAppMember(n, TRUE, ok)
  BY DEF SeedMember
<1>2. /\ pc = "seed" /\ seeds # <<>> /\ running' = running
      /\ pc' \in {"primaries", "seed"}
  BY DEF SeedMember
<1>3. Replicas # 0  BY <1>2 DEF SeedingInv, WoundDown
<1>4. CASE pc' = "primaries"  BY <1>3, <1>4, ElsewhereSeeding
<1>5. CASE pc' = "seed"
  <2>1. n \in Online(peers)
    BY <1>2, HeadTailProperties DEF VisitsOnline
  <2>2. n \in DOMAIN peers /\ peers[n] \in Member /\ Consistent(peers[n]) /\ peers[n].Online
    BY <2>1, OnlineRecord
  <2> DEFINE r == IF ok THEN Started(peers[n], TRUE) ELSE Failing(peers[n])
  <2>3. r.Online  BY <2>2, StartedRecord
  <2>4. peers' = [peers EXCEPT ![n] = r]  BY <1>1 DEF startAppMember
  <2> HIDE DEF r, n
  <2>5. Online(peers') = Online(peers) /\ ActiveMembers(peers') = ActiveMembers(peers)
    BY <2>2, <2>3, <2>4, ReplaceOnline
  <2> QED  BY <1>2, <1>3, <1>5, <2>5 DEF SeedingInv, RoundSound, Gated, WoundDown
<1> QED  BY <1>2, <1>4, <1>5

\* The later stages are only reached with replicas to run.
LEMMA StagesSeeding ==
    ASSUME OneLineageInv, SeedingInv,
           \/ StartPrimary \/ PrimariesDone \/ DemotePrimary \/ DemoteDone
           \/ StartSecondary \/ SecondariesDone \/ CleanupDone
    PROVE  SeedingInv'
<1>1. pc \in {"primaries", "demote", "secondaries", "cleanup"}
  BY DEF StartPrimary, PrimariesDone, DemotePrimary, DemoteDone, StartSecondary,
         SecondariesDone, CleanupDone
<1>2. Replicas # 0  BY <1>1 DEF SeedingInv, WoundDown
<1>3. CASE CleanupDone
  BY <1>3, GiveUpSeeding, ElsewhereSeeding DEF CleanupDone, Idle, Visit
<1>4. CASE StartPrimary \/ DemotePrimary \/ StartSecondary
  BY <1>1, <1>2, <1>4, ElsewhereSeeding DEF StartPrimary, DemotePrimary, StartSecondary
<1>5. CASE PrimariesDone \/ DemoteDone \/ SecondariesDone
  <2>1. pc' \in {"idle", "primaries", "demote", "secondaries", "cleanup"}
    BY <1>5 DEF PrimariesDone, DemoteDone, SecondariesDone, LeaveStage, Finish, Idle, Visit
  <2> QED  BY <1>2, <2>1, ElsewhereSeeding
<1> QED  BY <1>3, <1>4, <1>5

----------------------------------------------------------------------------
\* Every step preserves the invariant.
LEMMA NextSeeding ==
    ASSUME OneLineageInv, SeedingInv, [Next]_vars
    PROVE  SeedingInv'
<1>1. CASE OperatorStep
  <2>1. CASE PollPods  BY <2>1, PollPodsSeeding
  <2>2. CASE CheckDone  BY <2>2, CheckDoneSeeding
  <2>3. CASE ReconcileDone  BY <2>3, ReconcileDoneSeeding
  <2>4. CASE Replicate  BY <2>4, ReplicateSeeding
  <2>5. CASE DetectDone  BY <2>5, DetectDoneSeeding
  <2>6. CASE ChooseSeeds  BY <2>6, ChooseSeedsSeeding
  <2>7. CASE SeedMember  BY <2>7, SeedMemberSeeding
  <2>8. CASE SeedsExhausted  BY <2>8, GiveUpSeeding DEF SeedsExhausted
  <2>9. CASE \/ StartPrimary \/ PrimariesDone \/ DemotePrimary \/ DemoteDone
             \/ StartSecondary \/ SecondariesDone \/ CleanupDone
    BY <2>9, StagesSeeding
  <2>10. ASSUME NEW n \in Pods, CheckMember(n) PROVE SeedingInv'
    BY <2>10, CheckMemberSeeding
  <2>11. ASSUME NEW n \in Pods, RecoverMember(n) PROVE SeedingInv'
    BY <2>11, RecoverMemberSeeding
  <2>12. ASSUME NEW n \in Pods, DetectMember(n) PROVE SeedingInv'
    BY <2>12, DetectMemberSeeding
  <2> QED
    BY <1>1, <2>1, <2>2, <2>3, <2>4, <2>5, <2>6, <2>7, <2>8, <2>9, <2>10, <2>11,
       <2>12 DEF OperatorStep
<1>2. CASE OperatorRestarts
  BY <1>2, ElsewhereSeeding DEF OperatorRestarts, Idle, Visit
<1>3. CASE UNCHANGED <<pc, peers, local>>
  <2>1. UNCHANGED <<pc, peers, running, todo, errs>>  BY <1>3 DEF local
  <2> QED  BY <2>1 DEF SeedingInv, RoundSound, Gated, WoundDown
<1> QED  BY <1>1, <1>2, <1>3 DEF Next, Outside, vars

\* The operator starts between two rounds.
LEMMA InitSeeding == Init => SeedingInv
BY DEF Init, SeedingInv, RoundSound, Gated, WoundDown

\* Both invariants hold together.
LEMMA SeedingInvAlways ==
    ASSUME ReliableCalls
    PROVE  Spec => [](OneLineageInv /\ SeedingInv)
<1>1. Init => OneLineageInv /\ SeedingInv  BY InitInv, InitSeeding
<1>2. OneLineageInv /\ SeedingInv /\ [Next]_vars => (OneLineageInv /\ SeedingInv)'
  BY NextInv, NextSeeding
<1> QED  BY <1>1, <1>2, PTL DEF Spec

\* For any cluster: seeds are chosen and tried only while the records show
\* every replica online, and at the choice none of them failed ("Waiting for
\* ... before seeding" in replicate()).
THEOREM SeedsSeeAllAlways ==
    ASSUME ReliableCalls
    PROVE  Spec => []SeedsSeeAll
<1>1. OneLineageInv /\ SeedingInv => SeedsSeeAll
  BY InvParts, OnlineCount DEF SeedingInv, RoundSound, Gated, SeedsSeeAll
<1> QED  BY <1>1, SeedingInvAlways, PTL

----------------------------------------------------------------------------
\* A stop command leaves a stopped application stopped.
LEMMA StopKeepsStopped ==
    ASSUME EnvTypeOK, NEW n \in Pods, NEW ok, StopCall(n, ok),
           NEW p \in Pods, app[p] = "stopped"
    PROVE  app'[p] = "stopped"
<1>1. CASE app' = app  BY <1>1
<1>2. CASE \E s \in {app[n], "stopped"} : app' = [app EXCEPT ![n] = s]
  BY <1>2 DEF EnvTypeOK
<1> QED  BY <1>1, <1>2 DEF StopCall, AppBecomes

\* Nothing but a start command starts an application.
LEMMA OutsideKeepsStopped ==
    ASSUME EnvTypeOK, EnvStep, NEW p \in Pods, app[p] = "stopped"
    PROVE  app'[p] = "stopped"
<1>1. CASE app' = app  BY <1>1
<1>2. ASSUME NEW q \in Pods, app' = [app EXCEPT ![q] = "stopped"]
      PROVE  app'[p] = "stopped"
  BY <1>2 DEF EnvTypeOK
<1>3. ASSUME NEW q \in Pods, app[q] # "stopped", NEW s, app' = [app EXCEPT ![q] = s]
      PROVE  app'[p] = "stopped"
  BY <1>3 DEF EnvTypeOK
<1>4. CASE \E q \in Pods : Write(q)  BY <1>4, <1>1 DEF Write
<1>5. CASE KubernetesStep
  BY <1>5, <1>1, <1>2, <1>3
     DEF KubernetesStep, PodGone, Vanish, PodCreated, PodRuns, StartFinishes, AppBecomes
<1>6. CASE FaultStep
  BY <1>6, <1>2, <1>3
     DEF FaultStep, AppStops, AppBreaks, AppDemoted, PodDies, Vanish, AppBecomes
<1> QED  BY <1>4, <1>5, <1>6 DEF EnvStep

\* In a cluster without replicas the operator only stops applications.
LEMMA OperatorKeepsStopped ==
    ASSUME OneLineageInv, SeedingInv, Replicas = 0, OperatorStep,
           NEW p \in Pods, app[p] = "stopped"
    PROVE  app'[p] = "stopped"
<1>1. EnvTypeOK /\ pc \notin {"seed", "primaries", "demote", "secondaries", "cleanup"}
  BY InvParts DEF EnvInv, SeedingInv, WoundDown
<1>2. CASE UNCHANGED app  BY <1>2
<1>3. ASSUME NEW n \in Pods, RecoverMember(n) PROVE app'[p] = "stopped"
  <2>1. CASE UNCHANGED app  BY <2>1
  <2>2. ASSUME NEW ok, StopCall(n, ok) PROVE app'[p] = "stopped"
    BY <1>1, <2>2, StopKeepsStopped
  <2> QED  BY <1>3, <2>1, <2>2 DEF RecoverMember
<1>4. ASSUME NEW n \in Pods, CheckMember(n) \/ DetectMember(n) PROVE UNCHANGED app
  BY <1>4 DEF CheckMember, StatusCall, DetectMember, SequenceCall, world
<1>5. ASSUME \/ PollPods \/ CheckDone \/ ReconcileDone \/ Replicate \/ DetectDone
             \/ ChooseSeeds
      PROVE  UNCHANGED app
  BY <1>5 DEF PollPods, CheckDone, ReconcileDone, Replicate, DetectDone, ChooseSeeds,
              env, world
<1>6. ASSUME \/ SeedMember \/ SeedsExhausted \/ StartPrimary \/ PrimariesDone
             \/ DemotePrimary \/ DemoteDone \/ StartSecondary \/ SecondariesDone
             \/ CleanupDone
      PROVE  FALSE
  BY <1>1, <1>6 DEF SeedMember, SeedsExhausted, StartPrimary, PrimariesDone,
     DemotePrimary, DemoteDone, StartSecondary, SecondariesDone, CleanupDone
<1> QED  BY <1>2, <1>3, <1>4, <1>5, <1>6 DEF OperatorStep

\* For any number of Pods left over from a larger cluster: once it is scaled to
\* zero, no application in them is started again, whatever fails or restarts
\* (the two gates of replicate(), and chooseSeeds on no candidates).
THEOREM StaysStoppedAlways ==
    ASSUME ReliableCalls
    PROVE  Spec => StaysStopped
<1> DEFINE Kept == Replicas = 0 => \A p \in Pods : app[p] = "stopped" => app'[p] = "stopped"
<1>1. OneLineageInv /\ SeedingInv /\ [Next]_vars => [Kept]_vars
  <2> SUFFICES ASSUME OneLineageInv, SeedingInv, Next, Replicas = 0,
                      NEW p \in Pods, app[p] = "stopped"
               PROVE  app'[p] = "stopped"
    OBVIOUS
  <2>1. CASE OperatorStep  BY <2>1, OperatorKeepsStopped
  <2>2. CASE Outside(EnvStep)
    BY <2>2, OutsideKeepsStopped, InvParts DEF Outside, EnvInv
  <2>3. CASE OperatorRestarts  BY <2>3 DEF OperatorRestarts, world
  <2> QED  BY <2>1, <2>2, <2>3 DEF Next
<1> QED  BY <1>1, SeedingInvAlways, PTL DEF Spec, StaysStopped

----------------------------------------------------------------------------
(***************************************************************************)
(* What demotion leaves.                                                   *)
(***************************************************************************)

\* Replacing one record, as far as failures and primaries go.
LEMMA ReplaceRecord ==
    ASSUME LocalTypeOK, NEW n \in DOMAIN peers, NEW r, peers' = [peers EXCEPT ![n] = r]
    PROVE  /\ Failed(peers') \ {n} = Failed(peers) \ {n}
           /\ n \in Failed(peers') <=> r.AppFailed
           /\ PrimariesOf(peers') \ {n} = PrimariesOf(peers) \ {n}
           /\ n \in PrimariesOf(peers') <=> r.Online /\ r.AppPrimary /\ r.AppRunning
<1>1. DOMAIN peers' = DOMAIN peers /\ peers'[n] = r
      /\ \A k \in DOMAIN peers \ {n} : peers'[k] = peers[k]
  BY DEF LocalTypeOK, IsMemberSet
<1> QED  BY <1>1 DEF Failed, PrimariesOf

\* A set that loses at most one element.
LEMMA LosesOne ==
    ASSUME NEW S, IsFiniteSet(S), NEW T, IsFiniteSet(T), NEW n, S \ {n} \subseteq T
    PROVE  Cardinality(T) >= Cardinality(S) - 1
<1>1. IsFiniteSet(S \ {n}) /\ Cardinality(S \ {n}) \in Nat /\ Cardinality(S) \in Nat
      /\ Cardinality(T) \in Nat /\ Cardinality(S \ {n}) <= Cardinality(T)
  BY FS_Subset, FS_CardinalityType
<1>2. Cardinality(S \ {n}) >= Cardinality(S) - 1
  <2>1. CASE n \in S  BY <1>1, <2>1, FS_RemoveElement, SMT
  <2>2. CASE n \notin S
    <3>1. S \ {n} = S  BY <2>2
    <3> QED  BY <1>1, <3>1, SMT
  <2> QED  BY <2>1, <2>2
<1> QED  BY <1>1, <1>2, SMT

\* The records of the primaries, counted after one of them was replaced.
LEMMA CountAfter ==
    ASSUME LocalTypeOK, NEW n \in DOMAIN peers, NEW r, peers' = [peers EXCEPT ![n] = r]
    PROVE  /\ AppPrimaries(peers') \in Nat /\ AppPrimaries(peers) \in Nat
           /\ AppPrimaries(peers') >= AppPrimaries(peers) - 1
           /\ n \notin PrimariesOf(peers) => AppPrimaries(peers') >= AppPrimaries(peers)
<1>1. IsFiniteSet(PrimariesOf(peers'))
  <2>1. DOMAIN peers' = DOMAIN peers /\ DOMAIN peers \subseteq Pods
    BY DEF LocalTypeOK, IsMemberSet
  <2>2. PrimariesOf(peers') \subseteq Pods  BY <2>1 DEF PrimariesOf
  <2> QED  BY <2>2, FS_Subset, EnvironmentAssumption
<1>2. PrimariesOf(peers) \ {n} \subseteq PrimariesOf(peers')  BY ReplaceRecord
<1>3. Cardinality(PrimariesOf(peers')) >= Cardinality(PrimariesOf(peers)) - 1
  BY <1>1, <1>2, PrimariesCount, LosesOne
<1>4. n \notin PrimariesOf(peers) => Cardinality(PrimariesOf(peers')) >= Cardinality(PrimariesOf(peers))
  <2> SUFFICES ASSUME n \notin PrimariesOf(peers)
               PROVE  Cardinality(PrimariesOf(peers)) <= Cardinality(PrimariesOf(peers'))
    BY <1>1, PrimariesCount, FS_CardinalityType
  <2>1. PrimariesOf(peers) \subseteq PrimariesOf(peers')  BY <1>2
  <2> QED  BY <1>1, <2>1, FS_Subset
<1> QED  BY <1>1, <1>3, <1>4, PrimariesCount, FS_CardinalityType DEF AppPrimaries

\* A replaced record that is not that of a failed primary leaves no failed primary.
LEMMA NoneFails ==
    ASSUME LocalTypeOK, NEW n \in DOMAIN peers, NEW r, peers' = [peers EXCEPT ![n] = r],
           PrimariesOf(peers) \intersect Failed(peers) = {}, r.AppPrimary => ~r.AppFailed
    PROVE  PrimariesOf(peers') \intersect Failed(peers') = {}
<1>1. /\ Failed(peers') \ {n} = Failed(peers) \ {n}
      /\ n \in Failed(peers') <=> r.AppFailed
      /\ PrimariesOf(peers') \ {n} = PrimariesOf(peers) \ {n}
      /\ n \in PrimariesOf(peers') => r.AppPrimary
  BY ReplaceRecord
<1> SUFFICES ASSUME NEW m, m \in PrimariesOf(peers'), m \in Failed(peers')
             PROVE  FALSE
  BY Zenon
<1>2. CASE m = n  BY <1>1, <1>2
<1>3. CASE m # n
  <2>1. m \in Failed(peers) /\ m \in PrimariesOf(peers)  BY <1>1, <1>3
  <2> QED  BY <2>1
<1> QED  BY <1>2, <1>3

\* Nothing is claimed elsewhere.
LEMMA ElsewhereEnough ==
    ASSUME pc' \notin {"primaries", "demote", "secondaries"}
    PROVE  EnoughKnown'
BY DEF EnoughKnown

\* Sequence numbers are read, or a seed is started: no known primary has failed.
LEMMA EntersEnough ==
    ASSUME OneLineageInv, SeedingInv, DetectDone \/ SeedMember
    PROVE  EnoughKnown'
<1> USE InvParts
<1>1. CASE DetectDone
  <2>1. pc = "detect" /\ peers' = peers /\ pc' \in {"choose", "primaries"}
    BY <1>1 DEF DetectDone
  <2>2. Failed(peers) = {}  BY <2>1 DEF SeedingInv, RoundSound
  <2> QED  BY <2>1, <2>2 DEF EnoughKnown
<1>2. CASE SeedMember
  <2> DEFINE n == Head(seeds)
  <2>1. PICK ok \in BOOLEAN : startAppMember(n, TRUE, ok)  BY <1>2 DEF SeedMember
  <2>2. pc = "seed" /\ seeds # <<>> /\ pc' \in {"primaries", "seed"}
    BY <1>2 DEF SeedMember
  <2>3. n \in Online(peers)  BY <2>2, HeadTailProperties DEF VisitsOnline
  <2>4. PrimariesOf(peers) = {}  BY <2>2 DEF Joinable
  <2> DEFINE r == IF ok THEN Started(peers[n], TRUE) ELSE Failing(peers[n])
  <2>5. /\ n \in DOMAIN peers /\ peers[n] \in Member /\ Consistent(peers[n]) /\ peers[n].Online
        /\ peers' = [peers EXCEPT ![n] = r]
    BY <2>1, <2>3, OnlineRecord DEF startAppMember
  <2>6. r.AppPrimary => ~r.AppFailed
    <3>1. CASE ok  BY <2>5, <3>1 DEF Started, Member
    <3>2. CASE ~ok
      <4>1. ~peers[n].AppPrimary
        BY <2>4, <2>5 DEF PrimariesOf, Consistent
      <4> QED  BY <2>5, <3>2, <4>1, StartedRecord
    <3> QED  BY <3>1, <3>2
  <2> HIDE DEF n, r
  <2>7. PrimariesOf(peers') \intersect Failed(peers') = {}
    BY <2>4, <2>5, <2>6, NoneFails
  <2> QED  BY <2>2, <2>7 DEF EnoughKnown
<1> QED  BY <1>1, <1>2

\* A start that fails makes no known primary a failed one, and loses none.
LEMMA StartEnough ==
    ASSUME OneLineageInv, EnoughKnown, StartPrimary \/ StartSecondary
    PROVE  EnoughKnown'
<1> USE InvParts
<1>1. PICK n \in chooseMember(peers), ok \in BOOLEAN, asPrimary \in BOOLEAN :
         startAppMember(n, asPrimary, ok)
  BY DEF StartPrimary, StartSecondary
<1>2. pc \in {"primaries", "secondaries"} /\ pc' = pc  BY DEF StartPrimary, StartSecondary
<1>3. n \in Online(peers) /\ ~peers[n].AppPrimary
  BY ChosenIsCandidate DEF Candidates, Online
<1> DEFINE r == IF ok THEN Started(peers[n], asPrimary) ELSE Failing(peers[n])
<1>4. /\ n \in DOMAIN peers /\ peers[n] \in Member /\ Consistent(peers[n]) /\ peers[n].Online
      /\ peers' = [peers EXCEPT ![n] = r]
  BY <1>1, <1>3, OnlineRecord DEF startAppMember
<1>5. r.AppPrimary => ~r.AppFailed
  <2>1. CASE ok  BY <1>4, <2>1 DEF Started, Member
  <2>2. CASE ~ok  BY <1>3, <1>4, <2>2, StartedRecord
  <2> QED  BY <2>1, <2>2
<1> HIDE DEF r
<1>6. n \notin PrimariesOf(peers)  BY <1>3 DEF PrimariesOf
<1>7. CASE pc = "primaries"
  <2>1. PrimariesOf(peers) \intersect Failed(peers) = {}  BY <1>7 DEF EnoughKnown
  <2>2. PrimariesOf(peers') \intersect Failed(peers') = {}
    BY <1>4, <1>5, <2>1, NoneFails
  <2> QED  BY <1>2, <1>7, <2>2 DEF EnoughKnown
<1>8. CASE pc = "secondaries"
  <2>1. AppPrimaries(peers) >= Primaries  BY <1>8 DEF EnoughKnown
  <2>2. /\ AppPrimaries(peers') \in Nat /\ AppPrimaries(peers) \in Nat
        /\ AppPrimaries(peers') >= AppPrimaries(peers)
    BY <1>4, <1>6, CountAfter
  <2>3. AppPrimaries(peers') >= Primaries  BY <2>1, <2>2, EnvironmentAssumption, SMT
  <2> QED  BY <1>2, <1>8, <2>3 DEF EnoughKnown
<1> QED  BY <1>2, <1>7, <1>8

\* A demotion takes one of more than enough, and what fails is an error.
LEMMA DemoteEnough ==
    ASSUME OneLineageInv, EnoughKnown, DemotePrimary
    PROVE  EnoughKnown'
<1> USE InvParts
<1>1. PICK n \in chooseCurrentPrimary(peers), ok \in BOOLEAN :
         stopAppMember(n, ok) /\ errs' = (errs \/ ~ok)
  BY DEF DemotePrimary
<1>2. pc = "demote" /\ pc' = pc /\ AppPrimaries(peers) > Primaries  BY DEF DemotePrimary
<1>3. n \in DOMAIN peers /\ peers[n] \in Member
  BY <1>1 DEF chooseCurrentPrimary, LocalTypeOK, IsMemberSet
<1> DEFINE r == IF ok THEN Stopped(peers[n]) ELSE Failing(peers[n])
<1>4. peers' = [peers EXCEPT ![n] = r]  BY <1>1 DEF stopAppMember
<1>5. ok => ~r.AppPrimary  BY <1>3 DEF Stopped, Member
<1> HIDE DEF r
<1>6. AppPrimaries(peers') >= Primaries
  <2>1. /\ AppPrimaries(peers') \in Nat /\ AppPrimaries(peers) \in Nat
        /\ AppPrimaries(peers') >= AppPrimaries(peers) - 1
    BY <1>3, <1>4, CountAfter
  <2> QED  BY <1>2, <2>1, EnvironmentAssumption, SMT
<1>7. ~errs' => PrimariesOf(peers') \intersect Failed(peers') = {}
  <2> SUFFICES ASSUME ~errs'
               PROVE  PrimariesOf(peers') \intersect Failed(peers') = {}
    OBVIOUS
  <2>1. ok /\ ~errs  BY <1>1
  <2>2. PrimariesOf(peers) \intersect Failed(peers) = {}  BY <1>2, <2>1 DEF EnoughKnown
  <2> QED  BY <1>3, <1>4, <1>5, <2>1, <2>2, NoneFails
<1> QED  BY <1>2, <1>6, <1>7 DEF EnoughKnown

\* A stage is left for the next only when it is done.
LEMMA LeavesEnough ==
    ASSUME EnoughKnown, PrimariesDone \/ DemoteDone \/ SecondariesDone
    PROVE  EnoughKnown'
<1>1. peers' = peers
  BY DEF PrimariesDone, DemoteDone, SecondariesDone, LeaveStage
<1>2. CASE pc' \in {"idle", "cleanup"}  BY <1>2, ElsewhereEnough
<1>3. CASE pc = "primaries" /\ pc' = "demote" /\ AppPrimaries(peers) >= Primaries
  BY <1>1, <1>3 DEF EnoughKnown
<1>4. CASE pc = "demote" /\ pc' = "secondaries"  BY <1>1, <1>4 DEF EnoughKnown
<1> QED
  BY <1>2, <1>3, <1>4
     DEF PrimariesDone, DemoteDone, SecondariesDone, LeaveStage, Finish, Idle, Visit

\* Every step preserves the invariant.
LEMMA NextEnough ==
    ASSUME OneLineageInv, SeedingInv, EnoughKnown, [Next]_vars
    PROVE  EnoughKnown'
<1>1. CASE OperatorStep
  <2>1. CASE DetectDone \/ SeedMember  BY <2>1, EntersEnough
  <2>2. CASE StartPrimary \/ StartSecondary  BY <2>2, StartEnough
  <2>3. CASE DemotePrimary  BY <2>3, DemoteEnough
  <2>4. CASE PrimariesDone \/ DemoteDone \/ SecondariesDone  BY <2>4, LeavesEnough
  <2>5. ASSUME NEW n \in Pods, CheckMember(n) \/ RecoverMember(n) \/ DetectMember(n)
        PROVE  EnoughKnown'
    BY <2>5, ElsewhereEnough DEF CheckMember, RecoverMember, DetectMember
  <2>6. CASE \/ PollPods \/ CheckDone \/ ReconcileDone \/ Replicate \/ ChooseSeeds
             \/ SeedsExhausted \/ CleanupDone
    BY <2>6, ElsewhereEnough
       DEF PollPods, CheckDone, ReconcileDone, Replicate, ChooseSeeds, SeedsExhausted,
           CleanupDone, GiveUp, StartReconcile, Idle, Visit
  <2> QED  BY <1>1, <2>1, <2>2, <2>3, <2>4, <2>5, <2>6 DEF OperatorStep
<1>2. CASE OperatorRestarts  BY <1>2, ElsewhereEnough DEF OperatorRestarts, Idle, Visit
<1>3. CASE UNCHANGED <<pc, peers, local>>
  <2>1. UNCHANGED <<pc, peers, errs>>  BY <1>3 DEF local
  <2> QED  BY <2>1 DEF EnoughKnown
<1> QED  BY <1>1, <1>2, <1>3 DEF Next, Outside, vars

\* The three invariants hold together.
LEMMA EnoughKnownAlways ==
    ASSUME ReliableCalls
    PROVE  Spec => [](OneLineageInv /\ SeedingInv /\ EnoughKnown)
<1>1. Init => EnoughKnown  BY DEF Init, EnoughKnown
<1>2. OneLineageInv /\ SeedingInv /\ EnoughKnown /\ [Next]_vars => EnoughKnown'
  BY NextEnough
<1> QED  BY <1>1, <1>2, SeedingInvAlways, PTL DEF Spec

\* For any cluster and any faults that leave calls reliable: until a stop command
\* fails, the loop that stops primaries leaves as many healthy ones as the spec
\* asks for (replicate(), second stage).
THEOREM DemotionKeepsEnoughAlways ==
    ASSUME ReliableCalls
    PROVE  Spec => [](~errs => DemotionKeepsEnough)
<1>1. EnoughKnown => (~errs => DemotionKeepsEnough)
  <2> SUFFICES ASSUME EnoughKnown, ~errs, pc = "demote"
               PROVE  Cardinality({n \in PrimariesOf(peers) : ~peers[n].AppFailed}) >= Primaries
    BY DEF DemotionKeepsEnough
  <2>1. {n \in PrimariesOf(peers) : ~peers[n].AppFailed} = PrimariesOf(peers)
    BY DEF EnoughKnown, PrimariesOf, Failed
  <2> QED  BY <2>1 DEF EnoughKnown, AppPrimaries
<1> QED  BY <1>1, EnoughKnownAlways, PTL

----------------------------------------------------------------------------
(***************************************************************************)
(* What recover() and the start commands leave alone.                      *)
(***************************************************************************)

\* Reconcile() takes no member for failed that was not.
LEMMA ReconcileFailed ==
    ASSUME NEW ms, IsMemberSet(ms, Pods), NEW names \in SUBSET Pods
    PROVE  Failed(Reconcile(ms, podsToMemberSet(names))) \subseteq Failed(ms)
<1> DEFINE rs == Reconcile(ms, podsToMemberSet(names))
<1>1. DOMAIN rs = DOMAIN ms \union names  BY DEF podsToMemberSet, Reconcile
<1>2. ASSUME NEW n \in DOMAIN ms, n \notin names PROVE ~rs[n].AppFailed
  <2>1. rs[n] = Offline(ms[n]) /\ ms[n] \in Member
    BY <1>2 DEF podsToMemberSet, Reconcile, IsMemberSet
  <2>2. ~Offline(ms[n]).AppFailed  BY <2>1 DEF Offline, Member
  <2> QED  BY <2>1, <2>2
<1>3. ASSUME NEW n \in names, n \notin DOMAIN ms PROVE ~rs[n].AppFailed
  <2>1. rs[n] = newMember \/ rs[n] = [newMember EXCEPT !.Online = TRUE]
    BY <1>3 DEF podsToMemberSet, Reconcile
  <2> QED  BY <2>1, SMT DEF newMember
<1>4. ASSUME NEW n \in names, n \in DOMAIN ms PROVE rs[n].AppFailed = ms[n].AppFailed
  <2>1. ms[n] \in Member  BY <1>4 DEF IsMemberSet
  <2>2. rs[n] = ms[n] \/ rs[n] = [ms[n] EXCEPT !.Online = TRUE]
    BY <1>4 DEF podsToMemberSet, Reconcile
  <2>3. [ms[n] EXCEPT !.Online = TRUE].AppFailed = ms[n].AppFailed  BY <2>1 DEF Member
  <2> QED  BY <2>2, <2>3
<1> HIDE DEF rs
<1>5. Failed(rs) \subseteq Failed(ms)  BY <1>1, <1>2, <1>3, <1>4 DEF Failed
<1> QED  BY <1>5 DEF rs

\* A start command changes one application, and makes a primary of it only if it
\* succeeds, is not the secondary command, and the Pod is there.
LEMMA StartCallHealth ==
    ASSUME ReliableCalls, EnvInv, NEW n \in Pods, NEW command, NEW known, NEW ok \in BOOLEAN,
           StartCall(n, command, known, ok)
    PROVE  /\ pod' = pod /\ \A p \in Pods \ {n} : app'[p] = app[p]
           /\ app'[n] = "primary" => ok /\ command # "secondary" /\ pod[n] # "absent"
<1>1. app \in [Pods -> AppStates] /\ (~Alive(n) => app[n] # "primary")
  BY DEF EnvInv, EnvTypeOK, AppsSettled
<1>2. pod' = pod  BY DEF StartCall
<1>3. CASE Alive(n) /\ ok /\ \E g : AppBecomes(n, IF command = "secondary" THEN "secondary" ELSE "primary", g)
  BY <1>1, <1>2, <1>3 DEF AppBecomes, Alive
<1>4. CASE app' = app /\ app[n] # "primary"  BY <1>1, <1>2, <1>4
<1>5. CASE \E s \in FailedStartLeaves, g \in {NewLineage(n)} : AppBecomes(n, s, g)
  BY <1>1, <1>2, <1>5 DEF AppBecomes, ReliableCalls
<1>6. ~Fault("get")  BY DEF ReliableCalls, Fault
<1> QED  BY <1>1, <1>3, <1>4, <1>5, <1>6 DEF StartCall

\* A stop command changes one application, which is no primary afterwards.
LEMMA StopCallHealth ==
    ASSUME ReliableCalls, TrueAnswers, EnvInv, NEW n \in Pods, NEW ok \in BOOLEAN,
           StopCall(n, ok)
    PROVE  (\A p \in Pods \ {n} : app'[p] = app[p]) /\ app'[n] # "primary"
<1>1. app \in [Pods -> AppStates] /\ (~Alive(n) => app[n] # "primary")
  BY DEF EnvInv, EnvTypeOK, AppsSettled
<1>2. ~Fault("get") /\ ~Fault("stop")  BY DEF ReliableCalls, TrueAnswers, Fault
<1>3. CASE AppBecomes(n, "stopped", 0)  BY <1>1, <1>3 DEF AppBecomes
<1>4. CASE ~Alive(n) /\ app' = app  BY <1>1, <1>4
<1> QED  BY <1>2, <1>3, <1>4 DEF StopCall

\* Without faults an update of the label of a Pod that exists succeeds.
LEMMA TagHealth ==
    ASSUME EnvTypeOK, "tag" \notin Faults, NEW n \in Pods, NEW on \in BOOLEAN,
           tagAppMember(n, on)
    PROVE  /\ \A p \in Pods \ {n} : label'[p] = label[p]
           /\ label'[n] = IF pod[n] = "absent" THEN label[n] ELSE on
BY DEF EnvTypeOK, tagAppMember

\* The applications that failed, after a step that changes one record and one
\* application.
LEMMA FailedStep ==
    ASSUME LocalTypeOK, FailedTruly, NEW n \in DOMAIN peers, NEW r,
           peers' = [peers EXCEPT ![n] = r],
           \A p \in Pods \ {n} : app'[p] = app[p], r.AppFailed => app'[n] # "primary"
    PROVE  \A k \in Failed(peers') : app'[k] # "primary"
<1>1. Failed(peers') \ {n} = Failed(peers) \ {n} /\ (n \in Failed(peers') <=> r.AppFailed)
  BY ReplaceRecord
<1>2. Failed(peers) \subseteq Pods  BY DEF Failed, LocalTypeOK, IsMemberSet
<1> QED  BY <1>1, <1>2 DEF FailedTruly

\* The operator knows no more primaries than members that run.
LEMMA PrimariesAreMembers ==
    ASSUME LocalTypeOK
    PROVE  /\ AppPrimaries(peers) <= AppMembers(peers)
           /\ AppPrimaries(peers) \in Nat /\ AppMembers(peers) \in Nat
<1> DEFINE R == {n \in DOMAIN peers : peers[n].Online /\ peers[n].AppRunning}
<1>1. R \subseteq Pods  BY DEF LocalTypeOK, IsMemberSet
<1>2. IsFiniteSet(R)  BY <1>1, FS_Subset, EnvironmentAssumption
<1>3. AppMembers(peers) = Cardinality(R)  BY DEF AppMembers
<1>4. PrimariesOf(peers) \subseteq R  BY DEF PrimariesOf
<1> HIDE DEF R
<1>5. Cardinality(PrimariesOf(peers)) <= Cardinality(R)  BY <1>2, <1>4, FS_Subset
<1> QED  BY <1>2, <1>3, <1>5, PrimariesCount, FS_CardinalityType DEF AppPrimaries


\* Steps that change neither Pods, applications nor records, and start no stage.
LEMMA QuietHealth ==
    ASSUME HealthInv, UNCHANGED <<env, peers>>,
           pc' \in {"recover", "cleanup"} => todo' \subseteq Failed(peers),
           pc' \in {"primaries", "demote", "secondaries"} => LivePrimaries \subseteq PrimariesOf(peers)
    PROVE  HealthInv'
<1>1. UNCHANGED <<app, label>>  BY DEF env, world
<1> QED  BY <1>1 DEF HealthInv, FailedTruly, AllKnown, LiveLabelled, LivePrimaries

\* reconcile() begins.
LEMMA StartReconcileHealth ==
    ASSUME OneLineageInv, HealthInv, NEW names \in SUBSET Pods, NEW retry,
           StartReconcile(names, retry), UNCHANGED env
    PROVE  HealthInv'
<1>1. IsMemberSet(peers, Pods)  BY InvParts DEF LocalTypeOK
<1>2. Failed(peers') \subseteq Failed(peers) /\ pc' = "check"
  BY <1>1, ReconcileFailed DEF StartReconcile, Visit
<1>3. UNCHANGED <<app, label>>  BY DEF env, world
<1> QED  BY <1>2, <1>3 DEF HealthInv, FailedTruly, AllKnown, LiveLabelled, LivePrimaries

\* replicate() gives up.
LEMMA GiveUpHealth ==
    ASSUME OneLineageInv, HealthInv, GiveUp, UNCHANGED env
    PROVE  HealthInv'
BY InvParts, StartReconcileHealth DEF GiveUp, LocalTypeOK

\* The timer fires.
LEMMA PollPodsHealth ==
    ASSUME OneLineageInv, HealthInv, PollPods
    PROVE  HealthInv'
<1> DEFINE names == {p \in Pods : Alive(p)}
<1>1. UNCHANGED env  BY DEF PollPods
<1>2. CASE StartReconcile(names, FALSE)  BY <1>1, <1>2, StartReconcileHealth
<1>3. CASE /\ peers' = IF Replicas = 0 THEN NoMembers ELSE Reconcile(peers, NoMembers)
           /\ UNCHANGED <<pc, local>>
  <2>1. pc' = "idle" /\ UNCHANGED <<app, label>>
    BY <1>1, <1>3 DEF PollPods, env, world
  <2>2. Failed(peers') \subseteq Failed(peers)
    <3>1. podsToMemberSet({}) = NoMembers  BY DEF podsToMemberSet, NoMembers
    <3>2. IsMemberSet(peers, Pods)  BY InvParts DEF LocalTypeOK
    <3>3. Failed(Reconcile(peers, NoMembers)) \subseteq Failed(peers)
      BY <3>1, <3>2, ReconcileFailed
    <3>4. Failed(NoMembers) = {}  BY DEF Failed, NoMembers
    <3> QED  BY <1>3, <3>3, <3>4
  <2> QED  BY <2>1, <2>2 DEF HealthInv, FailedTruly, AllKnown, LiveLabelled, LivePrimaries
<1> QED  BY <1>2, <1>3 DEF PollPods

\* The status command: a member is taken for failed only if its application is not
\* a live primary, and only then loses its label.
LEMMA CheckMemberHealth ==
    ASSUME ReliableCalls, TrueAnswers, OneLineageInv, HealthInv, NEW n \in Pods, CheckMember(n)
    PROVE  HealthInv'
<1> USE InvParts
<1>1. PICK code \in {0, 1, 7, 8} :
         /\ StatusCall(n, code)
         /\ peers' = [peers EXCEPT ![n] = Checked(peers[n], Remap(code))]
         /\ IF peers'[n].AppFailed THEN tagAppMember(n, FALSE) ELSE UNCHANGED label
  BY DEF CheckMember
<1>2. pc' = "check" /\ n \in todo  BY DEF CheckMember
<1>3. n \in DOMAIN peers /\ peers[n] \in Member  BY <1>2, OnlineRecord DEF VisitsOnline
<1>4. app' = app /\ EnvTypeOK  BY <1>1 DEF StatusCall, EnvInv
<1> DEFINE r == Checked(peers[n], Remap(code))
<1>5. r.AppFailed => app[n] # "primary"
  <2> SUFFICES ASSUME r.AppFailed, app[n] = "primary" PROVE FALSE
    OBVIOUS
  <2>1. Alive(n) /\ ~Fault("status") /\ ~Fault("get")
    BY DEF EnvInv, AppsSettled, TrueAnswers, ReliableCalls, Fault
  <2>2. code = 8
    BY <1>1, <2>1 DEF StatusCall, StatusCode, Alive
  <2>3. Checked(peers[n], 8).AppFailed = peers[n].AppFailed
    <3>1. Checked(peers[n], 8) = [peers[n] EXCEPT !.AppRunning = TRUE, !.AppPrimary = TRUE]
      BY SMT DEF Checked
    <3> QED  BY <1>3, <3>1 DEF Member
  <2>4. n \in Failed(peers)  BY <1>3, <2>2, <2>3 DEF Remap, Failed
  <2> QED  BY <2>4 DEF HealthInv, FailedTruly
<1>6. peers'[n] = r  BY <1>1, <1>3 DEF LocalTypeOK, IsMemberSet
<1>7. peers' = [peers EXCEPT ![n] = r]  BY <1>1
<1> HIDE DEF r
<1>8. \A k \in Failed(peers') : app'[k] # "primary"
  BY <1>3, <1>4, <1>5, <1>7, FailedStep DEF HealthInv
<1>9. LiveLabelled'
  <2> SUFFICES ASSUME "tag" \notin Faults, NEW p \in Pods, app'[p] = "primary" PROVE label'[p]
    BY DEF LiveLabelled, LivePrimaries
  <2>1. label[p]  BY <1>4 DEF HealthInv, LiveLabelled, LivePrimaries
  <2>2. CASE r.AppFailed
    BY <1>1, <1>4, <1>5, <1>6, <2>1, <2>2, TagHealth
  <2>3. CASE ~r.AppFailed  BY <1>1, <1>6, <2>1, <2>3
  <2> QED  BY <2>2, <2>3
<1> QED  BY <1>2, <1>8, <1>9 DEF HealthInv, FailedTruly, AllKnown

\* recover() on one member: neither it nor any other is a live primary that is
\* stopped, deleted or loses its label.
LEMMA RecoverMemberHealth ==
    ASSUME ReliableCalls, TrueAnswers, OneLineageInv, HealthInv, NEW n \in Pods, RecoverMember(n)
    PROVE  /\ HealthInv'
           /\ app[n] # "primary" /\ \A p \in Pods \ {n} : app'[p] = app[p] /\ pod'[p] = pod[p]
<1> USE InvParts
<1>1. /\ pc \in {"recover", "cleanup"} /\ pc' = pc /\ n \in todo /\ todo' = todo \ {n}
      /\ tagAppMember(n, FALSE)
  BY DEF RecoverMember
<1>2. n \in DOMAIN peers /\ peers[n] \in Member /\ Consistent(peers[n]) /\ peers[n].Online
  BY <1>1, OnlineRecord DEF VisitsOnline
<1>3. todo \subseteq Failed(peers) /\ app[n] # "primary"
  BY <1>1 DEF HealthInv, FailedTruly
<1>4. (\A p \in Pods \ {n} : app'[p] = app[p]) /\ app'[n] # "primary"
  <2>1. CASE UNCHANGED app  BY <1>3, <2>1
  <2>2. ASSUME NEW ok \in BOOLEAN, StopCall(n, ok)
        PROVE  (\A p \in Pods \ {n} : app'[p] = app[p]) /\ app'[n] # "primary"
    BY <2>2, StopCallHealth
  <2> QED  BY <2>1, <2>2 DEF RecoverMember
<1>5. \A p \in Pods \ {n} : pod'[p] = pod[p]
  BY DEF RecoverMember, deleteMember, DeleteCall, EnvInv, EnvTypeOK
<1>6. PICK r \in {Stopped(peers[n]), peers[n], Offline(peers[n]), Failing(peers[n]),
                  Offline(Failing(peers[n]))} : peers' = [peers EXCEPT ![n] = r]
  BY DEF RecoverMember, deleteMember
<1>7. \A k \in Failed(peers') : app'[k] # "primary"
  BY <1>2, <1>4, <1>6, FailedStep DEF HealthInv
<1>8. todo' \subseteq Failed(peers')
  BY <1>1, <1>2, <1>3, <1>6, ReplaceRecord
<1>9. LiveLabelled'
  <2> SUFFICES ASSUME "tag" \notin Faults, NEW p \in Pods, app'[p] = "primary" PROVE label'[p]
    BY DEF LiveLabelled, LivePrimaries
  <2>1. p # n /\ app[p] = "primary"  BY <1>4
  <2>2. label[p]  BY <2>1 DEF HealthInv, LiveLabelled, LivePrimaries
  <2> QED  BY <1>1, <2>1, <2>2, TagHealth DEF EnvInv
<1>10. HealthInv'  BY <1>1, <1>7, <1>8, <1>9 DEF HealthInv, FailedTruly, AllKnown
<1> QED  BY <1>3, <1>4, <1>5, <1>10


\* The status loop ends, and reconcile() does.
LEMMA CheckDoneHealth ==
    ASSUME OneLineageInv, HealthInv, CheckDone \/ ReconcileDone
    PROVE  HealthInv'
<1>1. UNCHANGED <<env, peers>>  BY DEF CheckDone, ReconcileDone
<1>2. CASE CheckDone
  <2>1. pc' = "recover" /\ todo' = Recoverable(peers)  BY <1>2 DEF CheckDone, Visit
  <2>2. Recoverable(peers) \subseteq Failed(peers)  BY DEF Recoverable
  <2> QED  BY <1>1, <2>1, <2>2, QuietHealth
<1>3. CASE ReconcileDone
  <2>1. pc' \in {"idle", "replicate"}  BY <1>3 DEF ReconcileDone, Idle, Visit
  <2> QED  BY <1>1, <2>1, QuietHealth
<1> QED  BY <1>2, <1>3

\* replicate() up to the choice of seeds.
LEMMA ReplicateHealth ==
    ASSUME OneLineageInv, HealthInv, Replicate \/ ChooseSeeds \/ SeedsExhausted
    PROVE  HealthInv'
<1>1. UNCHANGED env  BY DEF Replicate, ChooseSeeds, SeedsExhausted
<1>2. CASE GiveUp  BY <1>1, <1>2, GiveUpHealth
<1>3. CASE pc' \in {"detect", "seed"} /\ UNCHANGED peers  BY <1>1, <1>3, QuietHealth
<1> QED  BY <1>2, <1>3 DEF Replicate, ChooseSeeds, SeedsExhausted, Visit

\* A sequence number says nothing of failures.
LEMMA DetectMemberHealth ==
    ASSUME OneLineageInv, HealthInv, NEW n \in Pods, DetectMember(n)
    PROVE  HealthInv'
<1> USE InvParts
<1>1. PICK seq \in {peers[n].SEQ, data[n], 0} : peers' = [peers EXCEPT ![n].SEQ = seq]
  BY DEF DetectMember
<1>2. pc' = "detect" /\ n \in todo /\ UNCHANGED <<app, label>>
  BY DEF DetectMember, SequenceCall, world
<1>3. n \in DOMAIN peers /\ peers[n] \in Member  BY <1>2, OnlineRecord DEF VisitsOnline
<1> DEFINE r == [peers[n] EXCEPT !.SEQ = seq]
<1>4. r.AppFailed = peers[n].AppFailed  BY <1>3 DEF Member
<1>5. peers' = [peers EXCEPT ![n] = r]  BY <1>1
<1>6. r.AppFailed => app'[n] # "primary"
  BY <1>2, <1>3, <1>4 DEF HealthInv, FailedTruly, Failed
<1> HIDE DEF r
<1>7. \A k \in Failed(peers') : app'[k] # "primary"
  BY <1>2, <1>3, <1>5, <1>6, FailedStep DEF HealthInv
<1> QED  BY <1>2, <1>7 DEF HealthInv, FailedTruly, AllKnown, LiveLabelled, LivePrimaries

\* Past the sequence numbers every live primary is known: reconcile() saw to that.
LEMMA DetectDoneHealth ==
    ASSUME OneLineageInv, HealthInv, DetectDone
    PROVE  HealthInv'
<1>1. /\ pc = "detect" /\ UNCHANGED <<env, peers>> /\ pc' \in {"choose", "primaries"}
  BY DEF DetectDone
<1>2. LivePrimaries \subseteq PrimariesOf(peers)  BY <1>1, InvParts DEF Covered
<1> QED  BY <1>1, <1>2, QuietHealth

\* startAppMember on a member that is not a live primary: one that becomes a live
\* primary is known as one and has its label.
LEMMA StartMemberHealth ==
    ASSUME ReliableCalls, OneLineageInv, HealthInv, NEW n \in Online(peers),
           NEW asPrimary \in BOOLEAN, NEW ok \in BOOLEAN, startAppMember(n, asPrimary, ok),
           asPrimary \/ HasSecondary, LivePrimaries \subseteq PrimariesOf(peers),
           n \notin PrimariesOf(peers)
    PROVE  /\ \A k \in Failed(peers') : app'[k] # "primary"
           /\ LivePrimaries' \subseteq PrimariesOf(peers')
           /\ LiveLabelled'
           /\ pod' = pod /\ \A p \in LivePrimaries : app'[p] = "primary"
<1> USE InvParts
<1>1. n \in DOMAIN peers /\ n \in Pods /\ peers[n] \in Member /\ Consistent(peers[n]) /\ peers[n].Online
  BY OnlineRecord
<1> DEFINE command == startCommand(asPrimary, AppPrimaries(peers))
           r == IF ok THEN Started(peers[n], asPrimary) ELSE Failing(peers[n])
<1>2. /\ StartCall(n, command, appendPrimaries(peers), ok)
      /\ peers' = [peers EXCEPT ![n] = r]
      /\ (ok => tagAppMember(n, TRUE)) /\ (~ok => label' = label)
  BY DEF startAppMember
<1>3. ~asPrimary => command = "secondary"  BY DEF startCommand
<1> HIDE DEF command
<1>4. /\ pod' = pod /\ \A p \in Pods \ {n} : app'[p] = app[p]
      /\ app'[n] = "primary" => ok /\ asPrimary /\ pod[n] # "absent"
  BY <1>1, <1>2, <1>3, StartCallHealth
<1>5. ok /\ asPrimary => ~r.AppFailed /\ r.Online /\ r.AppPrimary /\ r.AppRunning
  <2>1. ok /\ asPrimary => ~r.AppFailed  BY <1>1 DEF Started, Member
  <2> QED  BY <1>1, <2>1, StartedRecord
<1> HIDE DEF r
<1>6. \A k \in Failed(peers') : app'[k] # "primary"
  BY <1>1, <1>2, <1>4, <1>5, FailedStep DEF HealthInv
<1>7. LivePrimaries' \subseteq PrimariesOf(peers')
  <2>1. /\ PrimariesOf(peers') \ {n} = PrimariesOf(peers) \ {n}
        /\ n \in PrimariesOf(peers') <=> r.Online /\ r.AppPrimary /\ r.AppRunning
    BY <1>1, <1>2, ReplaceRecord
  <2> QED  BY <1>4, <1>5, <2>1 DEF LivePrimaries
<1>8. LiveLabelled'
  <2> SUFFICES ASSUME "tag" \notin Faults, NEW p \in Pods, app'[p] = "primary" PROVE label'[p]
    BY DEF LiveLabelled, LivePrimaries
  <2>1. CASE p = n
    <3>1. ok /\ pod[n] # "absent"  BY <1>4, <2>1
    <3> QED  BY <1>1, <1>2, <2>1, <3>1, TagHealth DEF EnvInv
  <2>2. CASE p # n
    <3>1. label[p]  BY <1>4, <2>2 DEF HealthInv, LiveLabelled, LivePrimaries
    <3>2. CASE ok  BY <1>1, <1>2, <2>2, <3>1, <3>2, TagHealth DEF EnvInv
    <3>3. CASE ~ok  BY <1>2, <3>1, <3>3
    <3> QED  BY <3>2, <3>3
  <2> QED  BY <2>1, <2>2
<1>9. \A p \in LivePrimaries : app'[p] = "primary"
  BY <1>4 DEF LivePrimaries
<1> QED  BY <1>4, <1>6, <1>7, <1>8, <1>9

\* Seeds are tried while no primary is live.
LEMMA SeedMemberHealth ==
    ASSUME ReliableCalls, OneLineageInv, HealthInv, SeedMember
    PROVE  HealthInv' /\ LivePrimaries = {}
<1> USE InvParts
<1> DEFINE n == Head(seeds)
<1>1. PICK ok \in BOOLEAN : startAppMember(n, TRUE, ok)  BY DEF SeedMember
<1>2. /\ pc = "seed" /\ seeds # <<>> /\ pc' \in {"primaries", "seed"}
  BY DEF SeedMember
<1>3. n \in Online(peers)  BY <1>2, HeadTailProperties DEF VisitsOnline
<1>4. LivePrimaries = {} /\ PrimariesOf(peers) = {}  BY <1>2 DEF Joinable
<1> HIDE DEF n
<1>5. /\ \A k \in Failed(peers') : app'[k] # "primary"
      /\ LivePrimaries' \subseteq PrimariesOf(peers')
      /\ LiveLabelled'
  BY <1>1, <1>3, <1>4, StartMemberHealth
<1> QED  BY <1>2, <1>4, <1>5 DEF HealthInv, FailedTruly, AllKnown


\* The stages that start members only pick members that are not live primaries.
LEMMA StartStageHealth ==
    ASSUME ReliableCalls, TrueAnswers, OneLineageInv, EnoughKnown, HealthInv,
           StartPrimary \/ StartSecondary
    PROVE  HealthInv' /\ pod' = pod /\ \A p \in LivePrimaries : app'[p] = "primary"
<1> USE InvParts
<1>1. PICK n \in chooseMember(peers), ok \in BOOLEAN, asPrimary \in BOOLEAN :
         /\ startAppMember(n, asPrimary, ok)
         /\ asPrimary <=> pc = "primaries"
  BY DEF StartPrimary, StartSecondary
<1>2. /\ pc \in {"primaries", "secondaries"} /\ pc' = pc
      /\ pc = "secondaries" => AppMembers(peers) < Replicas
  BY DEF StartPrimary, StartSecondary
<1>3. n \in Online(peers) /\ ~peers[n].AppPrimary
  BY ChosenIsCandidate DEF Candidates, Online
<1>4. LivePrimaries \subseteq PrimariesOf(peers) /\ n \notin PrimariesOf(peers)
  BY <1>2, <1>3 DEF HealthInv, AllKnown, PrimariesOf
<1>5. asPrimary \/ HasSecondary
  <2> SUFFICES ASSUME ~asPrimary, ~HasSecondary PROVE FALSE
    OBVIOUS
  <2>1. pc = "secondaries" /\ Primaries >= Replicas  BY <1>1, <1>2 DEF TrueAnswers
  <2>2. AppPrimaries(peers) >= Primaries  BY <2>1 DEF EnoughKnown
  <2>3. Primaries \in Nat /\ Replicas \in Nat
    BY EnvironmentAssumption DEF NumReplicas
  <2> QED  BY <1>2, <2>1, <2>2, <2>3, PrimariesAreMembers, SMT
<1>6. /\ \A k \in Failed(peers') : app'[k] # "primary"
      /\ LivePrimaries' \subseteq PrimariesOf(peers')
      /\ LiveLabelled'
      /\ pod' = pod /\ \A p \in LivePrimaries : app'[p] = "primary"
  BY <1>1, <1>3, <1>4, <1>5, StartMemberHealth
<1> QED  BY <1>2, <1>6 DEF HealthInv, FailedTruly, AllKnown

\* Demotion: who is stopped is no primary afterwards.
LEMMA DemotePrimaryHealth ==
    ASSUME ReliableCalls, TrueAnswers, OneLineageInv, HealthInv, DemotePrimary
    PROVE  HealthInv'
<1> USE InvParts
<1>1. PICK n \in chooseCurrentPrimary(peers), ok \in BOOLEAN : stopAppMember(n, ok)
  BY DEF DemotePrimary
<1>2. pc = "demote" /\ pc' = pc  BY DEF DemotePrimary
<1>3. n \in DOMAIN peers /\ n \in Pods
  BY <1>1 DEF chooseCurrentPrimary, LocalTypeOK, IsMemberSet
<1> DEFINE r == IF ok THEN Stopped(peers[n]) ELSE Failing(peers[n])
<1>4. peers' = [peers EXCEPT ![n] = r] /\ StopCall(n, ok) /\ tagAppMember(n, FALSE)
  BY <1>1 DEF stopAppMember
<1> HIDE DEF r
<1>5. (\A p \in Pods \ {n} : app'[p] = app[p]) /\ app'[n] # "primary"
  BY <1>3, <1>4, StopCallHealth
<1>6. \A k \in Failed(peers') : app'[k] # "primary"
  BY <1>3, <1>4, <1>5, FailedStep DEF HealthInv
<1>7. PrimariesOf(peers') \ {n} = PrimariesOf(peers) \ {n}  BY <1>3, <1>4, ReplaceRecord
<1>8. LivePrimaries' \subseteq PrimariesOf(peers')
  <2>1. LivePrimaries \subseteq PrimariesOf(peers)  BY <1>2 DEF HealthInv, AllKnown
  <2> QED  BY <1>5, <1>7, <2>1 DEF LivePrimaries
<1>9. LiveLabelled'
  <2> SUFFICES ASSUME "tag" \notin Faults, NEW p \in Pods, app'[p] = "primary" PROVE label'[p]
    BY DEF LiveLabelled, LivePrimaries
  <2>1. p # n /\ app[p] = "primary"  BY <1>5
  <2>2. label[p]  BY <2>1 DEF HealthInv, LiveLabelled, LivePrimaries
  <2> QED  BY <1>3, <1>4, <2>1, <2>2, TagHealth DEF EnvInv
<1> QED  BY <1>2, <1>6, <1>8, <1>9 DEF HealthInv, FailedTruly, AllKnown

\* A stage ends, or replicate() does.
LEMMA StagesDoneHealth ==
    ASSUME OneLineageInv, HealthInv,
           PrimariesDone \/ DemoteDone \/ SecondariesDone \/ CleanupDone
    PROVE  HealthInv'
<1>1. UNCHANGED env  BY DEF PrimariesDone, DemoteDone, SecondariesDone, LeaveStage, CleanupDone
<1>2. CASE GiveUp  BY <1>1, <1>2, GiveUpHealth
<1>3. CASE pc' = "idle" /\ UNCHANGED peers  BY <1>1, <1>3, QuietHealth
<1>4. CASE pc' = "cleanup" /\ todo' = Recoverable(peers) /\ UNCHANGED peers
  <2>1. Recoverable(peers) \subseteq Failed(peers)  BY DEF Recoverable
  <2> QED  BY <1>1, <1>4, <2>1, QuietHealth
<1>5. CASE pc \in {"primaries", "demote"} /\ pc' \in {"demote", "secondaries"} /\ UNCHANGED peers
  BY <1>1, <1>5, QuietHealth DEF HealthInv, AllKnown
<1> QED
  BY <1>2, <1>3, <1>4, <1>5
     DEF PrimariesDone, DemoteDone, SecondariesDone, LeaveStage, Finish, CleanupDone, Idle, Visit


\* On its own the outside world takes a label away only with the Pod.
LEMMA OutsideHealth ==
    ASSUME OneLineageInv, HealthInv, EnvStep, UNCHANGED <<pc, peers, local>>
    PROVE  HealthInv'
<1> USE InvParts
<1>1. LivePrimaries' \subseteq LivePrimaries  BY EnvStepEnv
<1>2. \A p \in Pods : app'[p] = "primary" => label'[p] = label[p]
  <2>1. CASE UNCHANGED label  BY <2>1
  <2>2. ASSUME NEW q \in Pods, Vanish(q)
        PROVE  \A p \in Pods : app'[p] = "primary" => label'[p] = label[p]
    BY <2>2 DEF Vanish, AppBecomes, EnvInv, EnvTypeOK
  <2> QED
    BY <2>1, <2>2
       DEF EnvStep, KubernetesStep, FaultStep, PodGone, PodCreated, PodRuns, StartFinishes,
           AppStops, AppBreaks, AppDemoted, PodDies, Write
<1>3. FailedTruly'
  <2>1. Failed(peers) \subseteq Pods  BY DEF Failed, LocalTypeOK, IsMemberSet
  <2> QED  BY <1>1, <2>1 DEF local, HealthInv, FailedTruly, LivePrimaries
<1>4. AllKnown'  BY <1>1 DEF HealthInv, AllKnown
<1>5. LiveLabelled'  BY <1>1, <1>2 DEF HealthInv, LiveLabelled, LivePrimaries
<1> QED  BY <1>3, <1>4, <1>5 DEF HealthInv

\* Every step preserves the invariant.
LEMMA NextHealth ==
    ASSUME ReliableCalls, TrueAnswers, OneLineageInv, EnoughKnown, HealthInv, [Next]_vars
    PROVE  HealthInv'
<1>1. CASE OperatorStep
  <2>1. CASE PollPods  BY <2>1, PollPodsHealth
  <2>2. CASE CheckDone \/ ReconcileDone  BY <2>2, CheckDoneHealth
  <2>3. CASE Replicate \/ ChooseSeeds \/ SeedsExhausted  BY <2>3, ReplicateHealth
  <2>4. CASE DetectDone  BY <2>4, DetectDoneHealth
  <2>5. CASE SeedMember  BY <2>5, SeedMemberHealth
  <2>6. CASE StartPrimary \/ StartSecondary  BY <2>6, StartStageHealth
  <2>7. CASE DemotePrimary  BY <2>7, DemotePrimaryHealth
  <2>8. CASE PrimariesDone \/ DemoteDone \/ SecondariesDone \/ CleanupDone
    BY <2>8, StagesDoneHealth
  <2>9. ASSUME NEW n \in Pods, CheckMember(n) PROVE HealthInv'  BY <2>9, CheckMemberHealth
  <2>10. ASSUME NEW n \in Pods, RecoverMember(n) PROVE HealthInv'  BY <2>10, RecoverMemberHealth
  <2>11. ASSUME NEW n \in Pods, DetectMember(n) PROVE HealthInv'  BY <2>11, DetectMemberHealth
  <2> QED
    BY <1>1, <2>1, <2>2, <2>3, <2>4, <2>5, <2>6, <2>7, <2>8, <2>9, <2>10, <2>11 DEF OperatorStep
<1>2. CASE OperatorRestarts
  <2>1. pc' = "idle" /\ peers' = NoMembers /\ UNCHANGED <<app, label>>
    BY <1>2 DEF OperatorRestarts, Idle, Visit, world
  <2>2. Failed(peers') = {}  BY <2>1 DEF Failed, NoMembers
  <2> QED  BY <2>1, <2>2 DEF HealthInv, FailedTruly, AllKnown, LiveLabelled, LivePrimaries
<1>3. CASE Outside(EnvStep)  BY <1>3, OutsideHealth DEF Outside
<1>4. CASE UNCHANGED vars
  <2>1. UNCHANGED <<env, peers, pc, todo>>  BY <1>4 DEF vars, local
  <2> QED  BY <2>1, QuietHealth DEF HealthInv, FailedTruly, AllKnown
<1> QED  BY <1>1, <1>2, <1>3, <1>4 DEF Next

\* The operator finds the labels as an earlier one left them.
LEMMA InitHealth == Init => HealthInv
<1> SUFFICES ASSUME Init PROVE HealthInv
  OBVIOUS
<1>1. pc = "idle" /\ Failed(peers) = {}  BY DEF Init, NoMembers, Failed
<1>2. LiveLabelled  BY DEF Init, EnvInit, LiveLabelled, LivePrimaries
<1> QED  BY <1>1, <1>2 DEF HealthInv, FailedTruly, AllKnown

\* The invariants hold together.
LEMMA HealthInvAlways ==
    ASSUME ReliableCalls, TrueAnswers
    PROVE  Spec => [](OneLineageInv /\ EnoughKnown /\ HealthInv)
<1>1. Init => HealthInv  BY InitHealth
<1>2. OneLineageInv /\ EnoughKnown /\ HealthInv /\ [Next]_vars => HealthInv'  BY NextHealth
<1> QED  BY <1>1, <1>2, EnoughKnownAlways, PTL DEF Spec

\* For any cluster, and whatever dies, stops or breaks meanwhile: outside of a
\* demotion no step of the operator stops, breaks or demotes a live primary or
\* deletes its Pod (recover(), startAppMember), as long as status and stop
\* commands do not fail for other reasons.
THEOREM HealthyLeftAloneAlways ==
    ASSUME ReliableCalls, TrueAnswers
    PROVE  Spec => HealthyLeftAlone
<1> DEFINE Kept == \A p \in Pods :
                     OperatorStep /\ app[p] = "primary" =>
                        pc = "demote" \/ (app'[p] = "primary" /\ pod'[p] = pod[p])
<1>1. OneLineageInv /\ EnoughKnown /\ HealthInv /\ [Next]_vars => [Kept]_vars
  <2> SUFFICES ASSUME OneLineageInv, EnoughKnown, HealthInv, OperatorStep, pc # "demote",
                      NEW p \in Pods, app[p] = "primary"
               PROVE  app'[p] = "primary" /\ pod'[p] = pod[p]
    OBVIOUS
  <2>1. CASE UNCHANGED <<app, pod>>  BY <2>1
  <2>2. ASSUME NEW n \in Pods, RecoverMember(n)
        PROVE  app'[p] = "primary" /\ pod'[p] = pod[p]
    BY <2>2, RecoverMemberHealth
  <2>3. CASE SeedMember  BY <2>3, SeedMemberHealth DEF LivePrimaries
  <2>4. CASE StartPrimary \/ StartSecondary  BY <2>4, StartStageHealth DEF LivePrimaries
  <2>5. ASSUME NEW n \in Pods, CheckMember(n) \/ DetectMember(n) PROVE UNCHANGED <<app, pod>>
    BY <2>5 DEF CheckMember, StatusCall, DetectMember, SequenceCall, world
  <2>6. ASSUME \/ PollPods \/ CheckDone \/ ReconcileDone \/ Replicate \/ DetectDone
               \/ ChooseSeeds \/ SeedsExhausted \/ PrimariesDone \/ DemoteDone
               \/ SecondariesDone \/ CleanupDone
        PROVE  UNCHANGED <<app, pod>>
    BY <2>6 DEF PollPods, CheckDone, ReconcileDone, Replicate, DetectDone, ChooseSeeds,
       SeedsExhausted, PrimariesDone, DemoteDone, SecondariesDone, LeaveStage, CleanupDone,
       env, world
  <2>7. ~DemotePrimary  BY DEF DemotePrimary
  <2> QED  BY <2>1, <2>2, <2>3, <2>4, <2>5, <2>6, <2>7 DEF OperatorStep
<1> QED  BY <1>1, HealthInvAlways, PTL DEF Spec, HealthyLeftAlone

\* For any cluster: a live primary carries the label that client services select,
\* as long as no update of a label fails (startAppMember, tagAppMember).
THEOREM PrimariesLabelledAlways ==
    ASSUME ReliableCalls, TrueAnswers, "tag" \notin Faults
    PROVE  Spec => []PrimariesLabelled
<1>1. HealthInv => PrimariesLabelled  BY DEF HealthInv, LiveLabelled, PrimariesLabelled
<1> QED  BY <1>1, HealthInvAlways, PTL
============================================================================
