---------------------------- MODULE StatusProofs ----------------------------
(***************************************************************************)
(* Proofs about Status, for any Pods, sizes, capacity of the watch, and any *)
(* number of changes and failed calls.                                     *)
(***************************************************************************)
EXTENDS Status, FiniteSetTheorems, SequenceTheorems, TLAPS

\* Slices as the goroutine has them.
Sound(s) == s \in Slices /\ s.len <= Len(s.array) /\ s.rssLen <= Len(s.array)

\* No two conditions in use have the same type.
Distinct(s) == \A i, j \in 1..s.len : s.array[i].type = s.array[j].type => i = j

\* A setter that turns s into r does not touch what c.rss has of its own.
Keeps(s, r) == ~s.shared => ~r.shared /\ r.own = s.own

\* What the conditions of c.status are.
LEMMA InStatusType ==
    ASSUME NEW s, Sound(s)
    PROVE  /\ InStatus(s) \in Seq(Conditions) /\ Len(InStatus(s)) = s.len
           /\ \A i \in 1..s.len : InStatus(s)[i] = s.array[i] /\ s.array[i] \in Conditions
<1>1. s.array \in Seq(Conditions) /\ s.len \in 0..Len(s.array)  BY DEF Sound, Slices
<1> QED  BY <1>1 DEF InStatus

\* getClusterCondition finds the only condition of a type, if there is one.
LEMMA FoundType ==
    ASSUME NEW s, Sound(s), Distinct(s), NEW t
    PROVE  LET pos == getClusterCondition(s, t)
           IN  \/ pos = 0 /\ \A i \in 1..s.len : s.array[i].type # t
               \/ pos \in 1..s.len /\ s.array[pos].type = t
<1> DEFINE found == {i \in 1..s.len : s.array[i].type = t}
<1>1. s.len \in Nat  BY DEF Sound, Slices
<1>2. CASE found = {}
  BY <1>2 DEF getClusterCondition
<1>3. CASE found # {}
  <2>1. PICK k \in found : TRUE  BY <1>3
  <2>2. \A j \in found : j = k  BY <2>1 DEF Distinct
  <2>3. \A j \in found : k <= j  BY <1>1, <2>2
  <2>4. getClusterCondition(s, t) \in found  BY <1>3, <2>1, <2>3 DEF getClusterCondition
  <2> QED  BY <1>1, <2>4
<1> QED  BY <1>2, <1>3

\* Replacing a condition in place.
LEMMA ReplaceType ==
    ASSUME NEW s, Sound(s), NEW pos \in 1..s.len, NEW c \in Conditions
    PROVE  LET r == [s EXCEPT !.array[pos] = c]
           IN  /\ Sound(r) /\ Keeps(s, r) /\ r.len = s.len
               /\ \A i \in 1..s.len : r.array[i] = IF i = pos THEN c ELSE s.array[i]
<1> DEFINE a == [s.array EXCEPT ![pos] = c]
           r == [s EXCEPT !.array = a]
<1>1. s.array \in Seq(Conditions) /\ s.len \in 0..Len(s.array)  BY DEF Sound, Slices
<1>2. /\ a \in Seq(Conditions) /\ Len(a) = Len(s.array)
      /\ \A i \in 1..Len(s.array) : a[i] = IF i = pos THEN c ELSE s.array[i]
  <2> DEFINE e(i) == IF i = pos THEN c ELSE s.array[i]
  <2>1. s.array \in [1..Len(s.array) -> Conditions] /\ pos \in 1..Len(s.array)  BY <1>1
  <2>2. a = [i \in 1..Len(s.array) |-> e(i)]  BY <2>1, Zenon
  <2>3. \A i \in 1..Len(s.array) : e(i) \in Conditions  BY <2>1
  <2> HIDE DEF e, a
  <2>4. /\ a \in Seq(Conditions) /\ Len(a) = Len(s.array)
        /\ \A i \in 1..Len(s.array) : a[i] = e(i)
    BY <2>2, <2>3, <1>1
  <2> QED  BY <2>4 DEF e
<1> HIDE DEF a
<1>3. /\ r \in Slices /\ r.array = a /\ r.len = s.len /\ r.rssLen = s.rssLen
      /\ r.own = s.own /\ r.shared = s.shared
  BY <1>2 DEF Sound, Slices
<1>4. r = [s EXCEPT !.array[pos] = c]  BY DEF a
<1> HIDE DEF r
<1>5. Sound(r)  BY <1>2, <1>3 DEF Sound
<1> QED  BY <1>1, <1>2, <1>3, <1>4, <1>5 DEF Keeps

\* Another array with another number of conditions in use.
Resized(s, a, n) == [s EXCEPT !.array = a, !.len = n]

\* Nothing else of the slices changes with it.
LEMMA ResizeType ==
    ASSUME NEW s \in Slices, NEW a \in Seq(Conditions), NEW n \in Nat
    PROVE  LET r == Resized(s, a, n)
           IN  /\ r \in Slices /\ r.array = a /\ r.len = n /\ r.rssLen = s.rssLen
               /\ r.own = s.own /\ r.shared = s.shared
<1> DEFINE r1 == [s EXCEPT !.array = a]
           r  == [r1 EXCEPT !.len = n]
<1>1. /\ r1 \in Slices /\ r1.array = a /\ r1.rssLen = s.rssLen
      /\ r1.own = s.own /\ r1.shared = s.shared
  BY DEF Slices
<1>2. r = Resized(s, a, n)  BY DEF Resized
<1> HIDE DEF r1
<1>3. /\ r \in Slices /\ r.array = r1.array /\ r.len = n /\ r.rssLen = r1.rssLen
      /\ r.own = r1.own /\ r.shared = r1.shared
  BY <1>1 DEF Slices
<1> HIDE DEF r
<1> QED  BY <1>1, <1>2, <1>3

\* append: the new condition follows those in use, in the same array if there is
\* room behind them.
LEMMA AppendToType ==
    ASSUME NEW s, Sound(s), NEW c \in Conditions
    PROVE  LET r == AppendTo(s, c)
           IN  /\ Sound(r) /\ Keeps(s, r) /\ r.len = s.len + 1
               /\ \A i \in 1..r.len : r.array[i] = IF i = r.len THEN c ELSE s.array[i]
<1> DEFINE r == AppendTo(s, c)
<1>1. /\ s.array \in Seq(Conditions) /\ s.len \in 0..Len(s.array) /\ s \in Slices
      /\ s.own \in Seq(Conditions) /\ s.rssLen \in 0..Len(s.array) /\ s.shared \in BOOLEAN
  BY DEF Sound, Slices
<1>2. CASE s.len < Len(s.array)
  <2> DEFINE a == [s.array EXCEPT ![s.len + 1] = c]
  <2>1. /\ a \in Seq(Conditions) /\ Len(a) = Len(s.array)
        /\ \A i \in 1..Len(s.array) : a[i] = IF i = s.len + 1 THEN c ELSE s.array[i]
    <3> DEFINE k == s.len + 1
               e(i) == IF i = k THEN c ELSE s.array[i]
    <3>1. s.array \in [1..Len(s.array) -> Conditions] /\ k \in 1..Len(s.array)
      BY <1>1, <1>2
    <3> HIDE DEF k
    <3>2. [s.array EXCEPT ![k] = c] = [i \in 1..Len(s.array) |-> e(i)]  BY <3>1, Zenon
    <3>3. \A i \in 1..Len(s.array) : e(i) \in Conditions  BY <3>1
    <3>4. a = [i \in 1..Len(s.array) |-> e(i)]  BY <3>2 DEF k
    <3> HIDE DEF e, a
    <3>5. /\ a \in Seq(Conditions) /\ Len(a) = Len(s.array)
          /\ \A i \in 1..Len(s.array) : a[i] = e(i)
      BY <3>3, <3>4, <1>1
    <3> QED  BY <3>5 DEF e, k
  <2>2. r = Resized(s, a, s.len + 1)  BY <1>2 DEF AppendTo, Resized
  <2> HIDE DEF a, r
  <2>3. /\ r \in Slices /\ r.array = a /\ r.len = s.len + 1 /\ r.rssLen = s.rssLen
        /\ r.own = s.own /\ r.shared = s.shared
    <3>1. s.len + 1 \in Nat  BY <1>1
    <3> QED  BY <1>1, <2>1, <2>2, <3>1, ResizeType
  <2>4. Sound(r)  BY <1>1, <1>2, <2>1, <2>3 DEF Sound
  <2> QED  BY <1>1, <1>2, <2>1, <2>3, <2>4 DEF Keeps, r
<1>3. CASE ~(s.len < Len(s.array))
  <2> DEFINE n == IF s.len = 0 THEN 1 ELSE s.len
             b == [i \in 1..n |-> c]
             a == InStatus(s) \o b
             o == InRss(s)
             r1 == [s EXCEPT !.shared = FALSE, !.rssLen = 0, !.own = o]
  <2>1. /\ InStatus(s) \in Seq(Conditions) /\ Len(InStatus(s)) = s.len
        /\ \A i \in 1..s.len : InStatus(s)[i] = s.array[i]
    BY InStatusType
  <2>2. n \in Nat \ {0} /\ b \in Seq(Conditions) /\ Len(b) = n /\ b[1] = c
    <3>1. n \in Nat \ {0}  BY <1>1
    <3> HIDE DEF n
    <3> QED  BY <3>1
  <2>3. o \in Seq(Conditions) /\ (~s.shared => o = s.own)
    BY <1>1 DEF InRss
  <2>4. r = Resized(r1, a, r1.len + 1)
    BY <1>3 DEF AppendTo, Apart, Resized
  <2> HIDE DEF b, n, o
  <2>5. /\ a \in Seq(Conditions) /\ Len(a) = s.len + n
        /\ \A i \in 1..s.len : a[i] = s.array[i]
        /\ a[s.len + 1] = c
    <3>1. a \in Seq(Conditions) /\ Len(a) = s.len + n  BY <2>1, <2>2
    <3>2. \A i \in 1..s.len : a[i] = s.array[i]  BY <1>1, <2>1, <2>2
    <3>3. a[s.len + 1] = b[1]  BY <1>1, <2>1, <2>2
    <3> QED  BY <3>1, <3>2, <3>3, <2>2
  <2> HIDE DEF a, r
  <2>6. /\ r1 \in Slices /\ r1.len = s.len /\ r1.rssLen = 0 /\ r1.own = o /\ ~r1.shared
    BY <1>1, <2>3 DEF Slices
  <2> HIDE DEF r1
  <2>7. /\ r \in Slices /\ r.array = a /\ r.len = s.len + 1 /\ r.rssLen = 0
        /\ r.own = o /\ ~r.shared
    <3>1. s.len + 1 \in Nat  BY <1>1
    <3> QED  BY <2>4, <2>5, <2>6, <3>1, ResizeType
  <2>8. Sound(r)  BY <1>1, <2>2, <2>5, <2>7 DEF Sound
  <2>9. \A i \in 1..r.len : r.array[i] = IF i = r.len THEN c ELSE s.array[i]
    <3> TAKE i \in 1..r.len
    <3>1. i \in 1..s.len \/ i = s.len + 1  BY <1>1, <2>7
    <3> QED  BY <1>1, <2>5, <2>7, <3>1
  <2>10. Keeps(s, r)  BY <2>3, <2>7 DEF Keeps
  <2> QED  BY <2>7, <2>8, <2>9, <2>10 DEF r
<1> QED  BY <1>2, <1>3

\* setClusterCondition leaves one condition of each type, and adds c.
LEMMA SetType ==
    ASSUME NEW s, Sound(s), Distinct(s), NEW c \in Conditions
    PROVE  LET r == setClusterCondition(s, c)
           IN  Sound(r) /\ Distinct(r) /\ Keeps(s, r)
<1> DEFINE pos == getClusterCondition(s, c.type)
           r   == setClusterCondition(s, c)
<1>1. \/ pos = 0 /\ \A i \in 1..s.len : s.array[i].type # c.type
      \/ pos \in 1..s.len /\ s.array[pos].type = c.type
  BY FoundType
<1>2. s.len \in Nat  BY DEF Sound, Slices
<1>3. r = IF pos = 0 THEN AppendTo(s, c) ELSE [s EXCEPT !.array[pos] = c]
  BY DEF setClusterCondition
<1> HIDE DEF pos, r
<1>4. CASE pos = 0
  <2>1. /\ Sound(r) /\ Keeps(s, r) /\ r.len = s.len + 1
        /\ \A i \in 1..r.len : r.array[i] = IF i = r.len THEN c ELSE s.array[i]
    BY <1>3, <1>4, AppendToType
  <2>2. \A i \in 1..s.len : s.array[i].type # c.type  BY <1>1, <1>2, <1>4
  <2>3. Distinct(r)  BY <1>2, <2>1, <2>2 DEF Distinct
  <2> QED  BY <2>1, <2>3 DEF r
<1>5. CASE pos # 0
  <2>1. pos \in 1..s.len /\ s.array[pos].type = c.type  BY <1>1, <1>5
  <2>2. /\ Sound(r) /\ Keeps(s, r) /\ r.len = s.len
        /\ \A i \in 1..s.len : r.array[i] = IF i = pos THEN c ELSE s.array[i]
    BY <1>3, <1>5, <2>1, ReplaceType
  <2>3. \A i \in 1..s.len : r.array[i].type = s.array[i].type  BY <2>1, <2>2
  <2>4. Distinct(r)  BY <2>2, <2>3 DEF Distinct
  <2> QED  BY <2>2, <2>4 DEF r
<1> QED  BY <1>4, <1>5

\* ClearCondition closes the gap in place, so what is left keeps its types apart.
LEMMA ClearType ==
    ASSUME NEW s, Sound(s), Distinct(s), NEW t
    PROVE  LET r == ClearCondition(s, t)
           IN  Sound(r) /\ Distinct(r) /\ Keeps(s, r)
<1> DEFINE pos == getClusterCondition(s, t)
           r   == ClearCondition(s, t)
           e(i) == IF i \in pos..(s.len - 1) THEN s.array[i + 1] ELSE s.array[i]
           a   == [i \in DOMAIN s.array |-> e(i)]
<1>1. pos = 0 \/ pos \in 1..s.len  BY FoundType
<1>2. s \in Slices /\ s.array \in Seq(Conditions) /\ s.len \in 0..Len(s.array)
  BY DEF Sound, Slices
<1>3. CASE pos = 0
  BY <1>3 DEF ClearCondition, Keeps
<1>4. CASE pos # 0
  <2>1. r = Resized(s, a, s.len - 1)
    BY <1>4 DEF ClearCondition, Resized
  <2>2. pos \in 1..s.len  BY <1>1, <1>4
  <2> HIDE DEF pos, r
  <2>3. \A i \in 1..Len(s.array) : e(i) \in Conditions  BY <1>2, <2>2
  <2>4. /\ a \in Seq(Conditions) /\ Len(a) = Len(s.array)
        /\ \A i \in 1..Len(s.array) : a[i] = e(i)
    <3>1. a = [i \in 1..Len(s.array) |-> e(i)]  BY <1>2
    <3> HIDE DEF e, a
    <3> QED  BY <1>2, <2>3, <3>1
  <2> HIDE DEF a
  <2>5. /\ r \in Slices /\ r.array = a /\ r.len = s.len - 1 /\ r.rssLen = s.rssLen
        /\ r.own = s.own /\ r.shared = s.shared
    <3>1. s.len - 1 \in Nat  BY <1>2, <2>2
    <3> QED  BY <1>2, <2>1, <2>4, <3>1, ResizeType, ZenonT(60)
  <2>6. Sound(r)  BY <1>2, <2>4, <2>5 DEF Sound
  <2>7. Distinct(r)
    <3> DEFINE at(i) == IF i \in pos..(s.len - 1) THEN i + 1 ELSE i
    <3>1. \A i \in 1..r.len : at(i) \in 1..s.len /\ r.array[i] = s.array[at(i)]
      BY <1>2, <2>2, <2>4, <2>5
    <3>2. \A i, j \in 1..r.len : at(i) = at(j) => i = j  BY <1>2, <2>2, <2>5
    <3> HIDE DEF at
    <3> QED  BY <3>1, <3>2 DEF Distinct
  <2> QED  BY <2>5, <2>6, <2>7 DEF Keeps, r
<1> QED  BY <1>3, <1>4

\* The end of reconcile: set one condition and, for Recovering, clear another.
LEMMA SetConditionType ==
    ASSUME NEW s, Sound(s), Distinct(s), NEW c \in Conditions
    PROVE  LET r == SetCondition(s, c)
           IN  Sound(r) /\ Distinct(r) /\ Keeps(s, r)
<1> DEFINE m == setClusterCondition(s, c)
           r == SetCondition(s, c)
<1>1. Sound(m) /\ Distinct(m) /\ Keeps(s, m)  BY SetType
<1>2. r = IF c.type = "Recovering" THEN ClearCondition(m, "Available") ELSE m
  BY DEF SetCondition
<1> HIDE DEF m, r
<1>3. CASE c.type = "Recovering"
  <2>1. Sound(r) /\ Distinct(r) /\ Keeps(m, r)  BY <1>1, <1>2, <1>3, ClearType
  <2> QED  BY <1>1, <2>1 DEF Keeps, r
<1>4. CASE c.type # "Recovering"  BY <1>1, <1>2, <1>4 DEF r
<1> QED  BY <1>3, <1>4

\* The condition that a round reports.
LEMMA ConditionNowType ==
    ASSUME NEW active \in Nat, NEW errors
    PROVE  ConditionNow(active, errors) \in Conditions
BY StatusAssumption DEF ConditionNow, newClusterCondition, Conditions

\* c.rss becomes another object, whatever it shared before.
LEMMA ApartType ==
    ASSUME NEW s, Sound(s), NEW conds \in Seq(Conditions)
    PROVE  LET r == Apart(s, conds)
           IN  /\ Sound(r) /\ ~r.shared /\ r.own = conds
               /\ r.array = s.array /\ r.len = s.len
<1> DEFINE r == Apart(s, conds)
<1>1. s.array \in Seq(Conditions) /\ Len(s.array) \in Nat  BY DEF Sound, Slices
<1>2. /\ r \in Slices /\ ~r.shared /\ r.own = conds /\ r.rssLen = 0
      /\ r.array = s.array /\ r.len = s.len
  BY DEF Apart, Sound, Slices
<1> HIDE DEF r
<1> QED  BY <1>1, <1>2 DEF Sound, r

\* c.rss takes over the conditions of c.status, array and all.
LEMMA AliasType ==
    ASSUME NEW s, Sound(s)
    PROVE  LET r == [s EXCEPT !.shared = TRUE, !.rssLen = s.len, !.own = <<>>]
           IN  Sound(r) /\ r.array = s.array /\ r.len = s.len
<1> DEFINE r == [s EXCEPT !.shared = TRUE, !.rssLen = s.len, !.own = <<>>]
<1>1. <<>> \in Seq(Conditions)  OBVIOUS
<1>2. /\ r \in Slices /\ r.rssLen = s.len /\ r.array = s.array /\ r.len = s.len
  BY <1>1 DEF Sound, Slices
<1> HIDE DEF r
<1> QED  BY <1>2 DEF Sound, r

----------------------------------------------------------------------------
Versions == [conds : Seq(Conditions), rest : Statuses]
Events == [conds : Seq(Conditions), rest : Statuses, current : BOOLEAN]

\* After the API server stored o, the only event that is current has what o has.
LEMMA StoredType ==
    ASSUME watch \in Seq(Events), Len(watch) <= WatchCap, NEW o \in Versions, Stored(o)
    PROVE  /\ cr' = o /\ watch' \in Seq(Events) /\ Len(watch') <= WatchCap
           /\ \A i \in DOMAIN watch' :
                 watch'[i].current => watch'[i].conds = o.conds /\ watch'[i].rest = o.rest
<1> DEFINE old == [i \in DOMAIN watch |-> [watch[i] EXCEPT !.current = FALSE]]
           new == [conds |-> o.conds, rest |-> o.rest, current |-> TRUE]
<1>1. /\ cr' = o
      /\ watch' = IF Len(old) < WatchCap THEN Append(old, new)
                  ELSE [old EXCEPT ![Len(old)] = new]
  BY DEF Stored
<1>2. new \in Events /\ new.conds = o.conds /\ new.rest = o.rest
  BY DEF Versions, Events
<1>3. old \in Seq(Events) /\ Len(old) = Len(watch) /\ \A i \in 1..Len(watch) : ~old[i].current
  <2> DEFINE e(i) == [watch[i] EXCEPT !.current = FALSE]
  <2>1. \A i \in 1..Len(watch) : e(i) \in Events /\ ~e(i).current
    <3> TAKE i \in 1..Len(watch)
    <3>1. watch[i] \in Events  OBVIOUS
    <3> QED  BY <3>1 DEF Events
  <2>2. old = [i \in 1..Len(watch) |-> e(i)]  OBVIOUS
  <2> HIDE DEF e, old
  <2> QED  BY <2>1, <2>2
<1>4. WatchCap \in Nat \ {0} /\ Len(watch) \in Nat  BY StatusAssumption
<1> HIDE DEF old, new
<1>5. CASE Len(old) < WatchCap
  <2>1. watch' = Append(old, new)  BY <1>1, <1>5
  <2>2. watch' \in Seq(Events) /\ Len(watch') = Len(old) + 1  BY <2>1, <1>2, <1>3
  <2>3. \A i \in 1..Len(watch') : watch'[i] = IF i <= Len(old) THEN old[i] ELSE new
    BY <2>1, <1>2, <1>3
  <2> QED  BY <1>1, <1>2, <1>3, <1>4, <1>5, <2>2, <2>3
<1>6. CASE ~(Len(old) < WatchCap)
  <2>1. watch' = [old EXCEPT ![Len(old)] = new]  BY <1>1, <1>6
  <2> DEFINE k == Len(old)
             e(i) == IF i = k THEN new ELSE old[i]
  <2>2. old \in [1..Len(old) -> Events] /\ k \in 1..Len(old)  BY <1>3, <1>4, <1>6
  <2>3. watch' = [i \in 1..Len(old) |-> e(i)]
    <3> HIDE DEF k
    <3>1. [old EXCEPT ![k] = new] = [i \in 1..Len(old) |-> e(i)]  BY <2>2, Zenon
    <3> QED  BY <2>1, <3>1 DEF k
  <2>4. \A i \in 1..Len(old) : e(i) \in Events  BY <1>2, <2>2
  <2> HIDE DEF e
  <2>5. /\ watch' \in Seq(Events) /\ Len(watch') = Len(old)
        /\ \A i \in 1..Len(old) : watch'[i] = e(i)
    BY <2>3, <2>4, <1>3
  <2> QED  BY <1>1, <1>2, <1>3, <1>4, <1>6, <2>5 DEF e
<1> QED  BY <1>5, <1>6

\* The part of the invariant that updateCRStatus is responsible for.
Reports ==
    /\ cr \in Versions /\ watch \in Seq(Events) /\ Len(watch) <= WatchCap
    /\ Sound(slices) /\ Distinct(slices)
    /\ \A i, j \in DOMAIN cr.conds : cr.conds[i].type = cr.conds[j].type => i = j
    /\ status \in Statuses /\ rss \in [rest : Statuses, current : BOOLEAN] /\ lost \in BOOLEAN
    /\ faults \in 0..MaxFaults
    /\ ComparesWithServer /\ Unaliased

\* The part that rounds are responsible for.
Rounds ==
    /\ pc \in {"idle", "mainloop", "reconcile", "replicate", "again"} /\ seen \subseteq Pods
    /\ DOMAIN peers \subseteq Pods
    /\ peers \in [DOMAIN peers -> Healthy \union {"failed", "offline"}]
    /\ apps \in [Pods -> Healthy \union {"failed", "gone", "pending"}]
    /\ changes \in 0..MaxChanges

\* The two parts make up the invariant.
LEMMA Parts == StatusInv <=> Reports /\ Rounds
BY DEF StatusInv, TypeOK, OneOfEach, Reports, Rounds, Sound, Distinct, Versions, Events

\* And so they do in the next state.
LEMMA PartsNext == StatusInv' <=> Reports' /\ Rounds'
BY DEF StatusInv, TypeOK, OneOfEach, Reports, Rounds, Sound, Distinct, Versions, Events

\* The comparison, as long as c.rss has conditions of its own.
LEMMA OwnConditions ==
    ASSUME Reports, ~lost, rss.current
    PROVE  ~slices.shared /\ slices.own = cr.conds /\ rss.rest = cr.rest
BY DEF Reports, ComparesWithServer, Unaliased, InRss

\* updateCRStatus, for conditions s that setters made of those in memory: it
\* compares, writes or fails to write, and in each case c.rss has what the API
\* server has or is known to differ.
LEMMA UpdateInv ==
    ASSUME Reports, NEW s, Sound(s), Distinct(s), Keeps(slices, s),
           NEW st \in Statuses, updateCRStatus(s, st)
    PROVE  Reports'
<1>1. status' = st  BY DEF updateCRStatus
<1>2. InStatus(s) \in Seq(Conditions)  BY InStatusType
<1>3. CASE slices' = s /\ UNCHANGED <<cr, watch, rss, lost, faults>>
  <2>1. ~lost /\ rss.current => ~s.shared /\ s.own = cr.conds /\ rss.rest = cr.rest
    BY OwnConditions DEF Keeps
  <2>2. ComparesWithServer'  BY <1>3, <2>1 DEF ComparesWithServer, InRss
  <2>3. Unaliased'  BY <1>3 DEF Reports, Unaliased, Keeps
  <2>4. Sound(slices)' /\ Distinct(slices)'  BY <1>3 DEF Sound, Distinct
  <2> QED  BY <1>1, <1>3, <2>2, <2>3, <2>4 DEF Reports
<1>4. CASE /\ Stored([conds |-> InStatus(s), rest |-> st]) /\ slices' = Written(s)
           /\ rss' = [rest |-> st, current |-> TRUE] /\ lost' = FALSE /\ UNCHANGED faults
  <2> DEFINE o == [conds |-> InStatus(s), rest |-> st]
  <2>1. o \in Versions /\ o.conds = InStatus(s) /\ o.rest = st  BY <1>2 DEF Versions
  <2>2. Stored(o)  BY <1>4
  <2> HIDE DEF o
  <2>3. /\ cr' = o /\ watch' \in Seq(Events) /\ Len(watch') <= WatchCap
        /\ \A i \in DOMAIN watch' :
              watch'[i].current => watch'[i].conds = o.conds /\ watch'[i].rest = o.rest
    BY <2>1, <2>2, StoredType DEF Reports
  <2>4. /\ Sound(slices') /\ ~slices'.shared /\ slices'.own = InStatus(s)
        /\ slices'.array = s.array /\ slices'.len = s.len
    BY <1>2, <1>4, ApartType DEF Written
  <2>5. \A i, j \in DOMAIN cr'.conds : cr'.conds[i].type = cr'.conds[j].type => i = j
    <3>1. /\ DOMAIN cr'.conds = 1..s.len
          /\ \A i \in 1..s.len : cr'.conds[i] = s.array[i]
      BY <1>2, <2>1, <2>3, InStatusType
    <3> QED  BY <3>1 DEF Distinct
  <2>6. Sound(slices)' /\ Distinct(slices)'
    BY <2>4 DEF Sound, Distinct
  <2>7. rss' \in [rest : Statuses, current : BOOLEAN] /\ rss'.rest = st  BY <1>4
  <2>8. ComparesWithServer'
    BY <2>1, <2>3, <2>4, <2>7 DEF ComparesWithServer, InRss
  <2>9. Unaliased'  BY <2>3, <2>4 DEF Unaliased
  <2> QED
    BY <1>1, <1>4, <2>1, <2>3, <2>5, <2>6, <2>7, <2>8, <2>9 DEF Reports
<1>5. CASE /\ Fault \/ UNCHANGED faults
           /\ slices' = [s EXCEPT !.shared = TRUE, !.rssLen = s.len, !.own = <<>>]
           /\ rss' = [rss EXCEPT !.rest = st] /\ lost' = TRUE /\ UNCHANGED <<cr, watch>>
  <2>1. Sound(slices') /\ slices'.array = s.array /\ slices'.len = s.len
    BY <1>5, AliasType
  <2>2. Sound(slices)' /\ Distinct(slices)'  BY <2>1 DEF Sound, Distinct
  <2>3. faults' \in 0..MaxFaults  BY <1>5, StatusAssumption DEF Reports, Fault
  <2>4. rss' \in [rest : Statuses, current : BOOLEAN]  BY <1>5 DEF Reports
  <2>5. ComparesWithServer' /\ Unaliased'
    BY <1>5 DEF Reports, ComparesWithServer, Unaliased
  <2> QED  BY <1>1, <1>5, <2>2, <2>3, <2>4, <2>5, Zenon DEF Reports
<1> QED  BY <1>3, <1>4, <1>5 DEF updateCRStatus

\* The counts in a status are numbers.
LEMMA CountType ==
    ASSUME NEW S \in SUBSET Pods
    PROVE  Cardinality(S) \in Nat
BY StatusAssumption, FS_Subset, FS_CardinalityType

\* Nothing of the report changes.
LEMMA SameReports ==
    ASSUME Reports, UNCHANGED <<cr, watch, memory, faults>>
    PROVE  Reports'
BY DEF memory, Reports, Sound, Distinct, ComparesWithServer, Unaliased, InRss

\* A change of the world stays within its bound.
LEMMA ChangeType ==
    ASSUME Rounds, Change
    PROVE  changes' \in 0..MaxChanges
BY StatusAssumption DEF Rounds, Change

\* The conditions in memory, with no setter called.
LEMMA Unset == ASSUME Reports PROVE Sound(slices) /\ Distinct(slices) /\ Keeps(slices, slices)
BY DEF Reports, Keeps

----------------------------------------------------------------------------
\* What updateMemberStatus reports about members.
LEMMA MembersStatusType ==
    ASSUME Rounds, NEW ready \in SUBSET Pods
    PROVE  MembersStatus(peers, ready) \in Members
BY DEF Rounds, MembersStatus, Members

\* A status with other counts and lists.
LEMMA StatusType ==
    ASSUME Reports, NEW n \in Nat, NEW m \in Members
    PROVE  /\ [status EXCEPT !.replicas = n] \in Statuses
           /\ [status EXCEPT !.restore = n] \in Statuses
           /\ [status EXCEPT !.replicas = n, !.members = m] \in Statuses
BY DEF Reports, Statuses

\* A round begins, or ends at once.
LEMMA UpdateMemberStatusInv == StatusInv /\ updateMemberStatus => StatusInv'
<1> SUFFICES ASSUME Reports, Rounds, updateMemberStatus PROVE Reports' /\ Rounds'
  BY Parts, PartsNext
<1> DEFINE now == {p \in Pods : Running(p)}
           st  == [status EXCEPT !.replicas = Cardinality(now), !.members = MembersStatus(peers, now)]
<1>1. now \in SUBSET Pods  OBVIOUS
<1>2. updateCRStatus(slices, st)  BY DEF updateMemberStatus
<1>3. \/ UNCHANGED <<pc, seen, peers>>
      \/ /\ UNCHANGED <<pc, seen>>
         /\ peers' = [p \in IF Desired = 0 THEN {} ELSE DOMAIN peers |-> "offline"]
      \/ pc' = "mainloop" /\ seen' = now /\ UNCHANGED peers
  BY DEF updateMemberStatus
<1> HIDE DEF now
<1>4. st \in Statuses  BY <1>1, CountType, MembersStatusType, StatusType
<1> HIDE DEF st
<1>5. Reports'  BY <1>2, <1>4, Unset, UpdateInv
<1>6. Rounds'
  <2>1. UNCHANGED <<apps, changes>>  BY DEF updateMemberStatus
  <2>2. CASE UNCHANGED <<pc, seen, peers>>  BY <2>1, <2>2 DEF Rounds
  <2>3. CASE /\ UNCHANGED <<pc, seen>>
             /\ peers' = [p \in IF Desired = 0 THEN {} ELSE DOMAIN peers |-> "offline"]
    BY <2>1, <2>3 DEF Rounds
  <2>4. CASE pc' = "mainloop" /\ seen' = now /\ UNCHANGED peers
    BY <1>1, <2>1, <2>4 DEF Rounds
  <2> QED  BY <1>3, <2>2, <2>3, <2>4
<1> QED  BY <1>5, <1>6

\* The size to come back to.
LEMMA MainloopInv == StatusInv /\ mainloop => StatusInv'
<1> SUFFICES ASSUME Reports, Rounds, mainloop PROVE Reports' /\ Rounds'
  BY Parts, PartsNext
<1>1. Rounds'  BY DEF mainloop, Rounds
<1>2. CASE updateCRStatus(slices, [status EXCEPT !.restore = Desired])
  <2>1. NoMembers \in Members /\ Desired \in Nat
    BY StatusAssumption, Zenon DEF NoMembers, Members
  <2>2. [status EXCEPT !.restore = Desired] \in Statuses  BY <2>1, StatusType
  <2> QED  BY <1>1, <1>2, <2>2, Unset, UpdateInv
<1>3. CASE UNCHANGED <<cr, watch, memory, faults>>
  BY <1>1, <1>3, SameReports
<1> QED  BY <1>2, <1>3 DEF mainloop

\* One reconcile: members are asked and recovered, a condition is set in place, and
\* the status is written or not.
LEMMA ReconcileInv == StatusInv /\ reconcile => StatusInv'
<1> SUFFICES ASSUME Reports, Rounds, reconcile PROVE Reports' /\ Rounds'
  BY Parts, PartsNext
<1> DEFINE bad == {p \in seen : Known(p) = "failed" \/ apps[p] \notin Healthy}
           ms(left) == [p \in DOMAIN peers \union seen |->
                          IF p \notin seen THEN "offline" ELSE IF p \in bad THEN left[p] ELSE apps[p]]
           active(left) == Cardinality({p \in DOMAIN ms(left) : ms(left)[p] # "offline"})
<1>1. PICK left \in [bad -> {"stopped", "offline", "failed"}] :
        /\ peers' = ms(left)
        /\ apps' = [p \in Pods |-> IF p \notin bad \/ left[p] = "failed" THEN apps[p]
                                   ELSE IF left[p] = "stopped" THEN "stopped" ELSE "gone"]
        /\ \E errors \in BOOLEAN :
              /\ pc' = IF errors \/ pc = "again" THEN "idle" ELSE "replicate"
              /\ seen' = IF errors \/ pc = "again" THEN {} ELSE seen
              /\ updateCRStatus(SetCondition(slices, ConditionNow(active(left), errors)),
                                [status EXCEPT !.replicas = Cardinality(DOMAIN ms(left))])
  BY DEF reconcile
<1>2. /\ DOMAIN ms(left) = DOMAIN peers \union seen
      /\ \A p \in DOMAIN ms(left) : ms(left)[p] \in Healthy \union {"failed", "offline"}
      /\ DOMAIN ms(left) \subseteq Pods
  BY DEF Rounds, Healthy
<1>3. active(left) \in Nat /\ Cardinality(DOMAIN ms(left)) \in Nat
  BY <1>2, CountType
<1>4. PICK errors \in BOOLEAN :
        /\ pc' = IF errors \/ pc = "again" THEN "idle" ELSE "replicate"
        /\ seen' = IF errors \/ pc = "again" THEN {} ELSE seen
        /\ updateCRStatus(SetCondition(slices, ConditionNow(active(left), errors)),
                          [status EXCEPT !.replicas = Cardinality(DOMAIN ms(left))])
  BY <1>1
<1>5. Rounds'
  <2>1. peers' \in [DOMAIN peers' -> Healthy \union {"failed", "offline"}] /\ DOMAIN peers' \subseteq Pods
    BY <1>1, <1>2
  <2>2. apps' \in [Pods -> Healthy \union {"failed", "gone", "pending"}]
    BY <1>1 DEF Rounds, Healthy
  <2>3. changes' = changes  BY DEF reconcile
  <2> QED  BY <1>4, <2>1, <2>2, <2>3 DEF Rounds
<1> HIDE DEF ms, active
<1> DEFINE c  == ConditionNow(active(left), errors)
           s  == SetCondition(slices, c)
           st == [status EXCEPT !.replicas = Cardinality(DOMAIN ms(left))]
<1>6. c \in Conditions  BY <1>3, ConditionNowType
<1>7. NoMembers \in Members  BY DEF NoMembers, Members
<1>8. st \in Statuses  BY <1>3, <1>7, StatusType
<1> HIDE DEF c
<1>9. Sound(s) /\ Distinct(s) /\ Keeps(slices, s)  BY <1>6, Unset, SetConditionType
<1>10. updateCRStatus(s, st)  BY <1>4 DEF c
<1> HIDE DEF s, st
<1>11. Reports'  BY <1>8, <1>9, <1>10, UpdateInv
<1> QED  BY <1>5, <1>11

\* replicate changes applications and what is known of them, not the report.
LEMMA ReplicateInv == StatusInv /\ replicate => StatusInv'
<1> SUFFICES ASSUME Reports, Rounds, replicate PROVE Reports' /\ Rounds'
  BY Parts, PartsNext
<1>1. Reports'  BY SameReports DEF replicate
<1>2. CASE pc' = "idle" /\ seen' = {} /\ UNCHANGED <<peers, apps, changes>>
  BY <1>1, <1>2 DEF Rounds
<1>3. CASE /\ Change
           /\ \E p \in seen, r \in Healthy :
                /\ p \in DOMAIN peers /\ peers[p] \in Healthy /\ apps[p] \in Healthy
                /\ \/ /\ apps' = [apps EXCEPT ![p] = r] /\ peers' = [peers EXCEPT ![p] = r]
                      /\ pc' = "idle" /\ seen' = {}
                   \/ /\ peers' = [peers EXCEPT ![p] = "failed"]
                      /\ pc' = "again" /\ UNCHANGED <<seen, apps>>
  <2>1. changes' \in 0..MaxChanges  BY <1>3, ChangeType
  <2>2. DOMAIN peers' = DOMAIN peers /\ pc' \in {"idle", "again"} /\ seen' \subseteq Pods
    BY <1>3 DEF Rounds
  <2>3. peers' \in [DOMAIN peers -> Healthy \union {"failed", "offline"}]
    BY <1>3 DEF Rounds
  <2>4. apps' \in [Pods -> Healthy \union {"failed", "gone", "pending"}]
    BY <1>3 DEF Rounds
  <2> QED  BY <1>1, <2>1, <2>2, <2>3, <2>4 DEF Rounds
<1> QED  BY <1>2, <1>3 DEF replicate


\* An event, if it is current, brings what the API server has.
LEMMA HandleUpdateEventInv == StatusInv /\ handleUpdateEvent => StatusInv'
<1> SUFFICES ASSUME Reports, Rounds, handleUpdateEvent PROVE Reports' /\ Rounds'
  BY Parts, PartsNext
<1>1. Rounds'  BY DEF handleUpdateEvent, Rounds
<1> DEFINE o == Head(watch)
<1>2. /\ watch # <<>> /\ watch' = Tail(watch) /\ slices' = Apart(slices, o.conds)
      /\ rss' = [rest |-> o.rest, current |-> o.current]
      /\ lost' = FALSE /\ UNCHANGED <<cr, status, faults>>
  BY DEF handleUpdateEvent
<1>3. watch \in Seq(Events) /\ Len(watch) <= WatchCap /\ WatchCap \in Nat
  BY StatusAssumption DEF Reports
<1>4. o = watch[1] /\ o \in Events /\ 1 \in DOMAIN watch  BY <1>2, <1>3
<1>5. /\ watch' \in Seq(Events) /\ Len(watch') = Len(watch) - 1
      /\ \A i \in 1..Len(watch') : watch'[i] = watch[i + 1] /\ i + 1 \in DOMAIN watch
  BY <1>2, <1>3
<1>6. Len(watch') <= WatchCap  BY <1>3, <1>5
<1>7. o.current => o.conds = cr.conds /\ o.rest = cr.rest
  BY <1>4 DEF Reports, Unaliased
<1> HIDE DEF o
<1>8. o.conds \in Seq(Conditions) /\ o.rest \in Statuses /\ o.current \in BOOLEAN
  BY <1>4 DEF Events
<1>9. /\ Sound(slices') /\ ~slices'.shared /\ slices'.own = o.conds
      /\ slices'.array = slices.array /\ slices'.len = slices.len
  BY <1>2, <1>8, Unset, ApartType
<1>10. Sound(slices)' /\ Distinct(slices)'  BY <1>9 DEF Reports, Sound, Distinct
<1>11. ComparesWithServer'  BY <1>2, <1>7, <1>8, <1>9 DEF ComparesWithServer, InRss
<1>12. Unaliased'
  <2>1. DOMAIN watch' = 1..Len(watch')  BY <1>5
  <2> QED  BY <1>2, <1>5, <1>9, <2>1 DEF Reports, Unaliased
<1>13. rss' \in [rest : Statuses, current : BOOLEAN]  BY <1>2, <1>8
<1> QED  BY <1>1, <1>2, <1>5, <1>6, <1>10, <1>11, <1>12, <1>13 DEF Reports

\* What an operator that starts has in memory.
LEMMA DeepCopyType ==
    ASSUME NEW conds \in Seq(Conditions)
    PROVE  LET r == DeepCopy(conds)
           IN  Sound(r) /\ ~r.shared /\ r.own = conds /\ r.array = conds /\ r.len = Len(conds)
<1>1. Len(conds) \in Nat  OBVIOUS
<1> QED  BY <1>1 DEF DeepCopy, Sound, Slices

\* The next operator starts from the CR.
LEMMA NewInv == StatusInv /\ New => StatusInv'
<1> SUFFICES ASSUME Reports, Rounds, New PROVE Reports' /\ Rounds'
  BY Parts, PartsNext
<1>1. /\ watch' = <<>> /\ slices' = DeepCopy(cr.conds) /\ status' = cr.rest
      /\ rss' = [rest |-> cr.rest, current |-> TRUE] /\ lost' = FALSE /\ UNCHANGED <<cr, faults>>
  BY DEF New
<1>2. Rounds'
  <2>1. changes' \in 0..MaxChanges  BY ChangeType DEF New
  <2> QED  BY <2>1 DEF New, Rounds
<1>3. cr.conds \in Seq(Conditions) /\ cr.rest \in Statuses  BY DEF Reports, Versions
<1>4. /\ Sound(slices') /\ ~slices'.shared /\ slices'.own = cr.conds
      /\ slices'.array = cr.conds /\ slices'.len = Len(cr.conds)
  BY <1>1, <1>3, DeepCopyType
<1>5. Sound(slices)'  BY <1>4 DEF Sound
<1>6. Distinct(slices)'
  <2>1. DOMAIN cr.conds = 1..Len(cr.conds)  BY <1>3
  <2> QED  BY <1>4, <2>1 DEF Reports, Distinct
<1>7. watch' \in Seq(Events) /\ Len(watch') <= WatchCap /\ DOMAIN watch' = {}
  BY <1>1, StatusAssumption
<1>8. ComparesWithServer'  BY <1>1, <1>4 DEF ComparesWithServer, InRss
<1>9. Unaliased'  BY <1>4, <1>7 DEF Unaliased
<1>10. rss' \in [rest : Statuses, current : BOOLEAN]  BY <1>1, <1>3
<1> QED  BY <1>1, <1>2, <1>3, <1>5, <1>6, <1>7, <1>8, <1>9, <1>10 DEF Reports

\* No status at all.
LEMMA NoStatusType == NoStatus \in Statuses
BY DEF NoStatus, NoMembers, Statuses, Members

\* After an edit c.rss is outdated, whatever it has.
LEMMA UserWritesInv == StatusInv /\ UserWrites => StatusInv'
<1> SUFFICES ASSUME Reports, Rounds, UserWrites PROVE Reports' /\ Rounds'
  BY Parts, PartsNext
<1>1. Rounds'
  <2>1. changes' \in 0..MaxChanges  BY ChangeType DEF UserWrites
  <2> QED  BY <2>1 DEF UserWrites, Rounds
<1> DEFINE wiped == [conds |-> <<>>, rest |-> NoStatus]
<1>2. PICK o \in {cr, wiped} : Stored(o)  BY DEF UserWrites
<1>3. wiped \in Versions /\ DOMAIN wiped.conds = {}  BY NoStatusType DEF Versions
<1>4. o \in Versions /\ \A i, j \in DOMAIN o.conds : o.conds[i].type = o.conds[j].type => i = j
  BY <1>2, <1>3 DEF Reports
<1>5. /\ cr' = o /\ watch' \in Seq(Events) /\ Len(watch') <= WatchCap
      /\ \A i \in DOMAIN watch' :
            watch'[i].current => watch'[i].conds = o.conds /\ watch'[i].rest = o.rest
  BY <1>2, <1>4, StoredType DEF Reports
<1>6. UNCHANGED <<slices, status, lost, faults>> /\ rss' = [rss EXCEPT !.current = FALSE]
  BY DEF UserWrites
<1>7. rss' \in [rest : Statuses, current : BOOLEAN] /\ ~rss'.current
  BY <1>6 DEF Reports
<1>8. Sound(slices)' /\ Distinct(slices)'  BY <1>6 DEF Reports, Sound, Distinct
<1>9. ComparesWithServer'  BY <1>7 DEF ComparesWithServer
<1>10. Unaliased'  BY <1>5, <1>6 DEF Reports, Unaliased
<1> QED  BY <1>1, <1>4, <1>5, <1>6, <1>7, <1>8, <1>9, <1>10 DEF Reports

\* Pods and applications are not part of the report.
LEMMA WorldChangesInv == StatusInv /\ WorldChanges => StatusInv'
<1> SUFFICES ASSUME Reports, Rounds, WorldChanges PROVE Reports' /\ Rounds'
  BY Parts, PartsNext
<1>1. Reports'  BY SameReports DEF WorldChanges
<1>2. changes' \in 0..MaxChanges  BY ChangeType DEF WorldChanges, Rounds
<1>3. apps' \in [Pods -> Healthy \union {"failed", "gone", "pending"}]
  <2>1. PICK p \in Pods, r \in Healthy \union {"failed", "gone", "pending"} :
          apps' = [apps EXCEPT ![p] = r]
    BY DEF WorldChanges, Healthy
  <2> QED  BY <2>1 DEF Rounds
<1> QED  BY <1>1, <1>2, <1>3 DEF WorldChanges, Rounds

\* An operator that starts, and a CR with no status.
LEMMA InitInv == Init => StatusInv
<1> SUFFICES ASSUME Init PROVE Reports /\ Rounds
  BY Parts
<1>1. <<>> \in Seq(Conditions) /\ <<>> \in Seq(Events) /\ Len(<<>>) = 0 /\ DOMAIN <<>> = {}
  OBVIOUS
<1>2. Sound(slices) /\ slices.len = 0 /\ ~slices.shared /\ slices.own = <<>>
  BY <1>1, DeepCopyType DEF Init
<1>3. Distinct(slices)  BY <1>2 DEF Distinct
<1>4. /\ cr \in Versions /\ cr.conds = <<>> /\ cr.rest = NoStatus
      /\ rss \in [rest : Statuses, current : BOOLEAN] /\ rss.rest = NoStatus
  BY <1>1, NoStatusType DEF Init, Versions
<1>5. ComparesWithServer  BY <1>2, <1>4 DEF ComparesWithServer, InRss
<1>6. Unaliased  BY <1>1, <1>2 DEF Init, Unaliased
<1>7. /\ \A i, j \in DOMAIN cr.conds : cr.conds[i].type = cr.conds[j].type => i = j
      /\ watch \in Seq(Events) /\ Len(watch) <= WatchCap
  BY <1>1, <1>4, StatusAssumption DEF Init
<1>8. status \in Statuses /\ lost \in BOOLEAN /\ faults \in 0..MaxFaults
  <2>1. status = NoStatus /\ lost = FALSE /\ faults = 0  BY DEF Init
  <2>2. status \in Statuses /\ lost \in BOOLEAN  BY <2>1, NoStatusType, Zenon
  <2>3. faults \in 0..MaxFaults  BY <2>1, StatusAssumption
  <2> QED  BY <2>2, <2>3
<1>9. Reports  BY <1>2, <1>3, <1>4, <1>5, <1>6, <1>7, <1>8 DEF Reports
<1>10. Rounds  BY StatusAssumption DEF Init, Rounds, Healthy
<1> QED  BY <1>9, <1>10

\* Theorem: StatusInv holds in every reachable state, for any Pods, size and number of
\* changes, failed writes, edits and restarts.
THEOREM StatusInvAlways == Spec => []StatusInv
<1>1. Init => StatusInv  BY InitInv
<1>2. StatusInv /\ [Next]_vars => StatusInv'
  <2> SUFFICES ASSUME StatusInv, [Next]_vars PROVE StatusInv'  OBVIOUS
  <2>1. CASE updateMemberStatus  BY <2>1, UpdateMemberStatusInv
  <2>2. CASE mainloop  BY <2>2, MainloopInv
  <2>3. CASE reconcile  BY <2>3, ReconcileInv
  <2>4. CASE replicate  BY <2>4, ReplicateInv
  <2>5. CASE handleUpdateEvent  BY <2>5, HandleUpdateEventInv
  <2>6. CASE New  BY <2>6, NewInv
  <2>7. CASE UserWrites  BY <2>7, UserWritesInv
  <2>8. CASE WorldChanges  BY <2>8, WorldChangesInv
  <2>9. CASE UNCHANGED vars
    BY <2>9, Parts, PartsNext, SameReports DEF vars, Rounds
  <2> QED
    BY <2>1, <2>2, <2>3, <2>4, <2>5, <2>6, <2>7, <2>8, <2>9 DEF Next, Goroutine
<1> QED  BY <1>1, <1>2, PTL DEF Spec

\* Theorem: what updateCRStatus compares with is what the API server has, unless a
\* write failed: the setters' changes in place never reach c.rss.
THEOREM ComparesWithServerAlways == Spec => []ComparesWithServer
<1>1. StatusInv => ComparesWithServer  BY DEF StatusInv
<1> QED  BY <1>1, StatusInvAlways, PTL

\* Theorem: no condition is ever reported twice, in the CR or in memory.
THEOREM OneOfEachAlways == Spec => []OneOfEach
<1>1. StatusInv => OneOfEach  BY DEF StatusInv
<1> QED  BY <1>1, StatusInvAlways, PTL
============================================================================
