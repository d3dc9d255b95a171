------------------------------- MODULE Status -------------------------------
(***************************************************************************)
(* What the operator reports about a cluster: the members and conditions   *)
(* in the status of its custom resource (CR).  The goroutine keeps a       *)
(* status in memory, changes it in place, compares it with the one in its  *)
(* copy of the CR and writes it if they differ (updateMemberStatus and     *)
(* updateCRStatus in pkg/cluster/cluster.go, the end of reconcile, and the *)
(* setters in pkg/apis/clusterlabs/v1alpha1/status.go).                    *)
(*                                                                         *)
(* Lifecycle takes what is reported as one value.  Here the conditions are *)
(* Go slices: after a write that failed, the copy of the CR and the status *)
(* in memory share an array, and a change to one shows in the other.       *)
(***************************************************************************)
EXTENDS Naturals, Sequences, FiniteSets

CONSTANTS
    Pods,
    Desired,    \* GetNumReplicas() of the spec
    WatchCap,   \* bound: how far the informer is behind before it re-lists
    MaxChanges, \* bound: changes to Pods and applications, edits, crashes
    MaxFaults   \* bound: API calls that fail

ASSUME StatusAssumption ==
    /\ IsFiniteSet(Pods) /\ Desired \in Nat /\ WatchCap \in Nat \ {0}
    /\ MaxChanges \in Nat /\ MaxFaults \in Nat

VARIABLES
    cr,      \* the CR's status on the API server: [conds, rest]
    watch,   \* versions the informer has still to deliver
    slices,  \* the conditions in c.status and c.rss, see below
    status,  \* the rest of c.status
    rss,     \* the rest of c.rss.Status, and whether c.rss is the current version
    lost,    \* history: a write has failed since the goroutine got its c.rss
    pc,      \* where the round is
    seen,    \* the Pods pollPods saw running
    peers,   \* c.peers: the role of each member the goroutine knows
    apps,    \* what is true of each Pod and its application
    changes, faults

memory == <<slices, status, rss, lost>>
vars == <<cr, watch, memory, pc, seen, peers, apps, changes, faults>>

Healthy == {"stopped", "secondary", "primary"}
Running(p) == apps[p] \in Healthy \union {"failed"}

NoMembers == [ready |-> {}, unready |-> {}, failed |-> {}, primary |-> {}, secondary |-> {}]
NoStatus == [replicas |-> 0, restore |-> 0, members |-> NoMembers]

\* array is what c.status.Conditions points to, up to its capacity, len how much of
\* it is in use.  c.rss.Status.Conditions has its own elements, or it is the first
\* rssLen elements of the same array.
InStatus(s) == SubSeq(s.array, 1, s.len)
InRss(s) == IF s.shared THEN SubSeq(s.array, 1, s.rssLen) ELSE s.own

\* c.rss is another object, with these conditions.
Apart(s, conds) == [s EXCEPT !.shared = FALSE, !.rssLen = 0, !.own = conds]

\* New: c.status is a copy of its own.
DeepCopy(conds) ==
    [array |-> conds, len |-> Len(conds), shared |-> FALSE, rssLen |-> 0, own |-> conds]

Init ==
    /\ cr = [conds |-> <<>>, rest |-> NoStatus] /\ watch = <<>>
    /\ slices = DeepCopy(<<>>) /\ status = NoStatus
    /\ rss = [rest |-> NoStatus, current |-> TRUE] /\ lost = FALSE
    /\ pc = "idle" /\ seen = {} /\ peers = [p \in {} |-> ""]
    /\ apps \in [Pods -> {"stopped", "primary"}]
    /\ changes = 0 /\ faults = 0

Fault == faults < MaxFaults /\ faults' = faults + 1
Change == changes < MaxChanges /\ changes' = changes + 1

----------------------------------------------------------------------------
\* The place of the first condition of type t, 0 if there is none.
getClusterCondition(s, t) ==
    LET found == {i \in 1..s.len : s.array[i].type = t}
    IN  IF found = {} THEN 0 ELSE CHOOSE i \in found : \A j \in found : i <= j

\* append(c.status.Conditions, c): in place while there is room behind the last
\* element, else into an array twice as long.
AppendTo(s, c) ==
    IF s.len < Len(s.array)
    THEN [s EXCEPT !.array[s.len + 1] = c, !.len = @ + 1]
    ELSE [Apart(s, InRss(s)) EXCEPT
            !.array = InStatus(s) \o [i \in 1..(IF s.len = 0 THEN 1 ELSE s.len) |-> c],
            !.len = @ + 1]

\* Mutant: the old condition of this type stays.
setClusterConditionTwice(s, c) ==
    LET pos == getClusterCondition(s, c.type) IN
    IF pos # 0 /\ s.array[pos] = c THEN s ELSE AppendTo(s, c)

setClusterCondition(s, c) ==
    LET pos == getClusterCondition(s, c.type) IN
    IF pos = 0 THEN AppendTo(s, c)
    ELSE [s EXCEPT !.array[pos] = c]

\* append(cs[:pos], cs[pos+1:]...) moves the elements behind pos, in place.
ClearCondition(s, t) ==
    LET pos == getClusterCondition(s, t) IN
    IF pos = 0 THEN s
    ELSE [s EXCEPT !.array = [i \in DOMAIN @ |-> IF i \in pos..(s.len - 1) THEN @[i + 1] ELSE @[i]],
                   !.len = @ - 1]

\* Mutant: a condition that no round reports.
newClusterConditionUpgrading(type, from, to) == [type |-> "Upgrading", from |-> from, to |-> to]

newClusterCondition(type, from, to) == [type |-> type, from |-> from, to |-> to]

\* The condition that holds with this many active members.
ConditionNow(active, errors) ==
    IF active # Desired THEN newClusterCondition("Scaling", active, Desired)
    ELSE newClusterCondition(IF errors THEN "Recovering" ELSE "Available", 0, 0)

\* The end of reconcile.  Only Recovering removes another condition.
SetCondition(s, c) ==
    IF c.type = "Recovering" THEN ClearCondition(setClusterCondition(s, c), "Available")
    ELSE setClusterCondition(s, c)

----------------------------------------------------------------------------
\* A new version on the API server; copies made so far are outdated.
Stored(o) ==
    LET old == [i \in DOMAIN watch |-> [watch[i] EXCEPT !.current = FALSE]]
        new == [conds |-> o.conds, rest |-> o.rest, current |-> TRUE]
    IN  /\ cr' = o
        /\ watch' = IF Len(old) < WatchCap THEN Append(old, new)
                    ELSE [old EXCEPT ![Len(old)] = new]

\* Lists that follow the order of a Go map, so that two equal sets may differ.
Unordered(st) == \E k \in {"failed", "unready", "primary", "secondary"} : Cardinality(st.members[k]) > 1

\* Mutant: c.rss stays the object that was sent.
WrittenKeeps(s) == [s EXCEPT !.shared = TRUE, !.rssLen = s.len, !.own = <<>>]

\* The answer to a write is a new object.
Written(s) == Apart(s, InStatus(s))

\* updateCRStatus when the conditions are s and the rest of c.status is st.
\* c.rss takes over c.status, its slice included, before the call.
updateCRStatus(s, st) ==
    LET same == InRss(s) = InStatus(s) /\ rss.rest = st IN
    /\ status' = st
    /\ \/ same /\ slices' = s /\ UNCHANGED <<cr, watch, rss, lost, faults>>
       \/ /\ ~same \/ Unordered(st)
          /\ rss.current /\ Stored([conds |-> InStatus(s), rest |-> st])
          /\ slices' = Written(s)
          /\ rss' = [rest |-> st, current |-> TRUE] /\ lost' = FALSE /\ UNCHANGED faults
       \/ /\ ~same \/ Unordered(st)
          /\ Fault \/ (~rss.current /\ UNCHANGED faults)
          /\ slices' = [s EXCEPT !.shared = TRUE, !.rssLen = s.len, !.own = <<>>]
          /\ rss' = [rss EXCEPT !.rest = st] /\ lost' = TRUE /\ UNCHANGED <<cr, watch>>

\* What updateMemberStatus reports, the order of the lists aside.
MembersStatus(ms, ready) ==
    LET known(role) == {p \in DOMAIN ms : p \in ready /\ ms[p] = role} IN
    [ready |-> ready, unready |-> DOMAIN ms \ ready, failed |-> known("failed"),
     primary |-> known("primary"), secondary |-> known("secondary")]

\* A round begins: pollPods, then a report of the Pods it found and of what was
\* known of them before.  It ends here if Pods are pending or none is running.
updateMemberStatus ==
    LET now == {p \in Pods : Running(p)}
        pending == \E p \in Pods : apps[p] = "pending"
    IN
    /\ pc = "idle"
    /\ \E st \in {[status EXCEPT !.replicas = Cardinality(now),
                                 !.members = MembersStatus(peers, now)]} : updateCRStatus(slices, st)
    /\ \/ pending /\ UNCHANGED <<pc, seen, peers>>
       \/ /\ ~pending /\ now = {} /\ UNCHANGED <<pc, seen>>
          /\ peers' = [p \in IF Desired = 0 THEN {} ELSE DOMAIN peers |-> "offline"]
       \/ ~pending /\ now # {} /\ pc' = "mainloop" /\ seen' = now /\ UNCHANGED peers
    /\ UNCHANGED <<apps, changes>>

\* The size to come back to is noted while the cluster is complete.
mainloop ==
    /\ pc = "mainloop" /\ pc' = "reconcile"
    /\ IF Cardinality(seen) = Desired
       THEN updateCRStatus(slices, [status EXCEPT !.restore = Desired])
       ELSE UNCHANGED <<cr, watch, memory, faults>>
    /\ UNCHANGED <<seen, peers, apps, changes>>

Known(p) == IF p \in DOMAIN peers THEN peers[p] ELSE "stopped"

\* What is left of a member that recover() handles: it is stopped, or its Pod is
\* deleted, or neither works.
Recovered(p) ==
    CASE apps[p] = "gone" -> {"failed"}
      [] apps[p] = "pending" -> {"offline", "failed"}
      [] OTHER -> {"stopped", "offline", "failed"}

\* reconcile asks each application for its role, recovers those that failed, and
\* reports the condition of the cluster.
reconcile ==
    LET bad == {p \in seen : Known(p) = "failed" \/ apps[p] \notin Healthy}
        lostRole(p) == \/ apps[p] = "stopped" /\ Known(p) \in {"primary", "secondary"}
                       \/ apps[p] = "primary" /\ Known(p) = "secondary"
    IN
    /\ pc \in {"reconcile", "again"}
    /\ \E left \in [bad -> {"stopped", "offline", "failed"}] :
       LET ms == [p \in DOMAIN peers \union seen |->
                    IF p \notin seen THEN "offline" ELSE IF p \in bad THEN left[p] ELSE apps[p]]
           errors == \/ \E p \in bad : Known(p) # "failed" \/ left[p] # "stopped"
                     \/ \E p \in seen \ bad : lostRole(p)
           active == Cardinality({p \in DOMAIN ms : ms[p] # "offline"})
       IN
       /\ \A p \in bad : left[p] \in Recovered(p)
       /\ peers' = ms
       /\ apps' = [p \in Pods |-> IF p \notin bad \/ left[p] = "failed" THEN apps[p]
                                  ELSE IF left[p] = "stopped" THEN "stopped" ELSE "gone"]
       /\ pc' = IF errors \/ pc = "again" THEN "idle" ELSE "replicate"
       /\ seen' = IF errors \/ pc = "again" THEN {} ELSE seen
       /\ \E s \in {SetCondition(slices, ConditionNow(active, errors))},
             st \in {[status EXCEPT !.replicas = Cardinality(DOMAIN ms)]} : updateCRStatus(s, st)
    /\ UNCHANGED changes

\* replicate starts, promotes or stops applications, and has nothing to do in the
\* end; after an error there is another reconcile at once.
replicate ==
    /\ pc = "replicate"
    /\ \/ pc' = "idle" /\ seen' = {} /\ UNCHANGED <<peers, apps, changes>>
       \/ /\ Change
          /\ \E p \in seen, r \in Healthy :
                /\ p \in DOMAIN peers /\ peers[p] \in Healthy /\ apps[p] \in Healthy
                /\ \/ /\ apps' = [apps EXCEPT ![p] = r] /\ peers' = [peers EXCEPT ![p] = r]
                      /\ pc' = "idle" /\ seen' = {}
                   \/ /\ peers' = [peers EXCEPT ![p] = "failed"]
                      /\ pc' = "again" /\ UNCHANGED <<seen, apps>>
    /\ UNCHANGED <<cr, watch, memory, faults>>

\* Mutant: only the version is taken from the event.
handleUpdateEventVersion ==
    /\ pc = "idle" /\ watch # <<>> /\ watch' = Tail(watch)
    /\ rss' = [rss EXCEPT !.current = Head(watch).current] /\ lost' = FALSE
    /\ UNCHANGED <<cr, slices, status, pc, seen, peers, apps, changes, faults>>

\* handleUpdateEvent for an event that leaves the spec as it is: c.rss is the
\* informer's object now.
handleUpdateEvent ==
    /\ pc = "idle" /\ watch # <<>> /\ watch' = Tail(watch)
    /\ LET o == Head(watch) IN
       slices' = Apart(slices, o.conds) /\ rss' = [rest |-> o.rest, current |-> o.current]
    /\ lost' = FALSE
    /\ UNCHANGED <<cr, status, pc, seen, peers, apps, changes, faults>>

\* The operator ends; New in the next one starts from what the CR says.
New ==
    /\ Change /\ watch' = <<>> /\ slices' = DeepCopy(cr.conds) /\ status' = cr.rest
    /\ rss' = [rest |-> cr.rest, current |-> TRUE] /\ lost' = FALSE
    /\ pc' = "idle" /\ seen' = {} /\ peers' = [p \in {} |-> ""]
    /\ UNCHANGED <<cr, apps, faults>>

\* A user writes the CR, and may wipe out its status.
UserWrites ==
    /\ Change /\ \E o \in {cr, [conds |-> <<>>, rest |-> NoStatus]} : Stored(o)
    /\ rss' = [rss EXCEPT !.current = FALSE]
    /\ UNCHANGED <<slices, status, lost, pc, seen, peers, apps, faults>>

\* Pods die and are replaced, applications stop, fail or change their role.
WorldChanges ==
    /\ \E p \in Pods :
          \/ apps[p] = "gone" /\ apps' = [apps EXCEPT ![p] = "pending"] /\ Change
          \/ apps[p] = "pending" /\ apps' = [apps EXCEPT ![p] = "stopped"] /\ UNCHANGED changes
          \/ /\ Running(p) /\ Change
             /\ \E r \in (Healthy \union {"failed", "gone"}) \ {apps[p]} : apps' = [apps EXCEPT ![p] = r]
    /\ UNCHANGED <<cr, watch, memory, pc, seen, peers, faults>>

Goroutine == updateMemberStatus \/ mainloop \/ reconcile \/ replicate
Next == Goroutine \/ handleUpdateEvent \/ New \/ UserWrites \/ WorldChanges

\* Rounds follow one another and an event that waits is taken between two of them.
\* A failed application is stopped in the end, and replicate runs out of work.
Fairness == WF_vars(Goroutine) /\ SF_vars(handleUpdateEvent)

Spec == Init /\ [][Next]_vars
FairSpec == Spec /\ Fairness

----------------------------------------------------------------------------
Conditions == [type : {"Scaling", "Recovering", "Available"}, from : Nat, to : Nat]
Members == [ready : SUBSET Pods, unready : SUBSET Pods, failed : SUBSET Pods,
            primary : SUBSET Pods, secondary : SUBSET Pods]
Statuses == [replicas : Nat, restore : Nat, members : Members]
Slices == [array : Seq(Conditions), len : Nat, shared : BOOLEAN, rssLen : Nat, own : Seq(Conditions)]

TypeOK ==
    /\ cr \in [conds : Seq(Conditions), rest : Statuses]
    /\ watch \in Seq([conds : Seq(Conditions), rest : Statuses, current : BOOLEAN])
    /\ Len(watch) <= WatchCap
    /\ slices \in Slices
    /\ slices.len <= Len(slices.array) /\ slices.rssLen <= Len(slices.array)
    /\ status \in Statuses /\ rss \in [rest : Statuses, current : BOOLEAN] /\ lost \in BOOLEAN
    /\ pc \in {"idle", "mainloop", "reconcile", "replicate", "again"} /\ seen \subseteq Pods
    /\ DOMAIN peers \subseteq Pods
    /\ peers \in [DOMAIN peers -> Healthy \union {"failed", "offline"}]
    /\ apps \in [Pods -> Healthy \union {"failed", "gone", "pending"}]
    /\ changes \in 0..MaxChanges /\ faults \in 0..MaxFaults

\* The comparison in updateCRStatus sees what the API server has: changes that the
\* setters make in place do not reach c.rss, unless a write failed since.
ComparesWithServer ==
    ~lost /\ rss.current => InRss(slices) = cr.conds /\ rss.rest = cr.rest

\* No condition is reported twice, neither in the CR nor in memory, whatever array
\* was shared when one was replaced, appended or removed in place.
OneOfEach ==
    /\ \A i, j \in DOMAIN cr.conds : cr.conds[i].type = cr.conds[j].type => i = j
    /\ \A i, j \in 1..slices.len : slices.array[i].type = slices.array[j].type => i = j

\* What ComparesWithServer rests on: only a write that failed leaves c.rss and the
\* status in memory with one array, and an event that is current has what the API
\* server has.
Unaliased ==
    /\ slices.shared => lost
    /\ \A i \in DOMAIN watch :
          watch[i].current => watch[i].conds = cr.conds /\ watch[i].rest = cr.rest

\* The inductive invariant: see StatusProofs.
StatusInv == TypeOK /\ OneOfEach /\ ComparesWithServer /\ Unaliased

\* Once nothing changes any more the CR tells who is ready, primary, secondary and
\* failed, and has the condition of the cluster, also if a user wiped it out or the
\* operator was restarted; unless the last write failed.
Reported ==
    LET now == {p \in Pods : Running(p)}
        calm == /\ now # {} /\ \A p \in now : Known(p) # "failed"
                /\ \A p \in Pods : apps[p] \in Healthy \union {"gone"}
    IN  <>[](calm /\ ~lost =>
               /\ cr.rest.members.ready = now
               /\ \A r \in {"primary", "secondary"} : cr.rest.members[r] = {p \in now : apps[p] = r}
               /\ \E i \in DOMAIN cr.conds : cr.conds[i] = ConditionNow(Cardinality(now), FALSE))
=============================================================================
