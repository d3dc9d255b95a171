------------------------------ MODULE Members ------------------------------
(***************************************************************************)
(* The operator's in-memory view of an application cluster                 *)
(* (pkg/util/member.go) and the three functions that pick a member from it *)
(* (pkg/cluster/replicate.go).                                             *)
(*                                                                         *)
(* A Pod of the StatefulSet is its ordinal, a natural number: the code     *)
(* compares Pod names, and rss-x-0 < rss-x-1 < ... while the ordinals have *)
(* one digit.  A MemberSet is a function from a finite set of ordinals to  *)
(* Member records.  The Namespace and TLS fields never change and select   *)
(* nothing, so they are left out.                                          *)
(***************************************************************************)
EXTENDS Naturals, FiniteSets, Sequences

\* Only "Failures > 1" is ever asked of the counter, so it stops counting
\* at the first value above that threshold.
FailureCap == 2

Member == [SEQ : Nat, Failures : 0..FailureCap, Online : BOOLEAN,
           AppPrimary : BOOLEAN, AppRunning : BOOLEAN, AppFailed : BOOLEAN]

IsMemberSet(ms, P) == DOMAIN ms \subseteq P /\ ms \in [DOMAIN ms -> Member]

NoMembers == [n \in {} |-> n]

\* A Pod seen for the first time: online, and nothing known of its application.
newMember == [SEQ |-> 0, Failures |-> 0, Online |-> TRUE,
              AppPrimary |-> FALSE, AppRunning |-> FALSE, AppFailed |-> FALSE]

podsToMemberSet(names) == [n \in names |-> newMember]

\* Mutant: the role is not cleared.
OfflineKeepsRole(m) == [m EXCEPT !.Online = FALSE, !.AppRunning = FALSE, !.AppFailed = FALSE]

Offline(m) == [m EXCEPT !.Online = FALSE, !.AppPrimary = FALSE,
                        !.AppRunning = FALSE, !.AppFailed = FALSE, !.SEQ = 0]

DiffExtended(ms, other) ==
    {n \in DOMAIN ms : n \in DOMAIN other => other[n].Online # ms[n].Online}

\* Mutant: a member that comes back is not set online again.
ReconcileStaysOffline(ms, running) ==
    [n \in DOMAIN ms \union DOMAIN running |->
       IF n \notin DOMAIN ms THEN running[n]
       ELSE IF n \in DOMAIN running THEN ms[n] ELSE Offline(ms[n])]

\* Known members keep their application state, new ones are added, those
\* missing from 'running' go offline.  No record is ever dropped: every lost
\* member is in the result, so the test on the maximum size is never reached.
Reconcile(ms, running) ==
    LET known == [n \in DOMAIN ms \union DOMAIN running |->
                    IF n \in DOMAIN ms THEN ms[n] ELSE running[n]]
    IN  [n \in DOMAIN known |->
           IF n \notin DOMAIN running THEN Offline(known[n])
           ELSE IF n \in DiffExtended(running, ms)
                THEN [known[n] EXCEPT !.Online = TRUE]
                ELSE known[n]]

PrimariesOf(ms) ==
    {n \in DOMAIN ms : ms[n].Online /\ ms[n].AppPrimary /\ ms[n].AppRunning}
AppPrimaries(ms) == Cardinality(PrimariesOf(ms))
\* Mutant: members are counted whether or not their application runs.
AppMembersOnline(ms) == Cardinality({n \in DOMAIN ms : ms[n].Online})

AppMembers(ms) == Cardinality({n \in DOMAIN ms : ms[n].Online /\ ms[n].AppRunning})
ActiveMembers(ms) == Cardinality({n \in DOMAIN ms : ms[n].Online})

\* The host names handed to every command: the primaries the operator knows.
appendPrimaries(ms) == {n \in DOMAIN ms : ms[n].Online /\ ms[n].AppPrimary}

----------------------------------------------------------------------------
(***************************************************************************)
(* Choosing a member.  Each function ranges over a Go map, whose order is  *)
(* unspecified, so each is the set of results some order yields.           *)
(***************************************************************************)

\* Members that chooseSeeds and chooseMember do not skip.
Candidates(ms) ==
    {n \in DOMAIN ms : ms[n].Online /\ ~ms[n].AppFailed /\ ~ms[n].AppPrimary}

\* The orders in which a loop over a Go map may visit the members in S.
Orders(S) ==
    LET D == 1..Cardinality(S)
    IN  {o \in [D -> S] : \A i, j \in D : i # j => o[i] # o[j]}

\* Mutant: the comparison is the wrong way round.
VisitSeedOldest(ms, best, n) ==
    IF best # <<>> /\ ms[n].SEQ >= ms[best[1]].SEQ THEN Append(best, n) ELSE <<n>>

\* One iteration of the loop of chooseSeeds.
VisitSeed(ms, best, n) ==
    IF best # <<>> /\ ms[n].SEQ <= ms[best[1]].SEQ THEN Append(best, n) ELSE <<n>>

\* bestPeer after that loop has visited the first i members of order.
SeedLoop(ms, order) ==
    LET best[i \in 0..Len(order)] == IF i = 0 THEN <<>> ELSE VisitSeed(ms, best[i - 1], order[i])
    IN  best

\* The empty sequence is "No seed peers available".
chooseSeeds(ms) ==
    {SeedLoop(ms, order)[Len(order)] : order \in Orders(Candidates(ms))}

\* One iteration of the loop of chooseMember; best is <<>> (nil) or <<member>>.
VisitMember(ms, best, n) ==
    IF \/ best = <<>>
       \/ ms[n].SEQ > ms[best[1]].SEQ
       \/ n < best[1]
    THEN <<n>> ELSE best

\* bestPeer after that loop has visited the first i members of order.
MemberLoop(ms, order) ==
    LET best[i \in 0..Len(order)] == IF i = 0 THEN <<>> ELSE VisitMember(ms, best[i - 1], order[i])
    IN  best

\* The empty set is "No further peers available".
chooseMember(ms) ==
    {m \in Candidates(ms) :
       \E order \in Orders(Candidates(ms)) : <<m>> = MemberLoop(ms, order)[Len(order)]}

\* The empty set is "No primaries remaining".
chooseCurrentPrimary(ms) ==
    LET healthy == {n \in DOMAIN ms : ms[n].AppPrimary /\ ~ms[n].AppFailed}
        gone    == {n \in healthy : ~ms[n].Online}
    IN  IF gone # {} THEN gone ELSE {n \in healthy : \A k \in healthy : k <= n}
============================================================================
