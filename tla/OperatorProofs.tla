--------------------------- MODULE OperatorProofs ---------------------------
(***************************************************************************)
(* At most one controller acts, for any number of processes and any         *)
(* durations that leave the leader time to exit.                            *)
(***************************************************************************)
EXTENDS Operator, TLAPS

\* It holds at the start.
LEMMA InitInv == Init => OperatorInv
  <1> USE OperatorAssumption
  <1> SUFFICES ASSUME Init PROVE OperatorInv
    OBVIOUS
  <1>1. TypeOK
    BY DEF Init, TypeOK
  <1>2. ASSUME NEW p \in Procs PROVE LeaseInv(p)
    BY DEF Init, LeaseInv, Leads
  <1> QED
    BY <1>1, <1>2 DEF OperatorInv

\* A process that does not lead, and does not try to, is of no concern.
LEMMA FreshInv ==
  ASSUME OperatorInv, NEW p \in Procs, NEW c \in {"wait", "down"}, Fresh(p, c),
         UNCHANGED <<lease, crd>>, faults' \in 0..MaxFaults
  PROVE  OperatorInv'
  <1> USE OperatorAssumption
  <1>1. TypeOK'
    BY DEF OperatorInv, TypeOK, Fresh, lease
  <1>2. LeaseInv(p)'
    BY DEF OperatorInv, TypeOK, LeaseInv, Leads, Fresh, lease
  <1>3. ASSUME NEW q \in Procs, q # p PROVE LeaseInv(q)'
    <2>1. LeaseInv(q)
      BY DEF OperatorInv
    <2> QED
      BY <1>3, <2>1 DEF OperatorInv, TypeOK, LeaseInv, Leads, MaxPoll, Fresh, lease
  <1> QED
    BY <1>1, <1>2, <1>3 DEF OperatorInv

\* The attempt of p fails.
LEMMA FailedInv ==
  ASSUME OperatorInv, NEW p \in Procs, Calling(p), Failed(p),
         UNCHANGED <<lease, crd>>, faults' \in 0..MaxFaults
  PROVE  OperatorInv'
  <1> USE OperatorAssumption
  <1>1. CASE last[p]
    BY <1>1, FreshInv DEF Failed
  <1>2. CASE ~last[p]
    <2>1. Wait(p) /\ UNCHANGED <<view, poll, startup>>
      BY <1>2 DEF Failed
    <2>2. TypeOK'
      BY <2>1 DEF OperatorInv, TypeOK, Wait, lease, view, startup
    <2>3. LeaseInv(p)'
      <3>1. LeaseInv(p)
        BY DEF OperatorInv
      <3> QED
        BY <1>2, <2>1, <3>1 DEF OperatorInv, TypeOK, LeaseInv, Leads, MaxPoll, Calling, Wait,
                                lease, view, startup
    <2>4. ASSUME NEW q \in Procs, q # p PROVE LeaseInv(q)'
      <3>1. LeaseInv(q)
        BY DEF OperatorInv
      <3> QED
        BY <2>1, <2>4, <3>1 DEF OperatorInv, TypeOK, LeaseInv, Leads, MaxPoll, Wait,
                                lease, view, startup
    <2> QED
      BY <2>2, <2>3, <2>4 DEF OperatorInv
  <1> QED
    BY <1>1, <1>2

\* Steps that change only where the start-up of a leader is, or the CRD.
LEMMA StartUpOnlyInv ==
  ASSUME OperatorInv, UNCHANGED election, faults' \in 0..MaxFaults,
         crd' \in {"absent", "pending", "rejected", "established"},
         stage' \in [Procs -> {"off", "account", "crd", "await", "ready"}],
         tries' \in [Procs -> 0..MaxRetries],
         \A p \in Procs : Leads(p)' <=> Leads(p)
  PROVE  OperatorInv'
  <1>1. TypeOK'
    BY DEF OperatorInv, TypeOK, election, lease, view
  <1>2. ASSUME NEW q \in Procs PROVE LeaseInv(q)'
    <2>1. LeaseInv(q) /\ (Leads(q)' <=> Leads(q))
      BY DEF OperatorInv
    <2> HIDE DEF Leads
    <2> QED
      BY <2>1 DEF LeaseInv, MaxPoll, election, lease, view
  <1> QED
    BY <1>1, <1>2 DEF OperatorInv

\* An attempt on the lease.
LEMMA ElectInv == ASSUME OperatorInv, NEW p \in Procs, Elect(p) PROVE OperatorInv'
  <1> USE OperatorAssumption
  <1>0. /\ TypeOK /\ LeaseInv(p) /\ \A q \in Procs : LeaseInv(q)
        /\ Fault \/ UNCHANGED faults => faults' \in 0..MaxFaults
    BY DEF OperatorInv, TypeOK, Fault
  <1>1. CASE main(p)
    BY <1>0, <1>1, FreshInv DEF main
  <1>2. CASE Try(p)
    <2>1. TypeOK'
      BY <1>0, <1>2 DEF Try, TypeOK, lease, view, startup
    <2>2. LeaseInv(p)'
      <3>1. /\ pc'[p] = "get" /\ call'[p] = 0 /\ UNCHANGED <<lease, view, base, poll, startup>>
            /\ expired'[p] => age[p] >= LeaseDuration
            /\ last'[p] <=> Leads(p) /\ poll[p] >= RenewDeadline
        BY <1>0, <1>2 DEF Try, TypeOK
      <3>2. ~last[p] \/ Leads(p)
        BY <1>0 DEF LeaseInv
      <3>3. Leads(p) => poll[p] <= RenewDeadline + 2 * MaxCall
        BY <1>0, <1>2 DEF LeaseInv, Try, MaxPoll
      <3> QED
        BY <1>0, <3>1, <3>2, <3>3 DEF TypeOK, LeaseInv, Leads, MaxPoll, lease, view, startup
    <2>3. ASSUME NEW q \in Procs, q # p PROVE LeaseInv(q)'
      BY <1>0, <1>2, <2>3 DEF Try, TypeOK, LeaseInv, Leads, MaxPoll, lease, view, startup
    <2> QED
      BY <2>1, <2>2, <2>3 DEF OperatorInv
  <1>3. CASE GetFails(p)
    BY <1>0, <1>3, FailedInv DEF GetFails, Calling
  <1>4. CASE GetHeld(p)
    <2>1. TypeOK'
      BY <1>0, <1>4 DEF GetHeld, Observe, Wait, TypeOK, lease, startup
    <2>2. LeaseInv(p)'
      BY <1>0, <1>4 DEF GetHeld, Observe, Wait, TypeOK, LeaseInv, Leads, lease, startup
    <2>3. ASSUME NEW q \in Procs, q # p PROVE LeaseInv(q)'
      BY <1>0, <1>4, <2>3 DEF GetHeld, Observe, Wait, TypeOK, LeaseInv, Leads, MaxPoll, lease, startup
    <2> QED
      BY <2>1, <2>2, <2>3 DEF OperatorInv
  <1>5. CASE Get(p)
    <2>1. TypeOK'
      BY <1>0, <1>5 DEF Get, Observe, TypeOK, lease, startup
    <2>2. LeaseInv(p)'
      BY <1>0, <1>5 DEF Get, Observe, TypeOK, LeaseInv, Leads, MaxPoll, lease, startup
    <2>3. ASSUME NEW q \in Procs, q # p PROVE LeaseInv(q)'
      BY <1>0, <1>5, <2>3 DEF Get, Observe, TypeOK, LeaseInv, Leads, MaxPoll, lease, startup
    <2> QED
      BY <2>1, <2>2, <2>3 DEF OperatorInv
  <1>6. CASE Write(p)
    <2>1. TypeOK'
      BY <1>0, <1>6 DEF Write, TypeOK, startup
    <2>2. LeaseInv(p)'
      BY <1>0, <1>6 DEF Write, TypeOK, LeaseInv, Leads, MaxPoll, startup
    \* Whoever else led would have written the lease in time.
    <2>3. ASSUME NEW q \in Procs, q # p PROVE ~Leads(q) /\ pc[q] # "answer"
      <3>1. Leads(q) => holder = {q} /\ idle < LeaseDuration
        BY <1>0 DEF TypeOK, LeaseInv, MaxPoll
      <3>2. pc[q] = "answer" => holder = {q} /\ idle < LeaseDuration
        BY <1>0 DEF TypeOK, LeaseInv
      <3>3. p \notin holder /\ holder # {} => idle = LeaseDuration
        BY <1>0, <1>6 DEF Write, LeaseInv
      <3> QED
        BY <2>3, <3>1, <3>2, <3>3
    <2>4. ASSUME NEW q \in Procs, q # p PROVE LeaseInv(q)'
      BY <1>0, <1>6, <2>3, <2>4 DEF Write, TypeOK, LeaseInv, Leads, startup
    <2> QED
      BY <2>1, <2>2, <2>4 DEF OperatorInv
  <1>7. CASE WriteFails(p)
    BY <1>0, <1>7, FailedInv DEF WriteFails, Calling
  <1>8. CASE Written(p)
    <2>1. TypeOK'
      BY <1>0, <1>8 DEF Written, Wait, TypeOK, lease
    <2>2. LeaseInv(p)'
      BY <1>0, <1>8 DEF Written, Wait, TypeOK, LeaseInv, Leads, MaxPoll, lease
    <2>3. ASSUME NEW q \in Procs, q # p PROVE LeaseInv(q)'
      BY <1>0, <1>8, <2>3 DEF Written, Wait, TypeOK, LeaseInv, Leads, MaxPoll, lease
    <2> QED
      BY <2>1, <2>2, <2>3 DEF OperatorInv
  <1>9. CASE AnswerLost(p)
    BY <1>0, <1>9, FailedInv DEF AnswerLost, Calling
  <1> QED
    BY <1>1, <1>2, <1>3, <1>4, <1>5, <1>6, <1>7, <1>8, <1>9 DEF Elect

\* Time passes.  No call takes longer than MaxCall, and nobody waits past the deadline.
LEMMA TickInv == ASSUME OperatorInv, Tick PROVE OperatorInv'
  <1> USE OperatorAssumption
  <1>1. TypeOK'
    BY DEF OperatorInv, TypeOK, Tick, Calling, startup
  <1>2. ASSUME NEW p \in Procs PROVE LeaseInv(p)'
    <2>1. LeaseInv(p)
      BY DEF OperatorInv
    <2> QED
      BY <2>1 DEF OperatorInv, TypeOK, Tick, Calling, LeaseInv, Leads, MaxPoll, startup
  <1> QED
    BY <1>1, <1>2 DEF OperatorInv

\* The leader's start-up.
LEMMA StartUpInv == ASSUME OperatorInv, NEW p \in Procs, StartUp(p) PROVE OperatorInv'
  <1> USE OperatorAssumption
  <1>0. TypeOK /\ (Fault \/ UNCHANGED faults => faults' \in 0..MaxFaults)
    BY DEF OperatorInv, TypeOK, Fault
  <1>1. CASE stage[p] = "account" /\ (\E c \in {"down"} : Fresh(p, c)) /\ UNCHANGED <<lease, crd>> /\ Fault
    BY <1>0, <1>1, FreshInv
  <1>2. CASE /\ UNCHANGED election /\ Leads(p)
             /\ \/ OnceMore(p)
                \/ \E s \in {"crd", "await", "ready"} : GoTo(p, s)
                \/ UNCHANGED startup
             /\ Fault \/ UNCHANGED faults
             /\ crd' \in {"absent", "pending", "rejected", "established"}
    <2>1. tries' \in [Procs -> 0..MaxRetries]
      BY <1>0, <1>2 DEF TypeOK, OnceMore, GoTo, startup
    <2>2. /\ stage' \in [Procs -> {"off", "account", "crd", "await", "ready"}]
          /\ \A q \in Procs : Leads(q)' <=> Leads(q)
      BY <1>0, <1>2 DEF TypeOK, OnceMore, GoTo, startup, Leads
    <2> QED
      BY <1>0, <1>2, <2>1, <2>2, StartUpOnlyInv
  <1>3. CASE getMyPodServiceAccount(p)
    BY <1>0, <1>1, <1>2, <1>3 DEF getMyPodServiceAccount, Leads, TypeOK
  <1>4. CASE CreateCRD(p)
    BY <1>0, <1>2, <1>4 DEF CreateCRD, Leads, TypeOK
  <1>5. CASE WaitCRDReady(p)
    BY <1>0, <1>2, <1>5 DEF WaitCRDReady, Leads, TypeOK
  <1> QED
    BY <1>3, <1>4, <1>5 DEF StartUp

\* Every step preserves it.
LEMMA NextInv == OperatorInv /\ [Next]_vars => OperatorInv'
  <1> USE OperatorAssumption
  <1> SUFFICES ASSUME OperatorInv, [Next]_vars PROVE OperatorInv'
    OBVIOUS
  <1>0. TypeOK /\ (Fault \/ UNCHANGED faults => faults' \in 0..MaxFaults)
    BY DEF OperatorInv, TypeOK, Fault
  <1>1. CASE \E p \in Procs : Crash(p)
    BY <1>0, <1>1, FreshInv DEF Crash
  <1>2. CASE Names \/ UNCHANGED vars
    BY <1>0, <1>2, StartUpOnlyInv DEF Names, vars, election, startup, TypeOK, Leads
  <1> QED
    BY <1>1, <1>2, ElectInv, StartUpInv, TickInv DEF Next

\* What each process believes of the lease and of its own place fits what the API
\* server has, whatever requests are delayed, lost or answered late.
THEOREM OperatorInvAlways == Spec => []OperatorInv
  BY InitInv, NextInv, PTL DEF Spec

\* At most one process is past the election, so at most one controller acts.
THEOREM OneControllerAlways == Spec => []OneController
  <1>1. OperatorInv => OneController
    BY DEF OperatorInv, LeaseInv, OneController
  <1> QED
    BY <1>1, OperatorInvAlways, PTL

\* Nobody takes the lease from a leader whose calls succeed.
THEOREM LedUntilFaultAlways == Spec => LedUntilFault
  <1>1. OperatorInv /\ [Next]_vars
          => [\A p \in Procs : Leads(p) /\ ~Leads(p)' => faults' # faults]_vars
    <2> SUFFICES ASSUME OperatorInv, Next, NEW p \in Procs, Leads(p), ~Leads(p)'
                 PROVE  faults' # faults
      BY DEF vars
    <2>1. TypeOK /\ LeaseInv(p) /\ (Fault => faults' # faults)
      BY DEF OperatorInv, TypeOK, Fault
    <2>2. ASSUME NEW q \in Procs, Elect(q) PROVE faults' # faults
      <3>1. CASE main(q)
        BY <2>1, <3>1 DEF main, Fresh, LeaseInv, Leads, TypeOK
      <3>2. CASE Try(q) \/ GetHeld(q) \/ Get(q) \/ Write(q)
        BY <3>2 DEF Try, GetHeld, Get, Write, startup, Leads
      <3>3. CASE WriteFails(q)
        BY <2>1, <3>3 DEF WriteFails, Failed, Fresh, LeaseInv, Leads, TypeOK, startup
      <3>4. CASE Written(q)
        BY <2>1, <3>4 DEF Written, Leads, TypeOK
      <3> QED
        BY <2>1, <2>2, <3>1, <3>2, <3>3, <3>4 DEF Elect, GetFails, AnswerLost
    <2>3. ASSUME NEW q \in Procs, StartUp(q) PROVE faults' # faults
      BY <2>1, <2>3 DEF StartUp, getMyPodServiceAccount, CreateCRD, WaitCRDReady, GoTo, OnceMore,
                        startup, Leads, TypeOK
    <2>4. CASE Tick \/ Names
      BY <2>4 DEF Tick, Names, startup, Leads
    <2> QED
      BY <2>1, <2>2, <2>3, <2>4 DEF Next, Crash
  <1> QED
    BY <1>1, OperatorInvAlways, PTL DEF Spec, LedUntilFault
=============================================================================
