------------------------------ MODULE Operator ------------------------------
(***************************************************************************)
(* The operator's processes (cmd/operator/main.go): several may run, one    *)
(* leads, and only the leader starts a controller.  Leading is a lease on   *)
(* a record that the API server keeps: the holder renews it or exits, the   *)
(* others take it once they have seen it unchanged for LeaseDuration.  The  *)
(* election itself is a library's; main chooses the three durations, and    *)
(* that losing the lease ends the process.                                  *)
(*                                                                          *)
(* The leader then starts up in a goroutine of its own: the service account, *)
(* the CRD, readiness (pkg/controller/informer.go, pkg/util/retry.go).      *)
(* Controller models what it does afterwards.                               *)
(*                                                                          *)
(* Time passes in Tick; an attempt on the lease is a Get, then a write, and *)
(* other processes act between the two, and between the write and its       *)
(* answer.                                                                  *)
(***************************************************************************)
EXTENDS Integers

CONSTANTS
    Procs,
    LeaseDuration, RenewDeadline, RetryPeriod,
    MaxCall,        \* an API call ends within this time
    MaxRetries,     \* of Retry: 100 for the service account, 20 for the CRD
    createCRD,      \* the command line's flag
    MaxFaults       \* bound: calls that fail and processes that die

\* The holder has exited before its lease runs out for others: it may hear of its
\* last renewal late (one call), find out at the deadline that an attempt is still
\* going on (two calls), and then makes one more (two calls).
ASSUME OperatorAssumption ==
    /\ LeaseDuration \in Nat /\ RenewDeadline \in Nat /\ RetryPeriod \in Nat \ {0}
    /\ MaxCall \in Nat /\ MaxRetries \in Nat \ {0} /\ MaxFaults \in Nat
    /\ createCRD \in BOOLEAN
    /\ RetryPeriod <= RenewDeadline
    /\ RenewDeadline + 5 * MaxCall < LeaseDuration

VARIABLES
    holder,  \* the lease's holder: a set of at most one process
    idle,    \* time since the lease was written, up to LeaseDuration
    pc,      \* pc[p]: where p's attempt on the lease is
    stage,   \* where the leader's other goroutine is; "off" if p does not lead
    seen,    \* observedRecord is the record as it is
    age,     \* time since observedTime
    base,    \* the record has not changed since the attempt's Get
    expired, \* as found when the attempt began
    last,    \* no attempt follows this one
    call,    \* how long the call has taken
    poll,    \* time since the last renewal
    tries,   \* i in Retry
    crd,     \* the CRD on the API server
    faults   \* history

lease == <<holder, idle>>
view == <<seen, age>>
startup == <<stage, tries>>
vars == <<lease, pc, view, base, expired, last, call, poll, startup, crd, faults>>

Leads(p) == stage[p] # "off"
Calling(p) == pc[p] \in {"get", "write", "answer"}

Init ==
    /\ holder = {} /\ idle = LeaseDuration /\ crd = "absent" /\ faults = 0
    /\ pc = [p \in Procs |-> "down"] /\ stage = [p \in Procs |-> "off"]
    /\ seen = [p \in Procs |-> FALSE] /\ base = seen /\ expired = seen /\ last = seen
    /\ age = [p \in Procs |-> 0] /\ call = age /\ poll = age /\ tries = age

Fault == faults < MaxFaults /\ faults' = faults + 1

----------------------------------------------------------------------------
\* A process ends or begins; nothing is left of what it knew.
Fresh(p, c) ==
    /\ pc' = [pc EXCEPT ![p] = c] /\ stage' = [stage EXCEPT ![p] = "off"]
    /\ seen' = [seen EXCEPT ![p] = FALSE] /\ base' = [base EXCEPT ![p] = FALSE]
    /\ expired' = [expired EXCEPT ![p] = FALSE] /\ last' = [last EXCEPT ![p] = FALSE]
    /\ age' = [age EXCEPT ![p] = 0] /\ call' = [call EXCEPT ![p] = 0]
    /\ poll' = [poll EXCEPT ![p] = 0] /\ tries' = [tries EXCEPT ![p] = 0]

\* It dies; the kubelet starts it again, under the same identity.
Crash(p) == pc[p] # "down" /\ Fault /\ Fresh(p, "down") /\ UNCHANGED <<lease, crd>>

main(p) == pc[p] = "down" /\ Fresh(p, "wait") /\ UNCHANGED <<lease, crd, faults>>

\* Mutant: candidates do not wait for the lease to expire.
TryImpatient(p) ==
    /\ pc[p] = "wait" /\ (Leads(p) => poll[p] >= RetryPeriod)
    /\ pc' = [pc EXCEPT ![p] = "get"] /\ call' = [call EXCEPT ![p] = 0]
    /\ expired' = [expired EXCEPT ![p] = TRUE]
    /\ last' = [last EXCEPT ![p] = Leads(p) /\ poll[p] >= RenewDeadline]
    /\ UNCHANGED <<lease, view, base, poll, startup, crd, faults>>

\* tryAcquireOrRenew begins.  The holder's renewals are RetryPeriod apart; the one
\* that begins after RenewDeadline is the last.
Try(p) ==
    /\ pc[p] = "wait" /\ (Leads(p) => poll[p] >= RetryPeriod)
    /\ pc' = [pc EXCEPT ![p] = "get"] /\ call' = [call EXCEPT ![p] = 0]
    /\ expired' = [expired EXCEPT ![p] = age[p] >= LeaseDuration]
    /\ last' = [last EXCEPT ![p] = Leads(p) /\ poll[p] >= RenewDeadline]
    /\ UNCHANGED <<lease, view, base, poll, startup, crd, faults>>

\* The attempt ends.
Wait(p) ==
    /\ pc' = [pc EXCEPT ![p] = "wait"] /\ call' = [call EXCEPT ![p] = 0]
    /\ expired' = [expired EXCEPT ![p] = FALSE] /\ base' = [base EXCEPT ![p] = FALSE]
    /\ last' = [last EXCEPT ![p] = FALSE]

\* Mutant: losing the lease is only logged.
FailedIsLogged(p) == Wait(p) /\ UNCHANGED <<view, poll, startup>>

\* It failed: OnStoppedLeading ends the process if it was the last.
Failed(p) ==
    \/ last[p] /\ Fresh(p, "down")
    \/ ~last[p] /\ Wait(p) /\ UNCHANGED <<view, poll, startup>>

GetFails(p) == pc[p] = "get" /\ Fault /\ Failed(p) /\ UNCHANGED <<lease, crd>>

\* p observes the record as it is.
Observe(p) ==
    /\ seen' = [seen EXCEPT ![p] = TRUE]
    /\ age' = [age EXCEPT ![p] = IF seen[p] THEN @ ELSE 0]

\* The record is not its own, and new to p or not expired.
GetHeld(p) ==
    /\ pc[p] = "get" /\ holder # {} /\ p \notin holder
    /\ ~seen[p] \/ ~expired[p]
    /\ Observe(p) /\ Wait(p)
    /\ UNCHANGED <<lease, poll, startup, crd, faults>>

Get(p) ==
    /\ pc[p] = "get"
    /\ holder = {} \/ p \in holder \/ (seen[p] /\ expired[p])
    /\ Observe(p) /\ pc' = [pc EXCEPT ![p] = "write"]
    /\ call' = [call EXCEPT ![p] = 0] /\ base' = [base EXCEPT ![p] = TRUE]
    /\ UNCHANGED <<lease, expired, last, poll, startup, crd, faults>>

\* Create or Update: it succeeds if the record is the one that was read.
Write(p) ==
    /\ pc[p] = "write" /\ base[p]
    /\ holder' = {p} /\ idle' = 0 /\ pc' = [pc EXCEPT ![p] = "answer"]
    /\ base' = [q \in Procs |-> FALSE] /\ seen' = [q \in Procs |-> FALSE]
    /\ UNCHANGED <<age, expired, last, call, poll, startup, crd, faults>>

WriteFails(p) ==
    /\ pc[p] = "write" /\ Failed(p)
    /\ Fault \/ (~base[p] /\ UNCHANGED faults)
    /\ UNCHANGED <<lease, crd>>

\* The answer comes.  A process that did not lead starts to; a holder polls anew.
Written(p) ==
    /\ pc[p] = "answer" /\ Wait(p)
    /\ poll' = [poll EXCEPT ![p] = 0] /\ age' = [age EXCEPT ![p] = 0]
    /\ stage' = [stage EXCEPT ![p] = IF Leads(p) THEN @ ELSE "account"]
    /\ UNCHANGED <<lease, seen, tries, crd, faults>>

\* The answer is lost, so that p takes the write for a failure.
AnswerLost(p) == pc[p] = "answer" /\ Fault /\ Failed(p) /\ UNCHANGED <<lease, crd>>

\* Time passes, unless a call has to end or the holder has to try once more.
Tick ==
    /\ \A p \in Procs :
          /\ Calling(p) => call[p] < MaxCall
          /\ ~(pc[p] = "wait" /\ Leads(p) /\ poll[p] >= RenewDeadline)
    /\ idle' = IF idle < LeaseDuration THEN idle + 1 ELSE idle
    /\ call' = [p \in Procs |-> IF Calling(p) THEN call[p] + 1 ELSE call[p]]
    /\ poll' = [p \in Procs |-> IF Leads(p) THEN poll[p] + 1 ELSE poll[p]]
    /\ age' = [p \in Procs |-> IF seen[p] /\ ~Leads(p) /\ age[p] < LeaseDuration
                               THEN age[p] + 1 ELSE age[p]]
    /\ UNCHANGED <<holder, pc, seen, base, expired, last, startup, crd, faults>>

----------------------------------------------------------------------------
\* Start-up does not touch the lease.
election == <<lease, pc, view, base, expired, last, call, poll>>

GoTo(p, s) == stage' = [stage EXCEPT ![p] = s] /\ tries' = [tries EXCEPT ![p] = 0]

\* Mutant: one retry too many.
OnceMoreTooMany(p) == tries[p] <= MaxRetries /\ tries' = [tries EXCEPT ![p] = @ + 1] /\ UNCHANGED stage

\* Retry waits and calls f again, MaxRetries times at most.
OnceMore(p) == tries[p] < MaxRetries /\ tries' = [tries EXCEPT ![p] = @ + 1] /\ UNCHANGED stage

\* getMyPodServiceAccount retries a failed call; when it gives up the process ends.
getMyPodServiceAccount(p) ==
    /\ stage[p] = "account"
    /\ \/ GoTo(p, IF createCRD THEN "crd" ELSE "ready") /\ UNCHANGED <<election, faults>>
       \/ Fault /\ OnceMore(p) /\ UNCHANGED election
       \/ Fault /\ tries[p] = MaxRetries /\ Fresh(p, "down") /\ UNCHANGED lease
    /\ UNCHANGED crd

\* Mutant: a CRD that exists is an error.
CreateCRDAnew(p) ==
    /\ stage[p] = "crd"
    /\ \/ crd = "absent" /\ crd' = "pending" /\ GoTo(p, "await") /\ UNCHANGED faults
       \/ Fault /\ UNCHANGED <<startup, crd>>
    /\ UNCHANGED election

\* A CRD that exists is as good as a new one.
CreateCRD(p) ==
    /\ stage[p] = "crd"
    /\ \/ /\ GoTo(p, "await") /\ UNCHANGED faults
          /\ crd' = IF crd = "absent" THEN "pending" ELSE crd
       \/ Fault /\ UNCHANGED <<startup, crd>>
    /\ UNCHANGED election

\* WaitCRDReady retries until the CRD is established.  A failed call or a rejected
\* name ends the wait at once; then Start begins again with CreateCRD.  At the end
\* SetReady, and the informer runs.
WaitCRDReady(p) ==
    /\ stage[p] = "await"
    /\ \/ crd = "established" /\ GoTo(p, "ready") /\ UNCHANGED faults
       \/ crd = "pending" /\ OnceMore(p) /\ UNCHANGED faults
       \/ crd = "pending" /\ tries[p] = MaxRetries /\ GoTo(p, "crd") /\ UNCHANGED faults
       \/ crd \in {"rejected", "absent"} /\ GoTo(p, "crd") /\ UNCHANGED faults
       \/ Fault /\ GoTo(p, "crd")
    /\ UNCHANGED <<election, crd>>

\* The API server accepts or rejects the CRD's names; a rejected CRD is deleted by a
\* user.
Names ==
    /\ \/ crd = "pending" /\ crd' = "established" /\ UNCHANGED faults
       \/ crd = "pending" /\ Fault /\ crd' = "rejected"
       \/ crd = "rejected" /\ crd' = "absent" /\ UNCHANGED faults
    /\ UNCHANGED <<election, startup>>

----------------------------------------------------------------------------
Elect(p) ==
    \/ main(p) \/ Try(p) \/ GetFails(p) \/ GetHeld(p) \/ Get(p)
    \/ Write(p) \/ WriteFails(p) \/ Written(p) \/ AnswerLost(p)

StartUp(p) == getMyPodServiceAccount(p) \/ CreateCRD(p) \/ WaitCRDReady(p)

Next ==
    \/ \E p \in Procs : Elect(p) \/ StartUp(p) \/ Crash(p)
    \/ Tick \/ Names

\* Processes run, calls end, time passes and the API server looks at CRDs.
Fairness ==
    /\ \A p \in Procs : WF_vars(Elect(p)) /\ WF_vars(StartUp(p))
    /\ WF_vars(Tick) /\ WF_vars(Names)

Spec == Init /\ [][Next]_vars
FairSpec == Spec /\ Fairness

----------------------------------------------------------------------------
TypeOK ==
    /\ holder \subseteq Procs /\ idle \in 0..LeaseDuration /\ faults \in 0..MaxFaults
    /\ pc \in [Procs -> {"down", "wait", "get", "write", "answer"}]
    /\ stage \in [Procs -> {"off", "account", "crd", "await", "ready"}]
    /\ seen \in [Procs -> BOOLEAN] /\ base \in [Procs -> BOOLEAN]
    /\ expired \in [Procs -> BOOLEAN] /\ last \in [Procs -> BOOLEAN]
    /\ age \in [Procs -> 0..LeaseDuration] /\ call \in [Procs -> 0..MaxCall]
    /\ poll \in [Procs -> Nat] /\ tries \in [Procs -> 0..MaxRetries]
    /\ crd \in {"absent", "pending", "rejected", "established"}

\* How long a leader's last renewal may be past.
MaxPoll(p) ==
    RenewDeadline
      + (IF pc[p] = "wait" THEN 2 * MaxCall
         ELSE call[p] + (IF last[p] THEN 2 * MaxCall ELSE 0) + (IF pc[p] = "get" THEN 0 ELSE MaxCall))

\* Whoever leads holds the lease, and wrote it less than LeaseDuration ago; an attempt
\* that is about to take it from a holder has seen it unchanged for that long.
LeaseInv(p) ==
    /\ last[p] => Leads(p)
    /\ seen[p] => age[p] <= idle
    /\ pc[p] = "get" /\ seen[p] /\ expired[p] => idle = LeaseDuration
    /\ pc[p] = "write" /\ base[p] /\ holder # {} /\ p \notin holder => idle = LeaseDuration
    /\ pc[p] = "answer" => holder = {p} /\ idle <= call[p]
    /\ Leads(p) => /\ pc[p] # "down" /\ holder = {p}
                   /\ idle <= poll[p] + MaxCall /\ poll[p] <= MaxPoll(p)
                   /\ pc[p] = "write" => base[p]

\* Inductive invariant: the two together.
OperatorInv == TypeOK /\ \A p \in Procs : LeaseInv(p)

\* At most one process is past the election, so at most one controller acts, whatever
\* processes die, calls fail or answers are lost: a leader that fails to renew in
\* time ends its process before another one leads.
OneController == \A p, q \in Procs : Leads(p) /\ Leads(q) => p = q

\* A leader ends only by a fault of its own calls: however late the others are, none
\* of them gets in between its reading the lease and renewing it.
LedUntilFault == [][\A p \in Procs : Leads(p) /\ ~Leads(p)' => faults' # faults]_vars

\* When nothing fails any more, a controller runs and goes on running.
SomeoneServes == <>[](\E p \in Procs : stage[p] = "ready")
=============================================================================
