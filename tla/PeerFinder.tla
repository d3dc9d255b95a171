----------------------------- MODULE PeerFinder -----------------------------
(***************************************************************************)
(* The peer finder that is the main process of the application containers  *)
(* (apps/*/peer-finder.go) and the script it calls (apps/*/on-change.sh),  *)
(* one in each Pod of a StatefulSet whose Pods die and come back.          *)
(*                                                                         *)
(* Each looks its Service up in the DNS once a second and hands the sorted *)
(* names to the script when they changed.  The script numbers the names,   *)
(* writes the number of its own Pod to one file and then the list to       *)
(* another; the files live in the container.  Pods are ordinals, which are *)
(* sorted like the names and occur in no other name while they have one    *)
(* digit.  A look-up that fails, lacks the own name or shows what is       *)
(* already known changes nothing.                                          *)
(***************************************************************************)
EXTENDS Monkeys

CONSTANT MaxFaults \* bound: scripts that fail

ASSUME PeerFinderAssumption == Pods \subseteq 0..9 /\ MaxFaults \in Nat

VARIABLES
    args,     \* the flags and the environment, the same in all Pods
    dns,      \* the Pods the name server has records of
    pc,       \* pc[p]: where the main process of p is
    peers,    \* peers[p]: the names the script was last given
    newPeers, \* newPeers[p]: the result of the look-up
    myId,     \* myId[p]: rss.myid, 0 when there is no such file
    cfg,      \* cfg[p]: rss.peers, {} when there is no such file
    faults    \* failed scripts so far

finder == <<pc, peers, newPeers, myId, cfg>>
vars == <<up, monkeyVars, args, dns, finder, faults>>

\* Where the domain comes from: -domain, the search path in resolv.conf, a
\* search path that does not have the expected form (no domain is found, or
\* not the one of this Pod), or no file at all.  The scripts are "onChange" if
\* -on-change is given, with or without -on-start.
Args == [service : BOOLEAN, domain : {"right", "other", "none", "unreadable"},
         scripts : {"none", "onStart", "onChange"}]

TypeOK ==
    /\ MonkeyTypeOK
    /\ args \in Args
    /\ dns \subseteq Pods
    /\ pc \in [Pods -> {"main", "poll", "number", "copy", "exited"}]
    /\ peers \in [Pods -> SUBSET Pods]
    /\ newPeers \in [Pods -> SUBSET Pods]
    /\ myId \in [Pods -> Nat]
    /\ cfg \in [Pods -> SUBSET Pods]
    /\ faults \in 0..MaxFaults

Init ==
    /\ MonkeyInit
    /\ args \in Args
    /\ dns = Pods
    /\ pc = [p \in Pods |-> "main"]
    /\ peers = [p \in Pods |-> {}]
    /\ newPeers = [p \in Pods |-> {}]
    /\ myId = [p \in Pods |-> 0]
    /\ cfg = [p \in Pods |-> {}]
    /\ faults = 0

\* A new container of p: nothing of the old one is left.
Fresh(p) ==
    /\ pc' = [pc EXCEPT ![p] = "main"]
    /\ peers' = [peers EXCEPT ![p] = {}]
    /\ newPeers' = [newPeers EXCEPT ![p] = {}]
    /\ myId' = [myId EXCEPT ![p] = 0]
    /\ cfg' = [cfg EXCEPT ![p] = {}]

Goto(p, to) == pc' = [pc EXCEPT ![p] = to]

others == <<up, monkeyVars, args, dns>>

----------------------------------------------------------------------------
Complete == args.service /\ args.domain \in {"right", "other"} /\ args.scripts # "none"

\* main() up to its loop.
main(p) ==
    /\ p \in up /\ pc[p] = "main"
    /\ Goto(p, IF Complete THEN "poll" ELSE "exited")
    /\ UNCHANGED <<others, peers, newPeers, myId, cfg, faults>>

\* Has(myName): the name is made from the domain that was found.
HasMyName(p, names) == args.domain = "right" /\ p \in names

\* One look-up that finds something new.
lookup(p) ==
    /\ p \in up /\ pc[p] = "poll"
    /\ HasMyName(p, dns) /\ dns # peers[p]
    /\ newPeers' = [newPeers EXCEPT ![p] = dns]
    /\ Goto(p, "number")
    /\ UNCHANGED <<others, peers, myId, cfg, faults>>

\* The number the script gives to p in a sorted list.
Position(p, names) == Cardinality({q \in names : q <= p})

\* Mutant: a number that was written once is kept.
NumberOnce(p) ==
    /\ p \in up /\ pc[p] = "number"
    /\ myId' = [myId EXCEPT ![p] = IF @ = 0 THEN Position(p, newPeers[p]) ELSE @]
    /\ Goto(p, "copy")
    /\ UNCHANGED <<others, peers, newPeers, cfg, faults>>

\* on-change.sh writes rss.myid.  The own name is in the list, so the test
\* that the file exists never fails.
Number(p) ==
    /\ p \in up /\ pc[p] = "number"
    /\ myId' = [myId EXCEPT ![p] = Position(p, newPeers[p])]
    /\ Goto(p, "copy")
    /\ UNCHANGED <<others, peers, newPeers, cfg, faults>>

\* Mutant: the finder remembers what the name server says by now.
CopyLatest(p) ==
    /\ p \in up /\ pc[p] = "copy"
    /\ cfg' = [cfg EXCEPT ![p] = newPeers[p]]
    /\ peers' = [peers EXCEPT ![p] = dns]
    /\ Goto(p, IF args.scripts = "onChange" THEN "poll" ELSE "exited")
    /\ UNCHANGED <<others, newPeers, myId, faults>>

\* on-change.sh installs rss.peers and ends; main() remembers the list and goes
\* on with -on-change, or ends when there is none.
Copy(p) ==
    /\ p \in up /\ pc[p] = "copy"
    /\ cfg' = [cfg EXCEPT ![p] = newPeers[p]]
    /\ peers' = [peers EXCEPT ![p] = newPeers[p]]
    /\ Goto(p, IF args.scripts = "onChange" THEN "poll" ELSE "exited")
    /\ UNCHANGED <<others, newPeers, myId, faults>>

\* shellOut: a script that fails takes the finder with it.
ScriptFails(p) ==
    /\ p \in up /\ pc[p] \in {"number", "copy"}
    /\ faults < MaxFaults /\ faults' = faults + 1
    /\ Goto(p, "exited")
    /\ UNCHANGED <<others, peers, newPeers, myId, cfg>>

\* The kubelet starts a container whose main process ended again.
ContainerRestarts(p) ==
    /\ p \in up /\ pc[p] = "exited"
    /\ Fresh(p)
    /\ UNCHANGED <<others, faults>>

\* The name server learns who is there now; an unready Pod counts
\* (PublishNotReadyAddresses).
DnsCatchesUp ==
    /\ dns # up
    /\ dns' = up
    /\ UNCHANGED <<up, monkeyVars, args, finder, faults>>

\* What takes Pods away and brings new ones.
Chaos ==
    /\ MonkeyStep
    /\ IF up' = up THEN UNCHANGED finder ELSE \A p \in up \ up' : Fresh(p)
    /\ UNCHANGED <<args, dns, faults>>

Replaced == (\E p \in Pods : PodReplaced(p)) /\ UNCHANGED <<args, dns, finder, faults>>

Finder(p) == main(p) \/ lookup(p) \/ Number(p) \/ Copy(p)

Next ==
    \/ \E p \in Pods : Finder(p) \/ ScriptFails(p) \/ ContainerRestarts(p)
    \/ DnsCatchesUp \/ Chaos \/ Replaced

\* Every process of a Pod runs on, the name servers and Kubernetes do their
\* work, and so does the goroutine that kills (but see MaxRounds).
Fairness ==
    /\ \A p \in Pods : WF_vars(Finder(p)) /\ WF_vars(ContainerRestarts(p))
    /\ WF_vars(DnsCatchesUp) /\ WF_vars(Replaced) /\ WF_vars(Chaos)

Spec == Init /\ [][Next]_vars
FairSpec == Spec /\ Fairness

----------------------------------------------------------------------------
\* Two Pods that work from the same list never have the same number, however
\* the look-ups and scripts of the two interleave with Pods coming and going,
\* except between the two writes of one script (on-change.sh writes rss.myid
\* before rss.peers).
IdsDistinct ==
    \A p, q \in up :
        /\ p # q /\ cfg[p] # {} /\ cfg[p] = cfg[q]
        /\ {pc[p], pc[q]} \intersect {"copy", "exited"} = {}
        => myId[p] # myId[q]

\* What IdsDistinct rests on: the script is only given lists with the own name
\* in them, and outside of it the number is the position in the list.
PeerFinderInv ==
    \A p \in Pods :
        /\ pc[p] \in {"number", "copy"} => p \in newPeers[p]
        /\ pc[p] = "copy" => myId[p] = Position(p, newPeers[p])
        /\ pc[p] \notin {"copy", "exited"} /\ cfg[p] # {} =>
              p \in cfg[p] /\ myId[p] = Position(p, cfg[p])

\* The inductive invariant: see PeerFinderProofs.
PeersInv == TypeOK /\ MonkeyInv /\ PeerFinderInv

\* Once Pods stop dying, all of them work from the full list for good, provided
\* the finder was given what it needs (its loop compares what it finds with
\* what the script was given, not with what it found before).
ListsAgree ==
    <>[](Complete /\ args.domain = "right" /\ args.scripts = "onChange" =>
            \A p \in Pods : cfg[p] = Pods /\ myId[p] = Position(p, Pods))
============================================================================
