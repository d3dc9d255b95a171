------------------------------ MODULE Monkeys ------------------------------
(***************************************************************************)
(* The chaos the operator inflicts on its own clusters when it is started  *)
(* with -chaos-level (cmd/operator/main.go, pkg/chaos/chaos.go), and what  *)
(* Kubernetes does with the Pods it deletes.                               *)
(*                                                                         *)
(* The goroutine waits for its limiter, throws a coin, lists the Pods that *)
(* carry the label app=etcd, picks some of them and deletes those one by   *)
(* one.  Neither the limiter nor a coin that says "skip" changes anything, *)
(* and the context is never cancelled, so a round begins with a list that  *)
(* succeeded.  MaxRounds bounds the rounds.                                *)
(***************************************************************************)
EXTENDS Integers, FiniteSets

CONSTANTS
    Pods,        \* ordinals of the Pods of the StatefulSet
    Selected,    \* those that carry the label app=etcd
    ChaosLevels, \* values of the flag -chaos-level
    MaxRounds    \* bound: rounds of killing

ASSUME MonkeysAssumption ==
    /\ Pods \subseteq Nat /\ IsFiniteSet(Pods) /\ Selected \subseteq Pods
    /\ ChaosLevels \subseteq Int /\ MaxRounds \in Nat

VARIABLES
    up,      \* the Pods that exist
    level,   \* the flag
    monkey,  \* where the goroutine is; "off" when there is none
    listed,  \* pods.Items
    max,     \* how many Pods this round is going to kill
    tokills, \* the names still to be deleted
    rounds   \* rounds so far

monkeyVars == <<level, monkey, listed, max, tokills, rounds>>

MonkeyTypeOK ==
    /\ up \subseteq Pods /\ level \in ChaosLevels
    /\ monkey \in {"off", "sleep", "wait", "choose", "kill"}
    /\ listed \subseteq Selected /\ tokills \subseteq listed
    /\ max \in Nat /\ rounds \in 0..MaxRounds

\* startChaos: level 1 gives the clusters a minute before it starts.
startChaos ==
    monkey = IF level = 1 THEN "sleep" ELSE IF level = 2 THEN "wait" ELSE "off"

KillMax == IF level = 1 THEN 1 ELSE 3

MonkeyInit ==
    /\ up = Pods /\ level \in ChaosLevels /\ startChaos
    /\ listed = {} /\ max = 0 /\ tokills = {} /\ rounds = 0

MonkeyWakes ==
    /\ monkey = "sleep" /\ monkey' = "wait"
    /\ UNCHANGED <<up, level, listed, max, tokills, rounds>>

\* Mutant: as many Pods as were drawn, even if fewer exist.
CapDrawn(kmax, items) == kmax

Cap(kmax, items) == IF kmax < Cardinality(items) THEN kmax ELSE Cardinality(items)

\* Mutant: the label is not asked for.
ListAll ==
    /\ monkey = "wait" /\ rounds < MaxRounds
    /\ listed' = up /\ listed' # {}
    /\ \E kmax \in 1..KillMax : max' = Cap(kmax, listed')
    /\ monkey' = "choose" /\ rounds' = rounds + 1
    /\ UNCHANGED <<up, level, tokills>>

\* A round begins: the Pods are listed and their number is drawn.
List ==
    /\ monkey = "wait" /\ rounds < MaxRounds
    /\ listed' = Selected \intersect up /\ listed' # {}
    /\ \E kmax \in 1..KillMax : max' = Cap(kmax, listed')
    /\ monkey' = "choose" /\ rounds' = rounds + 1
    /\ UNCHANGED <<up, level, tokills>>

\* Names are drawn until there are enough different ones.
Draw ==
    /\ monkey = "choose" /\ monkey' = "kill"
    /\ tokills' \in {S \in SUBSET listed : Cardinality(S) = max}
    /\ UNCHANGED <<up, level, listed, max, rounds>>

\* One Delete without a grace period; a Pod that is already gone, or any other
\* failure, is logged and the next one is tried.
Kill(p) ==
    /\ monkey = "kill" /\ p \in tokills
    /\ tokills' = tokills \ {p}
    /\ up' \in {up, up \ {p}}
    /\ UNCHANGED <<level, monkey, listed, max, rounds>>

Killed ==
    /\ monkey = "kill" /\ tokills = {}
    /\ monkey' = "wait" /\ listed' = {} /\ max' = 0
    /\ UNCHANGED <<up, level, tokills, rounds>>

\* The StatefulSet controller replaces a Pod that is gone.
PodReplaced(p) ==
    /\ p \in Pods \ up
    /\ up' = up \union {p}
    /\ UNCHANGED monkeyVars

MonkeyStep == MonkeyWakes \/ List \/ Draw \/ Killed \/ \E p \in Pods : Kill(p)

\* What the rounds rest on: when names are drawn there are at least as many listed
\* as are to be drawn, and names are drawn only after the last ones were deleted.
MonkeyInv ==
    /\ monkey = "choose" => max \in 1..Cardinality(listed)
    /\ monkey # "kill" => tokills = {}

\* A round of chaos ends, so that the goroutine is ready for the next: it never
\* draws for ever among fewer Pods than it wants to kill.
RoundsEnd == monkey # "off" ~> monkey = "wait"
============================================================================
