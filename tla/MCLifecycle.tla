---------------------------- MODULE MCLifecycle ----------------------------
(***************************************************************************)
(* Specs for the model checker.                                            *)
(***************************************************************************)
EXTENDS Lifecycle

Asking(r, p) == [replicas |-> r, paused |-> p]

\* No replicas, too few (raised to the minimum) with the operator paused, and four.
PauseSpecs == {Asking(<<0>>, FALSE), Asking(<<1>>, TRUE), Asking(<<4>>, FALSE)}
============================================================================
