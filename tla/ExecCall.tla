------------------------------ MODULE ExecCall ------------------------------
(***************************************************************************)
(* What a call into a Pod promises its caller (execute() in                *)
(* pkg/cluster/exec.go, ExecWithOptions in pkg/util/k8sutil/exec_util.go): *)
(* the command runs, writes to its two streams and ends, and then the      *)
(* caller has all of the output and the exit code.  This is the view that  *)
(* Environment takes of a call; Exec shows that the goroutines and pipes   *)
(* of the code implement it.                                               *)
(***************************************************************************)
EXTENDS Naturals

CONSTANT Codes \* exit codes of commands that fail

VARIABLES
    phase,   \* "idle", "running", or "ended" until the caller has the result
    written, \* written[s]: what the operator's connection received on stream s
    outcome, \* its exit code, once it has ended
    result   \* what the last call returned: [out, rc]

Streams == {"stdout", "stderr"}
Nothing == [s \in Streams |-> 0]

Init ==
    /\ phase = "idle" /\ written = Nothing /\ outcome = 0
    /\ result = [out |-> Nothing, rc |-> 0]

Call ==
    /\ phase = "idle" /\ phase' = "running" /\ written' = Nothing
    /\ UNCHANGED <<outcome, result>>

\* A call that does not reach the Pod returns no output, and reports an error
\* or, when the Pod cannot be looked up, success.
NotReached ==
    /\ phase = "idle"
    /\ \E rc \in {0, 1} : result' = [out |-> Nothing, rc |-> rc]
    /\ UNCHANGED <<phase, written, outcome>>

Write(s) ==
    /\ phase = "running"
    /\ written' = [written EXCEPT ![s] = written'[s]] /\ written'[s] > written[s]
    /\ UNCHANGED <<phase, outcome, result>>

\* The command succeeds or ends with a code; a broken connection counts as 1.
End ==
    /\ phase = "running" /\ phase' = "ended"
    /\ outcome' \in {0, 1} \union Codes
    /\ UNCHANGED <<written, result>>

Return ==
    /\ phase = "ended" /\ phase' = "idle"
    /\ result' = [out |-> written, rc |-> outcome]
    /\ UNCHANGED <<written, outcome>>

Next == Call \/ NotReached \/ (\E s \in Streams : Write(s)) \/ End \/ Return

vars == <<phase, written, outcome, result>>

Spec == Init /\ [][Next]_vars
============================================================================
