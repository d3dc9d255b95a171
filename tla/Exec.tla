-------------------------------- MODULE Exec --------------------------------
(***************************************************************************)
(* The inside of a call into a Pod: ExecWithOptions and GetOutput          *)
(* (pkg/util/k8sutil/exec_util.go), execute and parseExitCode              *)
(* (pkg/cluster/exec.go).  Six goroutines take part: the caller, one that  *)
(* streams, two of the library that copy from the connection into a pipe,  *)
(* and two that read the pipes into buffers.  Output is counted in reads   *)
(* (at most 1024 bytes each).                                              *)
(*                                                                         *)
(* A pipe has no buffer: a write ends when the reader has taken all of it, *)
(* and a read fails once the read end is closed.  Streaming ends when both *)
(* copies have ended and the error stream was read.  The time-out that     *)
(* execute() computes is stored in the client's configuration, but the     *)
(* connection for streams does not use it: a command may run for ever.     *)
(***************************************************************************)
EXTENDS Naturals

CONSTANTS
    Codes,     \* exit codes of commands that fail
    MaxOutput, \* bound: reads it takes to collect all output of a stream
    MaxWrite   \* bound: reads it takes to collect one write

ASSUME ExecAssumption ==
    Codes \subseteq Nat \ {0} /\ MaxOutput \in Nat /\ MaxWrite \in Nat

VARIABLES
    pc,      \* the caller
    stream,  \* the goroutine that runs execute()
    command, \* does the command in the Pod still run?
    err,     \* what execute() returned, as text
    copier,  \* copier[s]: the library's copy of stream s
    sent,    \* sent[s]: what the copy has read from the connection
    left,    \* left[s]: what is left of the write to pipe s
    closed,  \* closed[s]: is the read end of pipe s closed?
    reader,  \* reader[s]: the goroutine that GetOutput started
    buffer,  \* buffer[s]: what it has collected
    result   \* what the last call returned

pipes == <<copier, sent, left, closed, reader, buffer>>
vars == <<pc, stream, command, err, pipes, result>>

Streams == {"stdout", "stderr"}
All(x) == [s \in Streams |-> x]

\* The text of an error: nil, one that names an exit code, one that says so but
\* goes on after the number, and any other.
Texts == {"nil", "exit code", "exit code, more text", "other"}
Errors == {[text |-> t, code |-> 0] : t \in Texts \ {"exit code"}}
            \union {[text |-> "exit code", code |-> n] : n \in Codes}
Nil == [text |-> "nil", code |-> 0]

parseExitCode(e) ==
    IF e.text = "nil" THEN 0 ELSE IF e.text = "exit code" THEN e.code ELSE 1

TypeOK ==
    /\ pc \in {"idle", "wait", "closeErr", "closeOut", "join"}
    /\ stream \in {"stream", "send", "exit", "done"}
    /\ command \in BOOLEAN /\ err \in Errors
    /\ copier \in [Streams -> {"copy", "write", "done"}]
    /\ sent \in [Streams -> Nat] /\ left \in [Streams -> Nat]
    /\ closed \in [Streams -> BOOLEAN]
    /\ reader \in [Streams -> {"read", "append", "done"}]
    /\ buffer \in [Streams -> Nat]
    /\ result \in [out : [Streams -> Nat], rc : {0, 1} \union Codes]

\* No call was made yet: nothing is left of an earlier one.
Init ==
    /\ pc = "idle" /\ stream = "done" /\ command = FALSE /\ err = Nil
    /\ copier = All("done") /\ sent = All(0) /\ left = All(0) /\ closed = All(TRUE)
    /\ reader = All("done") /\ buffer = All(0)
    /\ result = [out |-> All(0), rc |-> 0]

----------------------------------------------------------------------------
\* setupContext fails, or the Pod cannot be found or has no container: then the
\* error is logged and dropped.
ReturnEarly ==
    /\ pc = "idle"
    /\ \E rc \in {0, 1} : result' = [out |-> All(0), rc |-> rc]
    /\ UNCHANGED <<pc, stream, command, err, pipes>>

\* The caller makes the pipes and starts the goroutines.
Start ==
    /\ pc = "idle" /\ pc' = "wait" /\ stream' = "stream" /\ command' = TRUE
    /\ copier' = All("copy") /\ sent' = All(0) /\ left' = All(0)
    /\ closed' = All(FALSE) /\ reader' = All("read") /\ buffer' = All(0)
    /\ UNCHANGED <<err, result>>

\* err = <-resChan: the channel has no buffer.
Receive ==
    /\ pc = "wait" /\ pc' = "closeErr"
    /\ stream = "send" /\ stream' = "exit"
    /\ UNCHANGED <<command, err, pipes, result>>

CloseReader(from, s, to) ==
    /\ pc = from /\ pc' = to /\ closed' = [closed EXCEPT ![s] = TRUE]
    /\ UNCHANGED <<stream, command, err, copier, sent, left, reader, buffer, result>>

Close == CloseReader("closeErr", "stderr", "closeOut") \/ CloseReader("closeOut", "stdout", "join")

\* Mutant: the caller does not wait for the goroutines.
JoinNobody ==
    /\ pc = "join" /\ pc' = "idle"
    /\ result' = [out |-> buffer, rc |-> parseExitCode(err)]
    /\ UNCHANGED <<stream, command, err, pipes>>

\* Mutant: the readers are not in the wait group.
JoinStreamOnly ==
    /\ pc = "join" /\ pc' = "idle" /\ stream = "done"
    /\ result' = [out |-> buffer, rc |-> parseExitCode(err)]
    /\ UNCHANGED <<stream, command, err, pipes>>

\* wg.Wait(), then the buffers are read and execute() interprets the error.
Join ==
    /\ pc = "join" /\ pc' = "idle"
    /\ stream = "done" /\ \A s \in Streams : reader[s] = "done"
    /\ result' = [out |-> buffer, rc |-> parseExitCode(err)]
    /\ UNCHANGED <<stream, command, err, pipes>>

----------------------------------------------------------------------------
\* Stream() returns with what the error stream says, or with the error that kept
\* the connection from being made.
StreamReturns ==
    /\ stream = "stream" /\ stream' = "send"
    /\ \A s \in Streams : copier[s] = "done"
    /\ err' \in Errors
    /\ UNCHANGED <<pc, command, pipes, result>>

\* The deferred wg.Done().
StreamExits ==
    /\ stream = "exit" /\ stream' = "done"
    /\ UNCHANGED <<pc, command, err, pipes, result>>

\* The command ends, or the connection breaks.
CommandEnds ==
    /\ command /\ command' = FALSE
    /\ UNCHANGED <<pc, stream, err, pipes, result>>

\* The copy reads from the connection and writes to the pipe.
CopierReads(s) ==
    /\ copier[s] = "copy" /\ copier' = [copier EXCEPT ![s] = "write"]
    /\ \E n \in 1..MaxWrite :
          /\ sent[s] + n <= MaxOutput
          /\ sent' = [sent EXCEPT ![s] = @ + n] /\ left' = [left EXCEPT ![s] = n]
    /\ UNCHANGED <<pc, stream, command, err, closed, reader, buffer, result>>

CopierWrote(s) ==
    /\ copier[s] = "write" /\ left[s] = 0
    /\ copier' = [copier EXCEPT ![s] = "copy"]
    /\ UNCHANGED <<pc, stream, command, err, sent, left, closed, reader, buffer, result>>

\* The end of the stream comes after the command has ended.
CopierEnds(s) ==
    /\ copier[s] = "copy" /\ ~command
    /\ copier' = [copier EXCEPT ![s] = "done"]
    /\ UNCHANGED <<pc, stream, command, err, sent, left, closed, reader, buffer, result>>

----------------------------------------------------------------------------
\* One turn of the loop in GetOutput: a read that returns data, the append to
\* the buffer, and a read that fails because the pipe is closed.
ReaderTakes(s) ==
    /\ reader[s] = "read" /\ left[s] > 0
    /\ reader' = [reader EXCEPT ![s] = "append"] /\ left' = [left EXCEPT ![s] = @ - 1]
    /\ UNCHANGED <<pc, stream, command, err, copier, sent, closed, buffer, result>>

ReaderAppends(s) ==
    /\ reader[s] = "append" /\ reader' = [reader EXCEPT ![s] = "read"]
    /\ buffer' = [buffer EXCEPT ![s] = @ + 1]
    /\ UNCHANGED <<pc, stream, command, err, copier, sent, left, closed, result>>

\* Mutant: an error does not end the loop.
ReaderSpins(s) == reader[s] = "read" /\ closed[s] /\ UNCHANGED vars

ReaderEnds(s) ==
    /\ reader[s] = "read" /\ closed[s]
    /\ reader' = [reader EXCEPT ![s] = "done"]
    /\ UNCHANGED <<pc, stream, command, err, copier, sent, left, closed, buffer, result>>

Caller == Start \/ ReturnEarly \/ Receive \/ Close \/ Join
Streamer == StreamReturns \/ StreamExits
Copier(s) == CopierReads(s) \/ CopierWrote(s) \/ CopierEnds(s)
Reader(s) == ReaderTakes(s) \/ ReaderAppends(s) \/ ReaderEnds(s)

Next == Caller \/ Streamer \/ CommandEnds \/ \E s \in Streams : Copier(s) \/ Reader(s)

\* Goroutines that can run do run; nothing makes the command end, and nobody has
\* to make another call.
Fairness ==
    /\ WF_vars(Receive \/ Close \/ Join) /\ WF_vars(Streamer)
    /\ \A s \in Streams : WF_vars(Copier(s)) /\ WF_vars(Reader(s))

Spec == Init /\ [][Next]_vars
FairSpec == Spec /\ Fairness

----------------------------------------------------------------------------
\* The abstract call: it has ended when execute() has returned, and what was
\* written is what the connection received.
Abstract == INSTANCE ExecCall WITH
    phase   <- IF pc = "idle" THEN "idle" ELSE IF stream = "stream" THEN "running" ELSE "ended",
    written <- sent,
    outcome <- parseExitCode(err)

\* The goroutines and pipes implement the abstract call: the caller gets all the
\* output the connection received, of both streams, and the exit code, in
\* whatever order the goroutines run (ExecWithOptions closes the read ends and
\* waits for all three goroutines before it reads the buffers).
IsCall == Abstract!Spec

\* Between two calls nothing of the last one is left: every goroutine has ended,
\* so none writes to a buffer that the caller reads, and none is leaked.
NothingLeft ==
    pc = "idle" =>
        /\ stream = "done"
        /\ \A s \in Streams : copier[s] = "done" /\ reader[s] = "done" /\ left[s] = 0

\* The inductive invariant behind both.  Nothing is lost on the way from the
\* connection to the buffer, and each goroutine outlives those that feed it.
ExecInv ==
    /\ TypeOK /\ NothingLeft
    /\ \A s \in Streams :
          /\ sent[s] = buffer[s] + left[s] + (IF reader[s] = "append" THEN 1 ELSE 0)
          /\ left[s] > 0 => copier[s] = "write"
          /\ stream # "stream" => copier[s] = "done"
          /\ reader[s] = "done" => closed[s]
          /\ closed[s] => pc \notin {"wait", "closeErr"}
    /\ pc = "wait" => stream \in {"stream", "send"}
    /\ pc \notin {"idle", "wait"} => stream \in {"exit", "done"}

\* Once the command has ended the call returns: the caller, the stream, the
\* copies and the readers do not wait for each other in a circle (the result is
\* sent on a channel without a buffer, and the readers end only when the caller
\* closes the pipes).
CallReturns == ~command ~> pc = "idle"
============================================================================
