----------------------------- MODULE ExecProofs -----------------------------
(***************************************************************************)
(* Exec implements ExecCall, for any amount of output and any exit codes.  *)
(***************************************************************************)
EXTENDS Exec, TLAPS

\* At the start no call is under way.
LEMMA InitInv == Init => ExecInv
  <1> SUFFICES ASSUME Init PROVE ExecInv
      OBVIOUS
  <1>1. err \in Errors
        BY DEF Init, Nil, Errors, Texts
  <1>2. result \in [out : [Streams -> Nat], rc : {0, 1} \union Codes]
        BY DEF Init, All
  <1>3. TypeOK
        BY <1>1, <1>2 DEF Init, TypeOK, All
  <1>4. QED
        BY <1>3 DEF Init, ExecInv, NothingLeft, All

\* What parseExitCode makes of an error is success, 1 or a known code.
LEMMA ExitCodes == \A e \in Errors : parseExitCode(e) \in {0, 1} \union Codes
  <1>1. ASSUME NEW t \in Texts \ {"exit code"}
        PROVE  parseExitCode([text |-> t, code |-> 0]) \in {0, 1}
        BY DEF parseExitCode
  <1>2. ASSUME NEW n \in Codes
        PROVE  parseExitCode([text |-> "exit code", code |-> n]) \in Codes
        BY DEF parseExitCode
  <1>3. QED
        BY <1>1, <1>2 DEF Errors

\* Every step of every goroutine preserves the invariant.
LEMMA NextInv == ExecInv /\ [Next]_vars => ExecInv'
  <1> SUFFICES ASSUME ExecInv, [Next]_vars PROVE ExecInv'
      OBVIOUS
  <1> USE ExecAssumption
  <1>1. CASE ReturnEarly
        BY <1>1 DEF ReturnEarly, ExecInv, TypeOK, NothingLeft, pipes, All
  <1>2. CASE Start
        BY <1>2 DEF Start, ExecInv, TypeOK, NothingLeft, All
  <1>3. CASE Receive
        BY <1>3 DEF Receive, ExecInv, TypeOK, NothingLeft, pipes
  <1>4. CASE Close
        BY <1>4 DEF Close, CloseReader, ExecInv, TypeOK, NothingLeft, Streams
  <1>5. CASE Join
        BY <1>5, ExitCodes DEF Join, ExecInv, TypeOK, NothingLeft, pipes
  <1>6. CASE StreamReturns
        BY <1>6 DEF StreamReturns, ExecInv, TypeOK, NothingLeft, pipes
  <1>7. CASE StreamExits
        BY <1>7 DEF StreamExits, ExecInv, TypeOK, NothingLeft, pipes
  <1>8. CASE CommandEnds
        BY <1>8 DEF CommandEnds, ExecInv, TypeOK, NothingLeft, pipes
  <1>9. ASSUME NEW s \in Streams, CopierReads(s) PROVE ExecInv'
        BY <1>9 DEF CopierReads, ExecInv, TypeOK, NothingLeft
  <1>10. ASSUME NEW s \in Streams, CopierWrote(s) PROVE ExecInv'
        BY <1>10 DEF CopierWrote, ExecInv, TypeOK, NothingLeft
  <1>11. ASSUME NEW s \in Streams, CopierEnds(s) PROVE ExecInv'
        BY <1>11 DEF CopierEnds, ExecInv, TypeOK, NothingLeft
  <1>12. ASSUME NEW s \in Streams, ReaderTakes(s) PROVE ExecInv'
        BY <1>12 DEF ReaderTakes, ExecInv, TypeOK, NothingLeft
  <1>13. ASSUME NEW s \in Streams, ReaderAppends(s) PROVE ExecInv'
        BY <1>13 DEF ReaderAppends, ExecInv, TypeOK, NothingLeft
  <1>14. ASSUME NEW s \in Streams, ReaderEnds(s) PROVE ExecInv'
        BY <1>14 DEF ReaderEnds, ExecInv, TypeOK, NothingLeft
  <1>15. CASE UNCHANGED vars
        BY <1>15 DEF vars, pipes, ExecInv, TypeOK, NothingLeft
  <1>16. QED
        BY <1>1, <1>2, <1>3, <1>4, <1>5, <1>6, <1>7, <1>8, <1>9, <1>10, <1>11, <1>12,
           <1>13, <1>14, <1>15 DEF Next, Caller, Streamer, Copier, Reader

LEMMA InvAlways == Spec => []ExecInv
  BY InitInv, NextInv, PTL DEF Spec

\* Between two calls every goroutine of the last one has ended and nothing is
\* left in its pipes, for any amount of output.
THEOREM NothingLeftAlways == Spec => []NothingLeft
  <1>1. ExecInv => NothingLeft
        BY DEF ExecInv
  <1>2. QED
        BY <1>1, InvAlways, PTL

\* An initial state of Exec is one of ExecCall.
LEMMA RefinesInit == Init => Abstract!Init
  BY DEF Init, Abstract!Init, Abstract!Nothing, Abstract!Streams, Streams, All, Nil, parseExitCode

\* A step of Exec is a step of ExecCall, or changes nothing that ExecCall sees.
LEMMA RefinesNext ==
    ExecInv /\ [Next]_vars => [Abstract!Next]_Abstract!vars
  <1> SUFFICES ASSUME ExecInv, [Next]_vars PROVE [Abstract!Next]_Abstract!vars
      OBVIOUS
  <1> USE ExecAssumption DEF Abstract!vars
  <1>1. CASE ReturnEarly
    <2>1. Abstract!NotReached
          BY <1>1 DEF ReturnEarly, pipes, All, Abstract!NotReached, Abstract!Nothing,
                      Abstract!Streams, Streams
    <2>2. QED
          BY <2>1 DEF Abstract!Next
  <1>2. CASE Start
    <2>1. Abstract!Call
          BY <1>2 DEF Start, All, Abstract!Call, Abstract!Nothing, Abstract!Streams, Streams
    <2>2. QED
          BY <2>1 DEF Abstract!Next
  <1>3. CASE Receive
        BY <1>3 DEF Receive, pipes
  <1>4. CASE Close
        BY <1>4 DEF Close, CloseReader
  <1>5. CASE Join
    <2>1. buffer = sent
          BY <1>5 DEF Join, ExecInv, TypeOK
    <2>2. Abstract!Return
          BY <1>5, <2>1 DEF Join, ExecInv, pipes, Abstract!Return
    <2>3. QED
          BY <2>2 DEF Abstract!Next
  <1>6. CASE StreamReturns
    <2>1. pc \notin {"idle"}
          BY <1>6 DEF StreamReturns, ExecInv, NothingLeft
    <2>2. Abstract!End
          BY <1>6, <2>1, ExitCodes DEF StreamReturns, pipes, Abstract!End
    <2>3. QED
          BY <2>2 DEF Abstract!Next
  <1>7. CASE StreamExits
        BY <1>7 DEF StreamExits, pipes
  <1>8. CASE CommandEnds
        BY <1>8 DEF CommandEnds, pipes
  <1>9. ASSUME NEW s \in Streams, CopierReads(s) PROVE [Abstract!Next]_Abstract!vars
    <2>1. pc # "idle" /\ stream = "stream"
          BY <1>9 DEF CopierReads, ExecInv, NothingLeft, TypeOK
    <2>2. sent'[s] > sent[s] /\ sent' = [sent EXCEPT ![s] = sent'[s]]
          BY <1>9 DEF CopierReads, ExecInv, TypeOK
    <2>3. Abstract!Write(s)
          BY <1>9, <2>1, <2>2 DEF CopierReads, Abstract!Write
    <2>4. QED
          BY <2>3 DEF Abstract!Next, Abstract!Streams, Streams
  <1>10. ASSUME NEW s \in Streams, CopierWrote(s) PROVE [Abstract!Next]_Abstract!vars
        BY <1>10 DEF CopierWrote
  <1>11. ASSUME NEW s \in Streams, CopierEnds(s) PROVE [Abstract!Next]_Abstract!vars
        BY <1>11 DEF CopierEnds
  <1>12. ASSUME NEW s \in Streams, Reader(s) PROVE [Abstract!Next]_Abstract!vars
        BY <1>12 DEF Reader, ReaderTakes, ReaderAppends, ReaderEnds
  <1>13. CASE UNCHANGED vars
        BY <1>13 DEF vars, pipes
  <1>14. QED
        BY <1>1, <1>2, <1>3, <1>4, <1>5, <1>6, <1>7, <1>8, <1>9, <1>10, <1>11, <1>12,
           <1>13 DEF Next, Caller, Streamer, Copier

\* ExecWithOptions implements the atomic view of a call: all output of both
\* streams and the exit code, whatever the order of the goroutines.
THEOREM IsCallAlways == Spec => IsCall
  BY RefinesInit, RefinesNext, InvAlways, PTL DEF Spec, IsCall, Abstract!Spec
============================================================================
