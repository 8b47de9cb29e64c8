---------------------------- MODULE Communicator ----------------------------
(***************************************************************************)
(* CncInterface/src/com/Serial/Communicator.java: the one thread that owns *)
(* the serial port, one step per access to the state it shares with the    *)
(* servlets or with the wire.                                              *)
(***************************************************************************)
EXTENDS SharedState

VARIABLE cpc    \* where run() is; "dead" after an uncaught exception

CommTypeOK ==
  cpc \in {"handShake", "drain", "check", "release", "take", "wait", "dead"}

CommInit == cpc = "handShake"

-----------------------------------------------------------------------------
(* handShake(): skip lines until one looks like a position, then answer.   *)

\* Mutant: the answer is written and never flushed.
HandShakeUnflushed ==
  /\ cpc = "handShake" /\ toHost # <<>> /\ MatchesPattern(Head(toHost))
  /\ cpc' = "drain"
  /\ linie' = Head(toHost)
  /\ toHost' = Tail(toHost)
  /\ UNCHANGED <<toFw, queue, queueIsEmpty, sessionId, spindleRunning, history>>

HandShakeMatch ==
  /\ cpc = "handShake" /\ toHost # <<>> /\ MatchesPattern(Head(toHost))
  /\ cpc' = "drain"
  /\ linie' = Head(toHost)
  /\ toHost' = Tail(toHost)
  /\ toFw' = Append(toFw, ServerHandShake)
  /\ UNCHANGED <<queue, queueIsEmpty, sessionId, spindleRunning, history>>

HandShakeSkip ==
  /\ cpc = "handShake" /\ toHost # <<>> /\ ~MatchesPattern(Head(toHost))
  /\ toHost' = Tail(toHost)
  /\ UNCHANGED <<cpc, toFw, statics, history>>

(* The loop that drains the reader until nothing is ready.                 *)

DrainRead ==
  /\ cpc = "drain" /\ toHost # <<>>
  /\ toHost' = Tail(toHost)
  /\ UNCHANGED <<cpc, toFw, statics, history>>

\* Mutant: the drain reads once and does not ask again whether more is ready.
DrainOnce ==
  /\ cpc = "drain"
  /\ cpc' = "check"
  /\ UNCHANGED <<line, statics, history>>

DrainDone ==
  /\ cpc = "drain" /\ toHost = <<>>
  /\ cpc' = "check"
  /\ UNCHANGED <<line, statics, history>>

-----------------------------------------------------------------------------
(* The endless loop of run().                                              *)

\* Mutant: the branch tests the flag of the last turn.
CheckQueueStale ==
  /\ cpc = "check"
  /\ queueIsEmpty' = (queue = <<>>)
  /\ cpc' = IF queueIsEmpty THEN "release" ELSE "take"
  /\ UNCHANGED <<queue, linie, sessionId, spindleRunning, line, history>>

CheckQueue ==
  /\ cpc = "check"
  /\ queueIsEmpty' = (queue = <<>>)
  /\ cpc' = IF queue = <<>> THEN "release" ELSE "take"
  /\ UNCHANGED <<queue, linie, sessionId, spindleRunning, line, history>>

\* Mutants: nobody is written as -1; the session is not given back at all.
ReleaseToMinusOne ==
  /\ cpc = "release"
  /\ sessionId' = -1
  /\ cpc' = "check"
  /\ UNCHANGED <<queue, queueIsEmpty, linie, spindleRunning, line, history>>

ReleaseForgotten ==
  /\ cpc = "release"
  /\ cpc' = "check"
  /\ UNCHANGED <<statics, line, history>>

Release ==
  /\ cpc = "release"
  /\ sessionId' = 0
  /\ cpc' = "check"
  /\ UNCHANGED <<queue, queueIsEmpty, linie, spindleRunning, line, history>>

\* Mutant: queue.element() where queue.remove() is meant.
TakePeeks ==
  /\ cpc = "take" /\ queue # <<>>
  /\ cpc' = "wait"
  /\ toFw' = Append(toFw, Head(queue))
  /\ UNCHANGED <<statics, toHost, history>>

\* queue.remove() and out.write(); the empty string puts nothing on the wire.
Take ==
  /\ cpc = "take" /\ queue # <<>>
  /\ cpc' = "wait"
  /\ queue' = Tail(queue)
  /\ IF Head(queue).op = "blank"
     THEN toFw' = toFw /\ dropped' = dropped \cup Ids(<<Head(queue)>>)
     ELSE toFw' = Append(toFw, Head(queue)) /\ dropped' = dropped
  /\ UNCHANGED <<queueIsEmpty, linie, sessionId, spindleRunning, toHost, accepted, executed>>

\* queue.remove() of an empty queue throws NoSuchElementException, which the
\* catch of IOException does not stop: the thread ends.
TakeNothing ==
  /\ cpc = "take" /\ queue = <<>>
  /\ cpc' = "dead"
  /\ UNCHANGED <<line, statics, history>>

\* Mutant: the response is read into a local and not published.
ReceiveUnpublished ==
  /\ cpc = "wait" /\ toHost # <<>>
  /\ toHost' = Tail(toHost)
  /\ cpc' = IF ContainsHash(Head(toHost)) THEN "check" ELSE cpc
  /\ UNCHANGED <<statics, toFw, history>>

\* waitForResponse(): the first line with a '#' is the response.
Receive ==
  /\ cpc = "wait" /\ toHost # <<>>
  /\ toHost' = Tail(toHost)
  /\ IF ContainsHash(Head(toHost))
     THEN cpc' = "check" /\ linie' = Head(toHost)
     ELSE UNCHANGED <<cpc, linie>>
  /\ UNCHANGED <<queue, queueIsEmpty, sessionId, spindleRunning, toFw, history>>

CommNext ==
  \/ HandShakeMatch \/ HandShakeSkip \/ DrainRead \/ DrainDone
  \/ CheckQueue \/ Release \/ Take \/ TakeNothing \/ Receive
=============================================================================
