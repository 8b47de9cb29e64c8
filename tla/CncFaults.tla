----------------------------- MODULE CncFaults -----------------------------
(***************************************************************************)
(* CncLink with restarts of either end. Neither end keeps anything: the    *)
(* firmware starts again in handShake() at position zero, the server in    *)
(* Communicator.handShake() with the static fields as initialised.         *)
(***************************************************************************)
EXTENDS CncLink

CONSTANTS MaxResets, MaxRestarts, MaxFailures    \* bounds on the faults
ASSUME FaultsAssumption == MaxResets \in Nat /\ MaxRestarts \in Nat /\ MaxFailures \in Nat

VARIABLES
  resets,     \* how often the firmware was reset
  restarts,   \* how often the server was restarted
  failures,   \* how many writes to the port failed
  vain        \* history: the last wait began with nothing written

fvars == <<vars, resets, restarts, failures, vain>>

FInit == Init /\ resets = 0 /\ restarts = 0 /\ failures = 0 /\ vain = FALSE

Suffixes(s) == {SubSeq(s, k, Len(s)) : k \in 1..Len(s) + 1}

\* The board is reset: the ring is lost, lines still on the wire are not, and
\* the motors stay where the pulses sent so far have brought them (here: none
\* or all of the move under way).
FirmwareReset ==
  /\ resets < MaxResets
  /\ resets' = resets + 1
  /\ fpc' = "hsGets"
  /\ buffer' = ServerHandShake
  /\ pos' = Home
  /\ tool' \in IF fpc = "exec" THEN {tool, Moved(buffer.to)} ELSE {tool}
  /\ spindle' = FALSE
  /\ toFw' \in Suffixes(toFw)
  /\ dropped' = dropped \cup (Ids(toFw) \ Ids(toFw'))
                \cup (IF fpc = "exec" THEN Ids(<<buffer>>) ELSE {})
  /\ UNCHANGED <<toHost, statics, accepted, executed, cpc, req, robbed, restarts, failures, vain>>

\* The servlet container is restarted: the queue and the requests are lost; of
\* the lines received before the port is open again only the last are read, and
\* of the first of these perhaps only the end.
Received(lines) ==
  Suffixes(lines) \cup {<<Rest(kind)>> \o Tail(s) :
    kind \in {"match", "two", "one", "tail"}, s \in Suffixes(lines) \ {<<>>}}

ServerRestart ==
  /\ restarts < MaxRestarts
  /\ restarts' = restarts + 1
  /\ cpc' = "handShake"
  /\ queue' = <<>> /\ queueIsEmpty' = TRUE
  /\ linie' = NoLine
  /\ sessionId' = 0 /\ spindleRunning' = FALSE
  /\ req' = [c \in Connections |-> "nothing"]
  /\ toHost' \in Received(toHost)
  /\ dropped' = dropped \cup Ids(queue)
  /\ UNCHANGED <<toFw, accepted, executed, fwVars, robbed, resets, failures, vain>>

\* out.write() of a command fails: queue.remove() has been evaluated, the
\* IOException is printed, and the thread waits for a response all the same.
WriteFails ==
  /\ failures < MaxFailures
  /\ failures' = failures + 1 /\ vain' = TRUE
  /\ cpc = "take" /\ queue # <<>>
  /\ cpc' = "wait"
  /\ queue' = Tail(queue)
  /\ dropped' = dropped \cup Ids(<<Head(queue)>>)
  /\ UNCHANGED <<line, queueIsEmpty, linie, sessionId, spindleRunning, accepted, executed,
                 fwVars, req, robbed, resets, restarts>>

FNext ==
  \/ /\ Next
     /\ vain' = (IF cpc = "take" /\ cpc' = "wait" THEN toFw' = toFw ELSE vain)
     /\ UNCHANGED <<resets, restarts, failures>>
  \/ FirmwareReset
  \/ ServerRestart
  \/ WriteFails

FSpec == FInit /\ [][FNext]_fvars

-----------------------------------------------------------------------------
\* Restarts of either end lose commands but never reorder or repeat them.
LossyWindow == INSTANCE CommandWindow WITH
  Lossy <- TRUE, queued <- Ids(queue), committed <- Committed
RefinesLossyWindow == LossyWindow!WSpec

\* Only a reset of the firmware makes it forget commands it has read: however
\* often the server restarts, a firmware in handShake() reads HandShake first.
SwallowedOnlyAfterReset ==
  resets = 0 /\ InHandShake /\ toFw # <<>> => Head(toFw).op = "handShake"

\* A server that restarts while the firmware works gets ahead of it by one
\* answer per restart, and no more: the HandShake line of the new thread is
\* answered like a command, and the thread does not wait for that answer.
AheadPerRestart ==
  resets = 0 /\ Serving => Unanswered <= (IF cpc = "wait" THEN 2 ELSE 1) + restarts

\* As long as the machine is not reset, the thread waits in vain only if it
\* wrote nothing before this wait, because the line was empty or the write had
\* failed: otherwise an answer with a '#' is on its way, or owed for a line that
\* is. Neither a restart nor an earlier wait of that kind takes it away.
Owed == Unanswered - Cardinality({j \in 1..Len(toHost) : ~ContainsHash(toHost[j])})
AnswerComes == resets = 0 /\ cpc = "wait" /\ ~vain => Owed >= 1

\* README.md:30 says that (px, py, pz) start with the last known coordinates:
\* what the firmware believes of its position is where the motors are, as long
\* as nobody redefines the position.
PositionKnown == fpc \in {"hsGets", "hsPuts", "gets"} => pos = tool
=============================================================================
