------------------------------ MODULE Serving ------------------------------
(***************************************************************************)
(* The server and the machine after their handshake, for the modules that  *)
(* put clients in front of them. The machine's reading, acting and         *)
(* answering is one step: no client can tell its stages apart (CncLink has *)
(* them).                                                                  *)
(***************************************************************************)
EXTENDS Firmware, Communicator, Controller

CONSTANT Surplus    \* what the drain may have missed: a line of the firmware's
                    \* handshake loop, or the end of one
ASSUME SurplusAssumption ==
  Surplus \subseteq {Report(Home)} \cup {Rest(kind) : kind \in {"two", "one", "tail"}}

\* The handshake is over. If the drain has missed something, that is the first
\* answer the server takes, and it stays one answer behind.
ServingInit ==
  /\ toFw = <<>> /\ toHost \in {<<>>} \cup {<<left>> : left \in Surplus}
  /\ queue = <<>> /\ queueIsEmpty = TRUE
  /\ linie = Report(Home) /\ sessionId = 0 /\ spindleRunning = FALSE
  /\ accepted = 0 /\ executed = {} /\ dropped = {}
  /\ fpc = "gets" /\ buffer = ServerHandShake
  /\ pos = Home /\ tool = Home /\ spindle = FALSE
  /\ cpc = "check" /\ CtlInit

\* Gets, Exec and Puts of the firmware for the next line.
Machine ==
  /\ toFw # <<>> /\ Len(toHost) < HostBuf
  /\ LET cmd == Head(toFw)
     IN  /\ pos' = Reached(cmd.to) /\ tool' = Moved(cmd.to)
         /\ spindle' = IF cmd.op \in {"spindleOn", "spindleOff"} THEN cmd.op = "spindleOn" ELSE spindle
         /\ executed' = executed \cup Ids(<<cmd>>)
         /\ toHost' = Append(toHost, Report(pos'))
  /\ toFw' = Tail(toFw)
  /\ UNCHANGED <<fpc, buffer, statics, accepted, dropped>>

ServingTypeOK == SharedTypeOK /\ FwTypeOK /\ CommTypeOK /\ CtlTypeOK
=============================================================================
