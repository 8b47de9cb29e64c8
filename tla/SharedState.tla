---------------------------- MODULE SharedState ----------------------------
(***************************************************************************)
(* What the parts of the system share: the two directions of the serial    *)
(* line, the static fields of Communicator that its thread, the servlets   *)
(* and the push threads all read and write, and the history of commands.   *)
(***************************************************************************)
EXTENDS CncTypes

CONSTANT HostBuf      \* position lines the host's serial buffer can hold
ASSUME HostBufAssumption == HostBuf \in Nat /\ HostBuf >= 2

VARIABLES
  toFw,            \* command lines written by the server and not yet read
  toHost,          \* position lines sent by the firmware and not yet read
  queue,           \* Communicator.queue
  queueIsEmpty,    \* Communicator.queueIsEmpty
  linie,           \* Communicator.linie, the last position line
  sessionId,       \* Communicator.sessionId, 0 when nobody owns the machine
  spindleRunning,  \* Communicator.spindleRunning
  accepted,        \* history: how many commands were ever queued
  executed,        \* history: numbers of the commands acted upon
  dropped          \* history: numbers of the commands that never will be

line    == <<toFw, toHost>>
statics == <<queue, queueIsEmpty, linie, sessionId, spindleRunning>>
history == <<accepted, executed, dropped>>

SharedTypeOK ==
  /\ toFw \in Seq(Command) /\ toHost \in Seq(PosLine)
  /\ queue \in Seq(Command)
  /\ queueIsEmpty \in BOOLEAN /\ spindleRunning \in BOOLEAN
  /\ linie \in PosLine
  /\ sessionId \in Nat
  /\ accepted \in Nat
  /\ executed \in SUBSET Nat /\ dropped \in SUBSET Nat

\* The statics as the class is loaded, with nothing on the line.
SharedInit ==
  /\ toFw = <<>> /\ toHost = <<>>
  /\ queue = <<>> /\ queueIsEmpty = TRUE
  /\ linie = NoLine
  /\ sessionId = 0 /\ spindleRunning = FALSE
  /\ accepted = 0 /\ executed = {} /\ dropped = {}
=============================================================================
