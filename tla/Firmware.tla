------------------------------ MODULE Firmware ------------------------------
(***************************************************************************)
(* CncFirmware/Blinky.c: the firmware's loop, one step per call that       *)
(* reads, acts or writes. handShake() repeats the position until it reads  *)
(* a HandShake line; main() then reads a command, acts and replies.        *)
(***************************************************************************)
EXTENDS SharedState

VARIABLES
  fpc,      \* where the firmware is
  buffer,   \* the command line main() last read
  pos,      \* px, py, pz in steps
  tool,     \* where the motors really are, in steps
  spindle   \* the level of pin C9

fwVars == <<fpc, buffer, pos, tool, spindle>>

FwTypeOK ==
  /\ fpc \in {"hsGets", "hsPuts", "gets", "exec", "puts"}
  /\ buffer \in Command
  /\ pos \in Position /\ tool \in Position
  /\ spindle \in BOOLEAN

FwInit ==
  /\ fpc = "hsGets"
  /\ buffer = ServerHandShake
  /\ pos = Home /\ tool = Home
  /\ spindle = FALSE

\* TM_USART_Puts of a position; the host's driver drops what it cannot hold.
Send(posLine) ==
  toHost' = IF Len(toHost) < HostBuf THEN Append(toHost, posLine) ELSE toHost

-----------------------------------------------------------------------------
(* handShake(). The delay of a second ends each turn of its loop.          *)

HandShakeGetsNothing ==
  /\ fpc = "hsGets" /\ toFw = <<>>
  /\ fpc' = "hsPuts"
  /\ UNCHANGED <<buffer, pos, tool, spindle, line, statics, history>>

HandShakePuts ==
  /\ fpc = "hsPuts"
  /\ Send(Report(pos))
  /\ fpc' = "hsGets"
  /\ UNCHANGED <<buffer, pos, tool, spindle, toFw, statics, history>>

HandShakeAccept ==
  /\ fpc = "hsGets" /\ toFw # <<>> /\ Head(toFw).op = "handShake"
  /\ fpc' = "gets"
  /\ toFw' = Tail(toFw)
  /\ executed' = executed \cup Ids(<<Head(toFw)>>)
  /\ UNCHANGED <<buffer, pos, tool, spindle, toHost, statics, accepted, dropped>>

\* Any other line is read, compared, and forgotten without a reply.
HandShakeSwallow ==
  /\ fpc = "hsGets" /\ toFw # <<>> /\ Head(toFw).op # "handShake"
  /\ toFw' = Tail(toFw)
  /\ dropped' = dropped \cup Ids(<<Head(toFw)>>)
  /\ UNCHANGED <<fpc, buffer, pos, tool, spindle, toHost, statics, accepted, executed>>

-----------------------------------------------------------------------------
(* The loop of main().                                                     *)

Gets ==
  /\ fpc = "gets" /\ toFw # <<>>
  /\ fpc' = "exec"
  /\ buffer' = Head(toFw)
  /\ toFw' = Tail(toFw)
  /\ UNCHANGED <<pos, tool, spindle, toHost, statics, history>>

\* Mutant: coordinates are taken relative to the position.
ReachedRelative(to) ==
  [a \in Axes |-> pos[a] + IF a \in DOMAIN to THEN GetNumberOfSteps(to[a]) ELSE 0]

\* Where px, py, pz are after the line's coordinates.
Reached(to) ==
  [a \in Axes |-> IF a \in DOMAIN to THEN GetNumberOfSteps(to[a]) ELSE pos[a]]

\* line() and lineZ() move the motors by the difference; three coordinates
\* redefine the position and move nothing.
Moved(to) ==
  IF DOMAIN to = Axes THEN tool ELSE [a \in Axes |-> tool[a] + Reached(to)[a] - pos[a]]

\* Mutant: a line without coordinates is not answered.
ExecSilently ==
  /\ fpc = "exec"
  /\ fpc' = IF buffer.op = "coordinates" THEN "puts" ELSE "gets"
  /\ pos' = Reached(buffer.to)
  /\ tool' = Moved(buffer.to)
  /\ spindle' = IF buffer.op \in {"spindleOn", "spindleOff"}
                THEN buffer.op = "spindleOn" ELSE spindle
  /\ executed' = executed \cup Ids(<<buffer>>)
  /\ UNCHANGED <<buffer, line, statics, accepted, dropped>>

Exec ==
  /\ fpc = "exec"
  /\ fpc' = "puts"
  /\ pos' = Reached(buffer.to)
  /\ tool' = Moved(buffer.to)
  /\ spindle' = IF buffer.op \in {"spindleOn", "spindleOff"}
                THEN buffer.op = "spindleOn" ELSE spindle
  /\ executed' = executed \cup Ids(<<buffer>>)
  /\ UNCHANGED <<buffer, line, statics, accepted, dropped>>

Puts ==
  /\ fpc = "puts"
  /\ Send(Report(pos))
  /\ fpc' = "gets"
  /\ UNCHANGED <<buffer, pos, tool, spindle, toFw, statics, history>>

FwNext ==
  \/ HandShakeGetsNothing \/ HandShakePuts \/ HandShakeAccept \/ HandShakeSwallow
  \/ Gets \/ Exec \/ Puts
=============================================================================
