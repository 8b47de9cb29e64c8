------------------------------- MODULE Motion -------------------------------
(***************************************************************************)
(* CncFirmware/Blinky.c, line() and lineZ(): how one command becomes step  *)
(* pulses. line() sends one pulse per turn on the axis with the longer way *)
(* and carries the shorter one along with the accumulator "over"; its two  *)
(* loops are the same text with x and y exchanged, here one action for the *)
(* axis "loop". lineZ() sends pulses on z alone. A pulse moves its motor   *)
(* by one step in the direction of the direction pin.                      *)
(***************************************************************************)
EXTENDS Integers

CONSTANT Coords     \* positions a command may ask for, in steps

\* Differences of two positions are computed in float: exact up to 2^24.
ASSUME CoordsAssumption == \A c \in Coords : c \in Int /\ -(2^23) <= c /\ c <= 2^23

Axes  == {"x", "y", "z"}
Plane == {"x", "y"}
Other(a) == IF a = "x" THEN "y" ELSE "x"
Abs(n)   == IF n >= 0 THEN n ELSE -n

VARIABLES
  loop,     \* the axis whose loop runs, or "none" between two commands
  p,        \* px, py, pz: where the firmware says it is
  new,      \* the parameters of the call: where it goes
  d,        \* dx, dy and nrOfSteps after fabs
  dir,      \* the direction pins, 1 or -1
  i,        \* the loop counter
  over,     \* the accumulator of line()
  motor,    \* where the motors are
  pulses    \* history: pulses of each axis in this move

vars == <<loop, p, new, d, dir, i, over, motor, pulses>>

TypeOK ==
  /\ loop \in Axes \cup {"none"}
  /\ p \in [Axes -> Int] /\ new \in [Axes -> Int] /\ motor \in [Axes -> Int]
  /\ d \in [Axes -> Nat] /\ pulses \in [Axes -> Nat]
  /\ dir \in [Axes -> {1, -1}]
  /\ i \in Nat /\ over \in Int

Zero == [a \in Axes |-> 0]

Init ==
  /\ loop = "none"
  /\ p = Zero /\ new = Zero /\ motor = Zero
  /\ d = Zero /\ pulses = Zero
  /\ dir = [a \in Axes |-> -1]
  /\ i = 0 /\ over = 0

\* Mutants: the differences without fabs; the directions from the signs of the
\* targets instead of those of the differences.
PrepareSigned(to) ==
  /\ new' = to
  /\ d' = [a \in Axes |-> to[a] - p[a]]
  /\ dir' = [a \in Axes |-> IF to[a] - p[a] > 0 THEN 1 ELSE -1]
  /\ i' = 0 /\ over' = 0
  /\ pulses' = Zero
  /\ UNCHANGED <<p, motor>>

PrepareByTarget(to) ==
  /\ new' = to
  /\ d' = [a \in Axes |-> Abs(to[a] - p[a])]
  /\ dir' = [a \in Axes |-> IF to[a] > 0 THEN 1 ELSE -1]
  /\ i' = 0 /\ over' = 0
  /\ pulses' = Zero
  /\ UNCHANGED <<p, motor>>

\* The declarations of line() and lineZ(): differences, directions, counters.
\* An axis that does not move has the direction of a negative move.
Prepare(to) ==
  /\ new' = to
  /\ d' = [a \in Axes |-> Abs(to[a] - p[a])]
  /\ dir' = [a \in Axes |-> IF to[a] - p[a] > 0 THEN 1 ELSE -1]
  /\ i' = 0 /\ over' = 0
  /\ pulses' = Zero
  /\ UNCHANGED <<p, motor>>

Line(newx, newy) ==
  /\ loop = "none"
  /\ Prepare([p EXCEPT !["x"] = newx, !["y"] = newy])
  /\ loop' = IF d'["x"] > d'["y"] THEN "x" ELSE "y"

LineZ(newZ) ==
  /\ loop = "none"
  /\ Prepare([p EXCEPT !["z"] = newZ])
  /\ loop' = "z"

\* The axes in S get a pulse.
Pulse(S) ==
  /\ motor'  = [a \in Axes |-> IF a \in S THEN motor[a] + dir[a] ELSE motor[a]]
  /\ pulses' = [a \in Axes |-> IF a \in S THEN pulses[a] + 1 ELSE pulses[a]]

\* Mutants: "over > d" for "over >= d"; the accumulator is never lowered.
LineStepStrict ==
  /\ loop \in Plane /\ i < d[loop]
  /\ i' = i + 1
  /\ IF over + d[Other(loop)] > d[loop]
     THEN over' = over + d[Other(loop)] - d[loop] /\ Pulse(Plane)
     ELSE over' = over + d[Other(loop)] /\ Pulse({loop})
  /\ UNCHANGED <<loop, p, new, d, dir>>

LineStepNoCarry ==
  /\ loop \in Plane /\ i < d[loop]
  /\ i' = i + 1
  /\ over' = over + d[Other(loop)]
  /\ Pulse(IF over' >= d[loop] THEN Plane ELSE {loop})
  /\ UNCHANGED <<loop, p, new, d, dir>>

\* One turn of a loop of line().
LineStep ==
  /\ loop \in Plane /\ i < d[loop]
  /\ i' = i + 1
  /\ IF over + d[Other(loop)] >= d[loop]
     THEN over' = over + d[Other(loop)] - d[loop] /\ Pulse(Plane)
     ELSE over' = over + d[Other(loop)] /\ Pulse({loop})
  /\ UNCHANGED <<loop, p, new, d, dir>>

\* One turn of the loop of lineZ().
LineZStep ==
  /\ loop = "z" /\ i < d["z"]
  /\ i' = i + 1
  /\ Pulse({"z"})
  /\ UNCHANGED <<loop, p, new, d, dir, over>>

\* Mutant: the loop ends one turn after its last.
ArriveLate ==
  /\ loop # "none" /\ i > d[loop]
  /\ p' = new
  /\ loop' = "none"
  /\ UNCHANGED <<new, d, dir, i, over, motor, pulses>>

\* The end of either: the position is set to the target, whatever the pulses.
Arrive ==
  /\ loop # "none" /\ i >= d[loop]
  /\ p' = new
  /\ loop' = "none"
  /\ UNCHANGED <<new, d, dir, i, over, motor, pulses>>

Next ==
  \/ \E newx, newy \in Coords : Line(newx, newy)
  \/ \E newZ \in Coords : LineZ(newZ)
  \/ LineStep \/ LineZStep \/ Arrive

Spec == Init /\ [][Next]_vars

\* The firmware runs the loop of a command to its end before anything else.
FairSpec == Spec /\ WF_vars(LineStep \/ LineZStep \/ Arrive)

-----------------------------------------------------------------------------
(* Between two commands the motors are where the firmware says: line() and *)
(* lineZ() set px, py, pz without counting pulses, and lose none.          *)
MotorsAgree == loop = "none" => motor = p

\* The path: at every turn the tool is less than one step off the straight
\* line from p to new, measured on the shorter axis (exactly on it if over is
\* 0). The products are the two sides of the line's equation.
OnTheLine ==
  loop \in Plane =>
    LET minor == Other(loop)
        off   == (motor[minor] - p[minor]) * d[loop] * dir[minor]
                 - (motor[loop] - p[loop]) * d[minor] * dir[loop]
    IN  d[loop] > 0 => off <= 0 /\ off > -d[loop]

\* No motor passes its target or turns back: no step leads away from it.
NoOvershoot == [][\A a \in Axes : loop # "none" /\ loop' = loop =>
                     Abs(new[a] - motor'[a]) <= Abs(new[a] - motor[a])]_vars

\* A move ends.
MovesEnd == (loop # "none") ~> (loop = "none")
=============================================================================
