---------------------------- MODULE MotionProofs ----------------------------
(***************************************************************************)
(* Motion, for moves of every length: the motors end where the firmware    *)
(* says, stay within one step of the line, and never pass the target.      *)
(***************************************************************************)
EXTENDS Motion, TLAPS

-----------------------------------------------------------------------------
(* Arithmetic of the accumulator: D is the longer way, m the shorter, k    *)
(* the pulses given on the shorter one after i turns.                      *)

\* After D turns with less than D left over, every pulse has been given.
LEMMA AllPulsesGiven ==
  ASSUME NEW D \in Nat, NEW m \in Nat, NEW k \in Nat,
         0 <= D * m - k * D, D * m - k * D < D
  PROVE  k = m
<1>1. D * m - k * D = D * (m - k)
  BY SMT
<1>2. CASE m - k >= 1
  <2>1. D * (m - k) >= D * 1
    BY <1>2, SMT
  <2> QED
    BY <1>1, <2>1
<1>3. CASE m - k <= -1
  <2>1. D * (m - k) <= D * (-1)
    BY <1>3, SMT
  <2> QED
    BY <1>1, <2>1
<1> QED
  BY <1>2, <1>3

\* A carry on the turn after i < D turns finds the shorter axis short of m.
LEMMA CarryBeforeTarget ==
  ASSUME NEW D \in Nat, NEW m \in Nat, NEW k \in Nat, NEW i0 \in Nat,
         i0 < D, i0 * m - k * D + m >= D
  PROVE  k < m
<1> SUFFICES ASSUME k >= m PROVE FALSE
  OBVIOUS
<1>1. k * D >= m * D
  BY SMT
<1>2. (i0 + 1) * m <= D * m
  BY SMT
<1>3. (i0 + 1) * m = i0 * m + m
  BY SMT
<1>4. D * m = m * D
  BY SMT
<1> QED
  BY <1>1, <1>2, <1>3, <1>4, SMT

\* With nothing negative left over, the shorter axis is not past its target.
LEMMA NeverAhead ==
  ASSUME NEW D \in Nat, NEW m \in Nat, NEW k \in Nat, NEW i0 \in Nat,
         i0 < D, 0 <= i0 * m - k * D
  PROVE  k <= m
<1> SUFFICES ASSUME k >= m + 1 PROVE FALSE
  OBVIOUS
<1>1. k * D >= (m + 1) * D
  BY SMT
<1>2. i0 * m <= D * m
  BY SMT
<1>3. (m + 1) * D = D * m + D
  BY SMT
<1> QED
  BY <1>1, <1>2, <1>3, SMT

\* One more turn, or one more pulse, adds the other factor.
LEMMA Turn ==
  ASSUME NEW k \in Nat, NEW D \in Nat
  PROVE  (k + 1) * D = k * D + D
  BY SMT

-----------------------------------------------------------------------------
\* What holds during a move: the pulses given are the way made on each axis,
\* and over is what the shorter axis is behind the line by.
OnTheWay ==
  /\ i <= d[loop] /\ pulses[loop] = i
  /\ \A a \in Axes : /\ new[a] = p[a] + dir[a] * d[a]
                     /\ motor[a] = p[a] + dir[a] * pulses[a]
  /\ loop = "z" => \A a \in Plane : d[a] = 0 /\ pulses[a] = 0
  /\ loop \in Plane =>
       /\ d["z"] = 0 /\ pulses["z"] = 0
       /\ d[Other(loop)] <= d[loop]
       /\ pulses[Other(loop)] <= i
       /\ over = i * d[Other(loop)] - pulses[Other(loop)] * d[loop]
       /\ 0 <= over /\ (d[loop] > 0 => over < d[loop])

\* The inductive invariant.
IInv == TypeOK /\ MotorsAgree /\ (loop # "none" => OnTheWay)

LEMMA InitIInv == Init => IInv
  BY DEF Init, IInv, TypeOK, MotorsAgree, Zero, Axes

\* Preparing a move to any integer target puts it at its beginning.
LEMMA PrepareMove ==
  ASSUME IInv, loop = "none", NEW to \in [Axes -> Int], Prepare(to)
  PROVE  /\ new' \in [Axes -> Int] /\ d' \in [Axes -> Nat] /\ pulses' \in [Axes -> Nat]
         /\ dir' \in [Axes -> {1, -1}] /\ i' = 0 /\ over' = 0
         /\ \A a \in Axes : /\ d'[a] = Abs(to[a] - p[a]) /\ pulses'[a] = 0
                            /\ new'[a] = p'[a] + dir'[a] * d'[a]
                            /\ motor'[a] = p'[a] + dir'[a] * pulses'[a]
<1>1. p \in [Axes -> Int] /\ motor = p
  BY DEF IInv, TypeOK, MotorsAgree
<1>2. /\ new' = to /\ p' = p /\ motor' = motor
      /\ d' = [a \in Axes |-> Abs(to[a] - p[a])]
      /\ dir' = [a \in Axes |-> IF to[a] - p[a] > 0 THEN 1 ELSE -1]
      /\ i' = 0 /\ over' = 0 /\ pulses' = [a \in Axes |-> 0]
  BY DEF Prepare, Zero
<1>3. \A a \in Axes : Abs(to[a] - p[a]) \in Nat
  BY <1>1 DEF Abs
<1>4. d' \in [Axes -> Nat] /\ pulses' \in [Axes -> Nat] /\ dir' \in [Axes -> {1, -1}]
  BY <1>1, <1>2, <1>3
<1>5. ASSUME NEW a \in Axes
      PROVE  /\ d'[a] = Abs(to[a] - p[a]) /\ pulses'[a] = 0
             /\ new'[a] = p'[a] + dir'[a] * d'[a]
             /\ motor'[a] = p'[a] + dir'[a] * pulses'[a]
  BY <1>1, <1>2 DEF Abs
<1> QED
  BY <1>1, <1>2, <1>4, <1>5

LEMMA LineIInv ==
  ASSUME IInv, NEW newx \in Int, NEW newy \in Int, Line(newx, newy)
  PROVE  IInv'
<1> DEFINE to == [p EXCEPT !["x"] = newx, !["y"] = newy]
<1>1. p \in [Axes -> Int] /\ motor \in [Axes -> Int]
  BY DEF IInv, TypeOK
<1>2. to \in [Axes -> Int] /\ to["z"] = p["z"]
  BY <1>1 DEF Axes
<1>3. loop = "none" /\ Prepare(to) /\ p' = p /\ motor' = motor
      /\ loop' = IF d'["x"] > d'["y"] THEN "x" ELSE "y"
  BY DEF Line, Prepare
<1> HIDE DEF to
<1>4. /\ new' \in [Axes -> Int] /\ d' \in [Axes -> Nat] /\ pulses' \in [Axes -> Nat]
      /\ dir' \in [Axes -> {1, -1}] /\ i' = 0 /\ over' = 0
      /\ \A a \in Axes : /\ d'[a] = Abs(to[a] - p[a]) /\ pulses'[a] = 0
                         /\ new'[a] = p'[a] + dir'[a] * d'[a]
                         /\ motor'[a] = p'[a] + dir'[a] * pulses'[a]
  BY <1>2, <1>3, PrepareMove
<1>5. d'["z"] = 0
  BY <1>1, <1>2, <1>4 DEF Abs, Axes
<1>6. TypeOK' /\ MotorsAgree'
  BY <1>1, <1>3, <1>4 DEF TypeOK, MotorsAgree, Axes
<1>7. OnTheWay'
  <2>1. CASE d'["x"] > d'["y"]
    BY <1>3, <1>4, <1>5, <2>1 DEF OnTheWay, Axes, Plane, Other
  <2>2. CASE ~(d'["x"] > d'["y"])
    BY <1>3, <1>4, <1>5, <2>2 DEF OnTheWay, Axes, Plane, Other
  <2> QED
    BY <2>1, <2>2
<1> QED
  BY <1>6, <1>7 DEF IInv

LEMMA LineZIInv ==
  ASSUME IInv, NEW newZ \in Int, LineZ(newZ)
  PROVE  IInv'
<1> DEFINE to == [p EXCEPT !["z"] = newZ]
<1>1. p \in [Axes -> Int] /\ motor \in [Axes -> Int]
  BY DEF IInv, TypeOK
<1>2. to \in [Axes -> Int] /\ to["x"] = p["x"] /\ to["y"] = p["y"]
  BY <1>1 DEF Axes
<1>3. loop = "none" /\ Prepare(to) /\ p' = p /\ motor' = motor /\ loop' = "z"
  BY DEF LineZ, Prepare
<1> HIDE DEF to
<1>4. /\ new' \in [Axes -> Int] /\ d' \in [Axes -> Nat] /\ pulses' \in [Axes -> Nat]
      /\ dir' \in [Axes -> {1, -1}] /\ i' = 0 /\ over' = 0
      /\ \A a \in Axes : /\ d'[a] = Abs(to[a] - p[a]) /\ pulses'[a] = 0
                         /\ new'[a] = p'[a] + dir'[a] * d'[a]
                         /\ motor'[a] = p'[a] + dir'[a] * pulses'[a]
  BY <1>2, <1>3, PrepareMove
<1>5. d'["x"] = 0 /\ d'["y"] = 0
  BY <1>1, <1>2, <1>4 DEF Abs, Axes
<1>6. TypeOK' /\ MotorsAgree'
  BY <1>1, <1>3, <1>4 DEF TypeOK, MotorsAgree, Axes
<1>7. OnTheWay'
  BY <1>3, <1>4, <1>5 DEF OnTheWay, Axes, Plane
<1> QED
  BY <1>6, <1>7 DEF IInv

\* Pulses move the motors by as much as they are counted.
LEMMA PulseMoves ==
  ASSUME TypeOK, NEW S \in SUBSET Axes, Pulse(S),
         \A a \in Axes : motor[a] = p[a] + dir[a] * pulses[a]
  PROVE  /\ pulses' \in [Axes -> Nat] /\ motor' \in [Axes -> Int]
         /\ \A a \in Axes : /\ pulses'[a] = IF a \in S THEN pulses[a] + 1 ELSE pulses[a]
                            /\ motor'[a] = p[a] + dir[a] * pulses'[a]
<1>1. \A a \in Axes : /\ motor[a] \in Int /\ pulses[a] \in Nat /\ p[a] \in Int
                      /\ dir[a] \in {1, -1}
  BY DEF TypeOK
<1>2. /\ motor'  = [a \in Axes |-> IF a \in S THEN motor[a] + dir[a] ELSE motor[a]]
      /\ pulses' = [a \in Axes |-> IF a \in S THEN pulses[a] + 1 ELSE pulses[a]]
  BY DEF Pulse
<1>3. pulses' \in [Axes -> Nat] /\ motor' \in [Axes -> Int]
  BY <1>1, <1>2
<1>4. ASSUME NEW a \in Axes
      PROVE  /\ pulses'[a] = IF a \in S THEN pulses[a] + 1 ELSE pulses[a]
             /\ motor'[a] = p[a] + dir[a] * pulses'[a]
  <2>1. CASE dir[a] = 1
    BY <1>1, <1>2, <2>1
  <2>2. CASE dir[a] = -1
    BY <1>1, <1>2, <2>2
  <2> QED
    BY <1>1, <2>1, <2>2
<1> QED
  BY <1>3, <1>4

\* A turn of line() with and without a carry. Neither lets the shorter axis
\* pass its target.
LEMMA LineStepIInv ==
  ASSUME IInv, LineStep
  PROVE  IInv' /\ \A a \in Plane : pulses'[a] <= d[a]
<1> DEFINE min == Other(loop)
<1>1. /\ loop \in Plane /\ loop \in Axes /\ min \in Axes /\ min # loop /\ min \in Plane
      /\ loop # "z" /\ min # "z" /\ loop # "none"
      /\ \A a \in Axes : a = loop \/ a = min \/ a = "z"
      /\ \A a \in Plane : a = loop \/ a = min
  BY DEF LineStep, Plane, Axes, Other
<1>2. TypeOK /\ OnTheWay
  BY <1>1 DEF IInv
<1>3. /\ loop' = loop /\ min' = min /\ p' = p /\ new' = new /\ d' = d /\ dir' = dir
      /\ i' = i + 1 /\ i < d[loop]
  BY DEF LineStep
<1>4. /\ d[loop] \in Nat /\ d[min] \in Nat /\ pulses[min] \in Nat /\ i \in Nat /\ over \in Int
      /\ d["z"] = 0 /\ pulses["z"] = 0 /\ pulses[loop] = i
      /\ d[min] <= d[loop] /\ pulses[min] <= i
      /\ over = i * d[min] - pulses[min] * d[loop]
      /\ 0 <= over /\ over < d[loop]
  BY <1>1, <1>2, <1>3 DEF TypeOK, OnTheWay
<1>5. \A a \in Axes : /\ new[a] = p[a] + dir[a] * d[a]
                      /\ motor[a] = p[a] + dir[a] * pulses[a]
                      /\ p[a] \in Int /\ dir[a] \in {1, -1} /\ pulses[a] \in Nat
                      /\ motor[a] \in Int
  BY <1>2 DEF TypeOK, OnTheWay
<1> HIDE DEF min
<1>6. /\ (i + 1) * d[min] = i * d[min] + d[min]
      /\ (pulses[min] + 1) * d[loop] = pulses[min] * d[loop] + d[loop]
  BY <1>4, Turn
<1>7. CASE over + d[min] >= d[loop]
  <2>1. over' = over + d[min] - d[loop] /\ Pulse(Plane)
    BY <1>7, <1>1 DEF LineStep, min
  <2>2. /\ pulses' \in [Axes -> Nat] /\ motor' \in [Axes -> Int]
        /\ pulses'[loop] = i + 1 /\ pulses'[min] = pulses[min] + 1 /\ pulses'["z"] = 0
        /\ \A a \in Axes : motor'[a] = p[a] + dir[a] * pulses'[a]
    <3>1. Plane \in SUBSET Axes
      BY DEF Plane, Axes
    <3> QED
      BY <2>1, <3>1, <1>1, <1>2, <1>4, <1>5, PulseMoves DEF Plane, Axes
  <2>3. pulses[min] < d[min]
    <3>1. i * d[min] - pulses[min] * d[loop] + d[min] >= d[loop]
      BY <1>4, <1>7
    <3> QED
      BY <3>1, <1>3, <1>4, CarryBeforeTarget
  <2>4. over' = i' * d[min] - pulses'[min] * d[loop] /\ 0 <= over' /\ over' < d[loop]
    BY <2>1, <2>2, <1>3, <1>4, <1>6, <1>7
  <2>5. OnTheWay'
    BY <2>2, <2>4, <1>1, <1>3, <1>4, <1>5 DEF OnTheWay, min
  <2>6. TypeOK' /\ MotorsAgree'
    BY <2>2, <2>4, <1>1, <1>2, <1>3, <1>4, <2>1 DEF TypeOK, MotorsAgree
  <2> QED
    BY <2>2, <2>3, <2>5, <2>6, <1>1, <1>3, <1>4 DEF IInv
<1>8. CASE ~(over + d[min] >= d[loop])
  <2>1. over' = over + d[min] /\ Pulse({loop})
    BY <1>8, <1>1 DEF LineStep, min
  <2>2. /\ pulses' \in [Axes -> Nat] /\ motor' \in [Axes -> Int]
        /\ pulses'[loop] = i + 1 /\ pulses'[min] = pulses[min] /\ pulses'["z"] = 0
        /\ \A a \in Axes : motor'[a] = p[a] + dir[a] * pulses'[a]
    <3>1. {loop} \in SUBSET Axes
      BY <1>1
    <3> QED
      BY <2>1, <3>1, <1>1, <1>2, <1>4, <1>5, PulseMoves DEF Axes
  <2>3. pulses[min] <= d[min]
    <3>1. SUFFICES ASSUME pulses[min] > d[min] PROVE FALSE
      BY <1>4
    <3> QED
      BY <1>3, <1>4, <3>1, NeverAhead
  <2>4. over' = i' * d[min] - pulses'[min] * d[loop] /\ 0 <= over' /\ over' < d[loop]
    BY <2>1, <2>2, <1>3, <1>4, <1>6, <1>8
  <2>5. OnTheWay'
    BY <2>2, <2>4, <1>1, <1>3, <1>4, <1>5 DEF OnTheWay, min
  <2>6. TypeOK' /\ MotorsAgree'
    BY <2>2, <2>4, <1>1, <1>2, <1>3, <1>4, <2>1 DEF TypeOK, MotorsAgree
  <2> QED
    BY <2>2, <2>3, <2>5, <2>6, <1>1, <1>3, <1>4 DEF IInv
<1> QED
  BY <1>7, <1>8

LEMMA LineZStepIInv ==
  ASSUME IInv, LineZStep
  PROVE  IInv' /\ \A a \in Axes : pulses'[a] <= d[a]
<1>1. TypeOK /\ OnTheWay /\ loop = "z" /\ i < d["z"] /\ i' = i + 1 /\ Pulse({"z"})
      /\ UNCHANGED <<loop, p, new, d, dir, over>>
  BY DEF IInv, LineZStep
<1>2. \A a \in Axes : /\ new[a] = p[a] + dir[a] * d[a] /\ d[a] \in Nat
                      /\ motor[a] = p[a] + dir[a] * pulses[a]
                      /\ p[a] \in Int /\ dir[a] \in {1, -1} /\ pulses[a] \in Nat
  BY <1>1 DEF TypeOK, OnTheWay
<1>3. /\ pulses["z"] = i /\ i \in Nat
      /\ \A a \in Plane : d[a] = 0 /\ pulses[a] = 0
  BY <1>1 DEF TypeOK, OnTheWay
<1>4. /\ pulses' \in [Axes -> Nat] /\ motor' \in [Axes -> Int]
      /\ pulses'["z"] = i + 1 /\ \A a \in Plane : pulses'[a] = 0
      /\ \A a \in Axes : motor'[a] = p[a] + dir[a] * pulses'[a]
  BY <1>1, <1>2, <1>3 DEF Pulse, TypeOK, Axes, Plane
<1>5. TypeOK' /\ MotorsAgree'
  BY <1>1, <1>4 DEF TypeOK, MotorsAgree
<1>6. OnTheWay'
  BY <1>1, <1>2, <1>3, <1>4 DEF OnTheWay, Plane, Axes
<1> QED
  BY <1>1, <1>2, <1>3, <1>4, <1>5, <1>6 DEF IInv, Axes, Plane

\* At the end of the loop every axis has had all its pulses.
LEMMA ArriveIInv ==
  ASSUME IInv, Arrive
  PROVE  IInv'
<1>1. TypeOK /\ OnTheWay /\ loop # "none" /\ loop' = "none" /\ p' = new
      /\ UNCHANGED <<new, d, dir, i, over, motor, pulses>> /\ i >= d[loop]
  BY DEF IInv, Arrive
<1>2. \A a \in Axes : pulses[a] = d[a]
  <2>1. CASE loop = "z"
    BY <1>1, <2>1 DEF OnTheWay, TypeOK, Axes, Plane
  <2>2. CASE loop \in Plane
    <3> DEFINE min == Other(loop)
    <3>1. /\ loop \in Axes /\ min \in Axes
          /\ \A a \in Axes : a = loop \/ a = min \/ a = "z"
      BY <2>2 DEF Plane, Axes, Other
    <3>2. /\ d[loop] \in Nat /\ d[min] \in Nat /\ pulses[min] \in Nat /\ i = d[loop]
          /\ pulses[loop] = i /\ d["z"] = 0 /\ pulses["z"] = 0
          /\ d[min] <= d[loop] /\ pulses[min] <= i
          /\ over = i * d[min] - pulses[min] * d[loop]
          /\ 0 <= over /\ (d[loop] > 0 => over < d[loop])
      BY <1>1, <2>2, <3>1 DEF OnTheWay, TypeOK
    <3> HIDE DEF min
    <3>3. pulses[min] = d[min]
      <4>1. CASE d[loop] = 0
        BY <3>2, <4>1
      <4>2. CASE d[loop] > 0
        <5>1. /\ 0 <= d[loop] * d[min] - pulses[min] * d[loop]
              /\ d[loop] * d[min] - pulses[min] * d[loop] < d[loop]
          BY <3>2, <4>2
        <5> QED
          BY <3>2, <5>1, AllPulsesGiven
      <4> QED
        BY <3>2, <4>1, <4>2
    <3> QED
      BY <3>1, <3>2, <3>3
  <2> QED
    BY <1>1, <2>1, <2>2 DEF TypeOK, Axes, Plane
<1>3. motor = new
  BY <1>1, <1>2 DEF OnTheWay, TypeOK
<1> QED
  BY <1>1, <1>3 DEF IInv, TypeOK, MotorsAgree

LEMMA StutterIInv ==
  ASSUME IInv, UNCHANGED vars
  PROVE  IInv'
BY DEF IInv, TypeOK, MotorsAgree, OnTheWay, vars, Plane, Other

LEMMA NextIInv ==
  ASSUME IInv, [Next]_vars
  PROVE  IInv'
<1>1. Coords \subseteq Int
  BY CoordsAssumption
<1>2. ASSUME NEW newx \in Coords, NEW newy \in Coords, Line(newx, newy) PROVE IInv'
  BY <1>1, <1>2, LineIInv
<1>3. ASSUME NEW newZ \in Coords, LineZ(newZ) PROVE IInv'
  BY <1>1, <1>3, LineZIInv
<1> QED
  BY <1>2, <1>3, LineStepIInv, LineZStepIInv, ArriveIInv, StutterIInv DEF Next

LEMMA Invariance == Spec => []IInv
  BY InitIInv, NextIInv, PTL DEF Spec

-----------------------------------------------------------------------------
(* The theorems.                                                           *)

\* Every variable keeps its type.
THEOREM TypeCorrect == Spec => []TypeOK
<1>1. IInv => TypeOK
  BY DEF IInv
<1> QED
  BY <1>1, Invariance, PTL

\* line() and lineZ() bring the motors exactly where px, py, pz say, for
\* targets of any distance and direction.
THEOREM MotorsAlwaysAgree == Spec => []MotorsAgree
<1>1. IInv => MotorsAgree
  BY DEF IInv
<1> QED
  BY <1>1, Invariance, PTL

\* The path of every line() stays within a step of the straight line.
THEOREM AlwaysOnTheLine == Spec => []OnTheLine
<1>1. IInv => OnTheLine
  <2> SUFFICES ASSUME IInv, loop \in Plane, d[loop] > 0
               PROVE  LET minor == Other(loop)
                          off   == (motor[minor] - p[minor]) * d[loop] * dir[minor]
                                   - (motor[loop] - p[loop]) * d[minor] * dir[loop]
                      IN  off <= 0 /\ off > -d[loop]
    BY DEF OnTheLine
  <2> DEFINE min == Other(loop)
  <2>1. loop \in Axes /\ min \in Axes /\ loop # "none"
    BY DEF Plane, Axes, Other
  <2>2. /\ d[loop] \in Nat /\ d[min] \in Nat /\ pulses[min] \in Nat /\ i \in Nat
        /\ dir[min] \in {1, -1} /\ dir[loop] \in {1, -1}
        /\ p[min] \in Int /\ p[loop] \in Int
        /\ motor[min] = p[min] + dir[min] * pulses[min]
        /\ motor[loop] = p[loop] + dir[loop] * i
        /\ over = i * d[min] - pulses[min] * d[loop]
        /\ 0 <= over /\ over < d[loop] /\ over \in Int
    BY <2>1 DEF IInv, OnTheWay, TypeOK
  <2> HIDE DEF min
  <2>3. (motor[min] - p[min]) * d[loop] * dir[min] = pulses[min] * d[loop]
    BY <2>2, SMT
  <2>4. (motor[loop] - p[loop]) * d[min] * dir[loop] = i * d[min]
    BY <2>2, SMT
  <2> QED
    BY <2>2, <2>3, <2>4 DEF min
<1> QED
  BY <1>1, Invariance, PTL

\* A turn of either loop brings every motor no further from its target.
LEMMA TurnApproaches ==
  ASSUME IInv, LineStep \/ LineZStep, NEW a \in Axes
  PROVE  Abs(new[a] - motor'[a]) <= Abs(new[a] - motor[a])
<1>1. /\ TypeOK /\ OnTheWay /\ p' = p /\ new' = new /\ d' = d /\ dir' = dir /\ loop' = loop
      /\ loop # "none"
  BY DEF IInv, LineStep, LineZStep, Plane
<1>2. PICK S \in SUBSET Axes : Pulse(S)
  <2>1. Plane \in SUBSET Axes /\ {"z"} \in SUBSET Axes /\ {loop} \in SUBSET Axes
    BY <1>1 DEF TypeOK, Plane, Axes
  <2> QED
    BY <2>1 DEF LineStep, LineZStep
<1>3. \A b \in Axes : motor[b] = p[b] + dir[b] * pulses[b]
  BY <1>1 DEF OnTheWay
<1>4. /\ pulses'[a] \in Nat /\ pulses'[a] >= pulses[a]
      /\ motor'[a] = p[a] + dir[a] * pulses'[a]
  BY <1>1, <1>2, <1>3, PulseMoves DEF TypeOK
<1>5. pulses'[a] <= d[a]
  <2>1. CASE LineStep
    <3>1. IInv' /\ \A b \in Plane : pulses'[b] <= d[b]
      BY <2>1, LineStepIInv
    <3>2. d["z"] = 0 /\ pulses'["z"] = 0
      BY <1>1, <2>1, <3>1 DEF IInv, OnTheWay, LineStep, Plane
    <3> QED
      BY <3>1, <3>2 DEF Axes, Plane
  <2>2. CASE LineZStep
    BY <2>2, LineZStepIInv
  <2> QED
    BY <2>1, <2>2
<1>6. /\ new[a] = p[a] + dir[a] * d[a] /\ motor[a] = p[a] + dir[a] * pulses[a]
      /\ p[a] \in Int /\ d[a] \in Nat /\ pulses[a] \in Nat /\ dir[a] \in {1, -1}
  BY <1>1 DEF OnTheWay, TypeOK
<1>7. CASE dir[a] = 1
  BY <1>4, <1>5, <1>6, <1>7 DEF Abs
<1>8. CASE dir[a] = -1
  BY <1>4, <1>5, <1>6, <1>8 DEF Abs
<1> QED
  BY <1>6, <1>7, <1>8

\* No step of a move leads a motor away from its target, hence none past it.
THEOREM NeverOvershoots == Spec => NoOvershoot
<1> DEFINE Approach == \A a \in Axes : loop # "none" /\ loop' = loop =>
                          Abs(new[a] - motor'[a]) <= Abs(new[a] - motor[a])
<1>1. ASSUME IInv, [Next]_vars
      PROVE  [Approach]_vars
  <2>1. CASE LineStep \/ LineZStep
    BY <1>1, <2>1, TurnApproaches
  <2>2. CASE Arrive
    BY <2>2 DEF Arrive
  <2>3. CASE \E newx, newy \in Coords : Line(newx, newy)
    BY <2>3 DEF Line
  <2>4. CASE \E newZ \in Coords : LineZ(newZ)
    BY <2>4 DEF LineZ
  <2> QED
    BY <1>1, <2>1, <2>2, <2>3, <2>4 DEF Next
<1> QED
  BY <1>1, Invariance, PTL DEF Spec, NoOvershoot
=============================================================================
