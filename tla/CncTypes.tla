------------------------------ MODULE CncTypes ------------------------------
(***************************************************************************)
(* The data the server and the firmware exchange over the serial line.     *)
(* Text is abstracted to what the two ends tell apart: a command line is   *)
(* what getNumbers makes of it, a position line is the position it prints. *)
(* Lengths are integers in nanometres (the six decimals of "%f" in         *)
(* millimetres), positions of the motors are integers in steps.            *)
(***************************************************************************)
EXTENDS Integers, Sequences, FiniteSets

Axes == {"x", "y", "z"}
Home == [a \in Axes |-> 0]

\* 1600 steps are 3 mm: one step prints as 0.001875 mm, exactly six decimals.
GetMM(steps) == 1875 * steps

\* The conversion to int truncates toward zero.
GetNumberOfSteps(mm) == IF mm >= 0 THEN mm \div 1875 ELSE -((-mm) \div 1875)

-----------------------------------------------------------------------------
(* Command lines. "to" holds the coordinates of the line by axis: one      *)
(* coordinate drives z, two drive x and y, three redefine the position,    *)
(* and a line that is not a coordinate line has none. "blank" is the empty *)
(* string, which Java's split(",") makes of an empty job.                  *)
Targets == [{} -> Int] \cup [{"z"} -> Int] \cup [{"x", "y"} -> Int] \cup [Axes -> Int]
NoTarget == [a \in {} |-> 0]
Ops     == {"coordinates", "spindleOn", "spindleOff", "handShake", "blank"}
Body    == [op : Ops, to : Targets]
Command == [id : Nat, by : Nat, op : Ops, to : Targets]

GoTo(target)   == [op |-> "coordinates", to |-> target]
Spindle(on)    == [op |-> IF on THEN "spindleOn" ELSE "spindleOff", to |-> NoTarget]
HandShake      == [op |-> "handShake", to |-> NoTarget]
Blank          == [op |-> "blank", to |-> NoTarget]

\* A body with its number in the order of acceptance and the client whose job
\* it belongs to (0: none). Both are history, the line itself carries neither.
Stamp(body, id, by) == [id |-> id, by |-> by, op |-> body.op, to |-> body.to]

\* The HandShake line the server writes by itself has number 0.
ServerHandShake == Stamp(HandShake, 0, 0)

Ids(lines) == {lines[i].id : i \in 1..Len(lines)} \ {0}

-----------------------------------------------------------------------------
(* Position lines, as the server reads them. "full" is a whole line, the   *)
(* other kinds but "none" (the empty string) are the rest of a line whose  *)
(* first characters were lost: with both '#', and then still in the form   *)
(* of a position ("match") or not ("two"), with one, and with none         *)
(* ("tail"). The numbers of a rest are taken for zero.                     *)
Position == [Axes -> Int]
PosLine  == [kind : {"full", "match", "two", "one", "tail", "none"}, mm : Position]

Report(pos) == [kind |-> "full", mm |-> [a \in Axes |-> GetMM(pos[a])]]
Rest(kind)  == [kind |-> kind, mm |-> Home]
NoLine      == Rest("none")

ContainsHash(line) == line.kind \in {"full", "match", "two", "one"}

\* Mutant: a pattern that starts each number at [1-9].
PositivePattern(line) == line.kind = "full" /\ \A a \in Axes : line.mm[a] > 0

\* \d+.\d+#\d+.\d+#\d+.\d+ has no place for a minus sign.
MatchesPattern(line) ==
  line.kind = "match" \/ (line.kind = "full" /\ \A a \in Axes : line.mm[a] >= 0)
=============================================================================
