--------------------------- MODULE CncFaultsProofs ---------------------------
(***************************************************************************)
(* CncFaults, for any clients, jobs and number of commands and faults:     *)
(* types, what a restart may reorder (nothing), and, as long as the        *)
(* firmware is not reset, what it forgets (nothing), how many answers the  *)
(* server is ahead by, and that an answer comes to a thread that waits.    *)
(***************************************************************************)
EXTENDS CncFaults, CncLinkProofs, FiniteSetTheorems

-----------------------------------------------------------------------------
(* The inductive invariant                                                 *)

FTypeOK == TypeOK /\ resets \in Nat /\ restarts \in Nat /\ failures \in Nat

\* Numbers grow from the command being executed over the line to the queue,
\* with HandShake lines of restarted servers (number 0) anywhere on the line.
LossyOrder ==
  /\ InOrder(queue) /\ InOrder(toFw)
  /\ \A j \in 1..Len(queue) : queue[j].id # 0 /\ queue[j].id <= accepted
  /\ \A j \in 1..Len(toFw) : /\ toFw[j].id <= accepted
                             /\ \A k \in 1..Len(queue) : toFw[j].id < queue[k].id
  /\ fpc = "exec" => /\ buffer.id <= accepted
                     /\ \A j \in 1..Len(toFw) : Before(buffer.id, toFw[j].id)
                     /\ \A j \in 1..Len(queue) : buffer.id < queue[j].id

\* The first line a server ever writes is its HandShake line, and the firmware
\* leaves handShake() with it.
SwallowInv ==
  resets = 0 /\ InHandShake =>
    IF toFw = <<>> THEN cpc = "handShake" ELSE Head(toFw) = ServerHandShake

\* The answers the firmware still has to send: to each line but the one that
\* ends its handshake.
Due ==
  Len(toFw) + (IF fpc \in {"hsPuts", "exec", "puts"} THEN 1 ELSE 0)
  - (IF InHandShake /\ toFw # <<>> THEN 1 ELSE 0)

\* Each restart costs one answer: the new thread takes some line under way for
\* the one it has asked for, so it counts the lines still due from there on. A
\* firmware in its first handshake sends without being asked.
AheadLimit == (IF cpc = "wait" THEN 2 ELSE 1) + restarts
DueInv ==
  resets = 0 =>
    /\ Serving => Len(toHost) + Due <= AheadLimit
    /\ cpc = "drain" => Due <= 1 + restarts
    /\ cpc = "handShake" =>
         \/ InHandShake /\ toFw = <<>>
         \/ Due <= 1 + restarts /\ (toHost # <<>> => Due <= restarts)

\* A thread that waits after it has written finds the last line it wrote unread,
\* or under execution, or answered. A line without a '#' is the rest of one, and
\* the first.
AnswerInv ==
  resets = 0 =>
    /\ \A j \in 1..Len(toHost) : ~ContainsHash(toHost[j]) => j = 1
    /\ cpc = "wait" /\ ~vain =>
         IF toFw # <<>> THEN toFw[Len(toFw)].id # 0
         ELSE \/ fpc \in {"exec", "puts"}
              \/ \E j \in 1..Len(toHost) : ContainsHash(toHost[j])

DebtInv == SwallowInv /\ DueInv /\ AnswerInv

-----------------------------------------------------------------------------
(* What is left of a sequence when its first d elements are gone           *)

Behind(s, d, t) ==
  /\ d \in Nat /\ Len(t) \in Nat /\ Len(s) = Len(t) + d
  /\ \A j \in 1..Len(t) : t[j] = s[j + d]

LEMMA BehindNone ==
  ASSUME NEW S, NEW s \in Seq(S)
  PROVE  Behind(s, 0, s)
  BY SeqView DEF Behind

LEMMA BehindTail ==
  ASSUME NEW S, NEW s \in Seq(S), s # <<>>
  PROVE  Behind(s, 1, Tail(s))
  BY HeadTail DEF Behind

LEMMA BehindAll ==
  ASSUME NEW S, NEW s \in Seq(S)
  PROVE  Behind(s, Len(s), <<>>)
<1>1. Len(s) \in Nat /\ Len(<<>>) = 0
  BY SeqView
<1> QED
  BY <1>1 DEF Behind

LEMMA BehindSuffix ==
  ASSUME NEW S, NEW s \in Seq(S), NEW t \in Suffixes(s)
  PROVE  t \in Seq(S) /\ \E d \in Nat : Behind(s, d, t)
<1>1. Len(s) \in Nat /\ \A j \in 1..Len(s) : s[j] \in S
  BY SeqView
<1>2. \E k \in 1..Len(s) + 1 : t = SubSeq(s, k, Len(s))
  BY DEF Suffixes
<1>3. PICK k \in 1..Len(s) + 1 : t = SubSeq(s, k, Len(s))
  BY <1>2
<1>4. /\ t \in Seq(S) /\ Len(t) = IF k <= Len(s) THEN Len(s) - k + 1 ELSE 0
      /\ \A j \in 1..Len(s) - k + 1 : t[j] = s[k + j - 1]
  <2>1. k \in Int /\ Len(s) \in Int /\ \A j \in k..Len(s) : s[j] \in S
    BY <1>1
  <2> QED
    BY <1>3, <2>1, SubSeqProperties
<1>5. Len(t) = Len(s) - k + 1 /\ k - 1 \in Nat /\ Len(t) \in Nat
  BY <1>1, <1>4
<1>6. \A j \in 1..Len(t) : t[j] = s[j + (k - 1)]
  <2> SUFFICES ASSUME NEW j \in 1..Len(t) PROVE t[j] = s[j + (k - 1)]
    OBVIOUS
  <2>1. t[j] = s[k + j - 1] /\ k + j - 1 = j + (k - 1)
    BY <1>4, <1>5
  <2> QED
    BY <2>1
<1>7. Len(s) = Len(t) + (k - 1)
  BY <1>1, <1>5
<1> QED
  BY <1>4, <1>5, <1>6, <1>7 DEF Behind

LEMMA BehindIds ==
  ASSUME NEW s, NEW d, NEW t, Behind(s, d, t)
  PROVE  Ids(t) \subseteq Ids(s)
<1> SUFFICES ASSUME NEW n \in Ids(t) PROVE n \in Ids(s)
  OBVIOUS
<1>1. n # 0 /\ \E j \in 1..Len(t) : n = t[j].id
  BY DEF Ids
<1>2. PICK j \in 1..Len(t) : n = t[j].id
  BY <1>1
<1>3. j + d \in 1..Len(s) /\ n = s[j + d].id
  BY <1>2 DEF Behind
<1> QED
  BY <1>1, <1>3 DEF Ids

LEMMA BehindInOrder ==
  ASSUME NEW s, NEW d, NEW t, Behind(s, d, t), InOrder(s)
  PROVE  InOrder(t)
<1> SUFFICES ASSUME NEW j \in 1..Len(t), NEW k \in 1..Len(t), j < k
             PROVE  Before(t[j].id, t[k].id)
  BY DEF InOrder
<1>1. /\ j + d \in 1..Len(s) /\ k + d \in 1..Len(s) /\ j + d < k + d
      /\ t[j] = s[j + d] /\ t[k] = s[k + d]
  BY DEF Behind
<1>2. Before(s[j + d].id, s[k + d].id)
  BY <1>1 DEF InOrder
<1> QED
  BY <1>1, <1>2

\* What a restarted server reads of the lines under way: the last of them, the
\* first perhaps torn.
LEMMA ReceivedData ==
  ASSUME NEW lines \in Seq(PosLine), NEW t \in Received(lines)
  PROVE  /\ t \in Seq(PosLine) /\ Len(t) \in Nat /\ (t = <<>> <=> Len(t) = 0)
         /\ \E d \in Nat : /\ Len(lines) = Len(t) + d
                          /\ \A j \in 1..Len(t) : j # 1 => t[j] = lines[j + d]
<1>1. CASE t \in Suffixes(lines)
  <2>1. t \in Seq(PosLine) /\ \E d \in Nat : Behind(lines, d, t)
    BY <1>1, BehindSuffix
  <2> QED
    BY <2>1, SeqView DEF Behind
<1>2. CASE \E kind \in {"match", "two", "one", "tail"}, s \in Suffixes(lines) \ {<<>>} :
             t = <<Rest(kind)>> \o Tail(s)
  <2>1. PICK kind \in {"match", "two", "one", "tail"}, s \in Suffixes(lines) \ {<<>>} :
          t = <<Rest(kind)>> \o Tail(s)
    BY <1>2
  <2>2. s \in Seq(PosLine) /\ s # <<>> /\ \E d \in Nat : Behind(lines, d, s)
    BY BehindSuffix
  <2>3. PICK d \in Nat : Behind(lines, d, s)
    BY <2>2
  <2>4. /\ Len(s) \in Nat /\ Len(s) >= 1 /\ Tail(s) \in Seq(PosLine) /\ Len(Tail(s)) = Len(s) - 1
        /\ \A j \in 1..Len(s) - 1 : Tail(s)[j] = s[j + 1]
    BY <2>2, HeadTail
  <2> DEFINE first == <<Rest(kind)>>
  <2>5. first \in Seq(PosLine) /\ Len(first) = 1
    BY PositionData
  <2> HIDE DEF first
  <2>6. /\ t \in Seq(PosLine) /\ Len(t) = Len(first) + Len(Tail(s))
        /\ \A j \in 1..Len(first) + Len(Tail(s)) :
             t[j] = IF j <= Len(first) THEN first[j] ELSE Tail(s)[j - Len(first)]
    BY <2>1, <2>4, <2>5, ConcatProperties DEF first
  <2>7. Len(t) = Len(s) /\ Len(t) \in Nat /\ (t = <<>> <=> Len(t) = 0)
    BY <2>4, <2>5, <2>6, SeqView
  <2>8. ASSUME NEW j \in 1..Len(t), j # 1 PROVE t[j] = s[j]
    <3>1. t[j] = Tail(s)[j - 1] /\ j - 1 \in 1..Len(s) - 1
      BY <2>4, <2>5, <2>6, <2>7, <2>8
    <3> QED
      BY <2>4, <3>1
  <2>9. Len(lines) = Len(t) + d /\ \A j \in 1..Len(t) : j # 1 => t[j] = lines[j + d]
    BY <2>3, <2>7, <2>8 DEF Behind
  <2> QED
    BY <2>6, <2>7, <2>9
<1>3. \/ t \in Suffixes(lines)
      \/ \E kind \in {"match", "two", "one", "tail"}, s \in Suffixes(lines) \ {<<>>} :
           t = <<Rest(kind)>> \o Tail(s)
  BY DEF Received
<1> QED
  BY <1>1, <1>2, <1>3

-----------------------------------------------------------------------------
(* Types                                                                   *)

LEMMA FaultTypesInit == FInit => FTypeOK
  BY TypeInit DEF FInit, FTypeOK

LEMMA FaultTypes ==
  ASSUME FTypeOK, [FNext]_fvars
  PROVE  FTypeOK'
<1>1. /\ TypeOK /\ toFw \in Seq(Command) /\ toHost \in Seq(PosLine) /\ queue \in Seq(Command)
      /\ buffer \in Command /\ pos \in Position /\ tool \in Position
      /\ dropped \in SUBSET Nat /\ resets \in Nat /\ restarts \in Nat /\ failures \in Nat
      /\ robbed \in BOOLEAN
  BY LinkTypes DEF FTypeOK, TypeOK, SharedTypeOK, FwTypeOK
<1>2. \A s : s \in Seq(Command) => Ids(s) \in SUBSET Nat
  <2> SUFFICES ASSUME NEW s \in Seq(Command), NEW n \in Ids(s) PROVE n \in Nat
    OBVIOUS
  <2>1. \E j \in 1..Len(s) : n = s[j].id
    BY DEF Ids
  <2>2. \A j \in 1..Len(s) : s[j] \in Command
    BY SeqView
  <2>3. \A cmd \in Command : cmd.id \in Nat
    BY DEF Command
  <2> QED
    BY <2>1, <2>2, <2>3
<1>3. \A cmd \in Command : <<cmd>> \in Seq(Command)
  OBVIOUS
<1>4. CASE UNCHANGED fvars
  BY <1>4, TypeNext DEF fvars, FTypeOK
<1>5. CASE Next /\ UNCHANGED <<resets, restarts, failures>>
  BY <1>1, <1>5, TypeNext DEF FTypeOK
<1>6. CASE FirmwareReset
  <2>1. toFw' \in Seq(Command)
    BY <1>1, <1>6, BehindSuffix DEF FirmwareReset
  <2>2. tool' \in Position /\ pos' \in Position
    <3>1. buffer.to \in Targets
      BY <1>1 DEF Command
    <3>2. Moved(buffer.to) \in Position
      BY <1>1, <3>1, ReachedData
    <3> QED
      BY <1>1, <1>6, <3>2, PositionData DEF FirmwareReset
  <2>3. dropped' \in SUBSET Nat
    <3>1. Ids(toFw) \in SUBSET Nat /\ Ids(<<buffer>>) \in SUBSET Nat
      BY <1>1, <1>2, <1>3
    <3> QED
      BY <1>1, <1>6, <3>1 DEF FirmwareReset
  <2>4. buffer' \in Command /\ fpc' = "hsGets" /\ resets' \in Nat
        /\ UNCHANGED <<toHost, queue, queueIsEmpty, linie, sessionId, spindleRunning,
                       accepted, executed, cpc, req, robbed, restarts, failures>>
    BY <1>1, <1>6, CommandData DEF FirmwareReset, statics
  <2>5. spindle' \in BOOLEAN
    BY <1>6, Zenon DEF FirmwareReset
  <2> QED
    BY <1>1, <2>1, <2>2, <2>3, <2>4, <2>5 DEF FTypeOK, TypeOK, SharedTypeOK, FwTypeOK, CommTypeOK, CtlTypeOK
<1>7. CASE ServerRestart
  <2>1. toHost' \in Seq(PosLine)
    BY <1>1, <1>7, ReceivedData DEF ServerRestart
  <2>2. dropped' \in SUBSET Nat
    BY <1>1, <1>2, <1>7 DEF ServerRestart
  <2>3. queue' \in Seq(Command) /\ linie' \in PosLine /\ cpc' = "handShake"
        /\ sessionId' \in Nat /\ restarts' \in Nat
        /\ UNCHANGED <<toFw, accepted, executed, fpc, buffer, pos, tool, spindle, robbed, resets, failures>>
    BY <1>1, <1>7, PositionData DEF ServerRestart, fwVars
  <2>4. queueIsEmpty' \in BOOLEAN /\ spindleRunning' \in BOOLEAN
    BY <1>7, Zenon DEF ServerRestart
  <2>5. req' \in [Connections -> Pending]
    BY <1>7 DEF ServerRestart, Pending
  <2> QED
    BY <1>1, <2>1, <2>2, <2>3, <2>4, <2>5 DEF FTypeOK, TypeOK, SharedTypeOK, FwTypeOK, CommTypeOK, CtlTypeOK
<1>8. CASE WriteFails
  <2>1. queue' \in Seq(Command) /\ dropped' \in SUBSET Nat
    <3>1. queue # <<>> /\ queue' = Tail(queue) /\ dropped' = dropped \cup Ids(<<Head(queue)>>)
      BY <1>8 DEF WriteFails
    <3>2. Head(queue) \in Command /\ Tail(queue) \in Seq(Command)
      BY <1>1, <3>1, HeadTail
    <3>3. Ids(<<Head(queue)>>) \in SUBSET Nat
      BY <1>2, <1>3, <3>2
    <3> QED
      BY <1>1, <3>1, <3>2, <3>3
  <2>2. cpc' = "wait" /\ failures' \in Nat
        /\ UNCHANGED <<toFw, toHost, queueIsEmpty, linie, sessionId, spindleRunning, accepted, executed,
                       fpc, buffer, pos, tool, spindle, req, robbed, resets, restarts>>
    BY <1>1, <1>8 DEF WriteFails, line, fwVars
  <2> QED
    BY <1>1, <2>1, <2>2 DEF FTypeOK, TypeOK, SharedTypeOK, FwTypeOK, CommTypeOK, CtlTypeOK
<1> QED
  BY <1>4, <1>5, <1>6, <1>7, <1>8 DEF FNext

\* Every variable keeps its type, whatever fails and whatever the clients ask.
THEOREM FaultsTypeCorrect == FSpec => []TypeOK
<1>1. FTypeOK => TypeOK
  BY DEF FTypeOK
<1> QED
  BY <1>1, FaultTypesInit, FaultTypes, PTL DEF FSpec

-----------------------------------------------------------------------------
(* The order of the commands                                               *)

LEMMA OrderTypes ==
  ASSUME FTypeOK
  PROVE  /\ TypeOK /\ queue \in Seq(Command) /\ toFw \in Seq(Command) /\ accepted \in Nat
         /\ Len(queue) \in Nat /\ Len(toFw) \in Nat /\ buffer.id \in Nat
         /\ \A j \in 1..Len(queue) : queue[j].id \in Nat
         /\ \A j \in 1..Len(toFw) : toFw[j].id \in Nat
<1>1. /\ TypeOK /\ queue \in Seq(Command) /\ toFw \in Seq(Command) /\ accepted \in Nat
      /\ buffer \in Command /\ \A cmd \in Command : cmd.id \in Nat
  BY LinkTypes DEF FTypeOK
<1> QED
  BY <1>1, SeqView

\* Steps that only take lines from the fronts of toFw and queue.
LEMMA OrderShrinks ==
  ASSUME FTypeOK, LossyOrder, NEW d, NEW e, Behind(toFw, d, toFw'), Behind(queue, e, queue'),
         accepted' = accepted, fpc' = "exec" => fpc = "exec" /\ buffer' = buffer
  PROVE  LossyOrder'
<1>1. /\ d \in Nat /\ e \in Nat /\ Len(queue') \in Nat /\ Len(toFw') \in Nat
      /\ \A j \in 1..Len(queue') : j + e \in 1..Len(queue) /\ queue'[j] = queue[j + e]
      /\ \A j \in 1..Len(toFw') : j + d \in 1..Len(toFw) /\ toFw'[j] = toFw[j + d]
  BY DEF Behind
<1>2. InOrder(queue') /\ InOrder(toFw')
  BY BehindInOrder DEF LossyOrder
<1>3. \A j \in 1..Len(queue') : queue'[j].id # 0 /\ queue'[j].id <= accepted'
  BY <1>1 DEF LossyOrder
<1>4. \A j \in 1..Len(toFw') : /\ toFw'[j].id <= accepted'
                               /\ \A k \in 1..Len(queue') : toFw'[j].id < queue'[k].id
  BY <1>1 DEF LossyOrder
<1>5. fpc' = "exec" => /\ buffer'.id <= accepted'
                       /\ \A j \in 1..Len(toFw') : Before(buffer'.id, toFw'[j].id)
                       /\ \A j \in 1..Len(queue') : buffer'.id < queue'[j].id
  BY <1>1 DEF LossyOrder
<1> QED
  BY <1>2, <1>3, <1>4, <1>5 DEF LossyOrder, Before

\* The firmware starts on the first line.
LEMMA OrderGets ==
  ASSUME FTypeOK, LossyOrder, Gets
  PROVE  LossyOrder'
<1>1. /\ toFw # <<>> /\ toFw' = Tail(toFw) /\ buffer' = Head(toFw)
      /\ UNCHANGED <<queue, accepted>>
  BY DEF Gets, statics, history
<1>2. /\ Len(toFw) \in Nat /\ Len(toFw) >= 1 /\ Len(toFw') = Len(toFw) - 1
      /\ Head(toFw) = toFw[1]
      /\ \A j \in 1..Len(toFw') : toFw'[j] = toFw[j + 1]
  BY <1>1, OrderTypes, HeadTail
<1>3. \A j \in 1..Len(toFw') : Before(buffer'.id, toFw'[j].id)
  BY <1>1, <1>2 DEF LossyOrder, InOrder
<1>4. InOrder(toFw') /\ InOrder(queue')
  BY <1>1, OrderTypes, BehindTail, BehindInOrder DEF LossyOrder
<1> QED
  BY <1>1, <1>2, <1>3, <1>4 DEF LossyOrder

\* The server writes a line: its own HandShake line, or the first of the queue.
LEMMA OrderWrites ==
  ASSUME FTypeOK, LossyOrder, NEW cmd \in Command, toFw' = Append(toFw, cmd),
         NEW e, Behind(queue, e, queue'),
         cmd.id = 0 \/ (e = 1 /\ cmd = queue[1]),
         UNCHANGED <<accepted, fpc, buffer>>
  PROVE  LossyOrder'
<1>1. /\ Len(toFw') = Len(toFw) + 1 /\ toFw'[Len(toFw) + 1] = cmd
      /\ \A j \in 1..Len(toFw) : toFw'[j] = toFw[j]
  BY OrderTypes, AppendView
<1>2. /\ e \in Nat /\ Len(queue') \in Nat
      /\ \A j \in 1..Len(queue') : j + e \in 1..Len(queue) /\ queue'[j] = queue[j + e]
  BY DEF Behind
<1>3. e = 1 => 1 \in 1..Len(queue)
  BY DEF Behind
<1>4. cmd.id \in Nat /\ Len(toFw) \in Nat
  BY OrderTypes DEF Command
<1>5. /\ \A j \in 1..Len(toFw) : Before(toFw[j].id, cmd.id)
      /\ cmd.id <= accepted
      /\ \A k \in 1..Len(queue') : cmd.id < queue'[k].id
      /\ fpc = "exec" => Before(buffer.id, cmd.id)
  <2>1. CASE cmd.id = 0
    <3>1. \A j \in 1..Len(queue) : queue[j].id \in Nat /\ queue[j].id # 0
      BY OrderTypes DEF LossyOrder
    <3>2. \A k \in 1..Len(queue') : cmd.id < queue'[k].id
      BY <1>2, <2>1, <3>1
    <3>3. cmd.id <= accepted
      BY <2>1, OrderTypes
    <3>4. \A id : Before(id, cmd.id)
      BY <2>1 DEF Before
    <3> QED
      BY <3>2, <3>3, <3>4
  <2>2. CASE cmd.id # 0
    <3>1. e = 1 /\ cmd = queue[1] /\ 1 \in 1..Len(queue)
      BY <1>3, <2>2
    <3>2. \A k \in 1..Len(queue') : Before(queue[1].id, queue[k + 1].id)
      BY <1>2, <3>1 DEF LossyOrder, InOrder
    <3>3. \A k \in 1..Len(queue') : queue[1].id < queue'[k].id
      BY <1>2, <3>1, <3>2 DEF LossyOrder, Before
    <3> QED
      BY <3>1, <3>3 DEF LossyOrder, Before
  <2> QED
    BY <2>1, <2>2
<1>6. InOrder(toFw')
  <2> SUFFICES ASSUME NEW j \in 1..Len(toFw'), NEW k \in 1..Len(toFw'), j < k
               PROVE  Before(toFw'[j].id, toFw'[k].id)
    BY DEF InOrder
  <2>1. j \in 1..Len(toFw) /\ toFw'[j] = toFw[j]
    BY <1>1, <1>4
  <2>2. CASE k \in 1..Len(toFw)
    BY <1>1, <2>1, <2>2 DEF LossyOrder, InOrder
  <2>3. CASE k = Len(toFw) + 1
    BY <1>1, <1>5, <2>1, <2>3
  <2> QED
    BY <1>1, <1>4, <2>2, <2>3
<1>7. InOrder(queue') /\ \A j \in 1..Len(queue') : queue'[j].id # 0 /\ queue'[j].id <= accepted'
  BY <1>2, BehindInOrder DEF LossyOrder
<1>8. ASSUME NEW j \in 1..Len(toFw')
      PROVE  toFw'[j].id <= accepted' /\ \A k \in 1..Len(queue') : toFw'[j].id < queue'[k].id
  <2>1. CASE j \in 1..Len(toFw)
    BY <1>1, <1>2, <2>1 DEF LossyOrder
  <2>2. CASE j = Len(toFw) + 1
    BY <1>1, <1>5, <2>2
  <2> QED
    BY <1>1, <1>4, <2>1, <2>2
<1>9. ASSUME fpc' = "exec"
      PROVE  /\ buffer'.id <= accepted'
             /\ \A j \in 1..Len(toFw') : Before(buffer'.id, toFw'[j].id)
             /\ \A j \in 1..Len(queue') : buffer'.id < queue'[j].id
  <2>1. \A j \in 1..Len(toFw') : j \in 1..Len(toFw) \/ j = Len(toFw) + 1
    BY <1>1, <1>4
  <2> QED
    BY <1>1, <1>2, <1>5, <1>9, <2>1 DEF LossyOrder
<1> QED
  BY <1>6, <1>7, <1>8, <1>9 DEF LossyOrder

\* A request queues bodies.
LEMMA OrderAdd ==
  ASSUME FTypeOK, LossyOrder, NEW bodies \in Seq(Body), NEW by \in Nat, Add(bodies, by),
         UNCHANGED <<fpc, buffer, toFw>>
  PROVE  LossyOrder'
<1>1. /\ queue \in Seq(Command) /\ accepted \in Nat /\ Len(queue) \in Nat /\ buffer.id \in Nat
      /\ \A j \in 1..Len(queue) : queue[j].id \in Nat
      /\ \A j \in 1..Len(toFw) : toFw[j].id \in Nat
  BY OrderTypes
<1>2. /\ Len(queue') = Len(queue) + Len(bodies) /\ Len(bodies) \in Nat
      /\ accepted' = accepted + Len(bodies)
      /\ \A j \in 1..Len(queue) : queue'[j] = queue[j]
      /\ \A j \in Len(queue) + 1..Len(queue') : queue'[j].id = accepted + (j - Len(queue))
  BY <1>1, AddFacts
<1>3. ASSUME NEW k \in 1..Len(queue')
      PROVE  \/ k \in 1..Len(queue) /\ queue'[k] = queue[k]
             \/ /\ k \in Len(queue) + 1..Len(queue')
                /\ queue'[k].id = accepted + (k - Len(queue))
                /\ queue'[k].id > accepted /\ queue'[k].id <= accepted'
                /\ queue'[k].id \in Nat
  <2>1. k \in 1..Len(queue) \/ k \in Len(queue) + 1..Len(queue')
    BY <1>1, <1>2
  <2>2. CASE k \in Len(queue) + 1..Len(queue')
    <3>1. queue'[k].id = accepted + (k - Len(queue))
      BY <1>2, <2>2
    <3> QED
      BY <1>1, <1>2, <2>2, <3>1
  <2> QED
    BY <1>2, <2>1, <2>2
<1>4. \A k \in 1..Len(queue') : queue'[k].id # 0 /\ queue'[k].id <= accepted' /\ queue'[k].id \in Nat
  <2> SUFFICES ASSUME NEW k \in 1..Len(queue')
               PROVE  queue'[k].id # 0 /\ queue'[k].id <= accepted' /\ queue'[k].id \in Nat
    OBVIOUS
  <2>1. CASE k \in 1..Len(queue) /\ queue'[k] = queue[k]
    BY <1>1, <1>2, <2>1 DEF LossyOrder
  <2>2. CASE queue'[k].id > accepted /\ queue'[k].id <= accepted' /\ queue'[k].id \in Nat
    BY <1>1, <2>2
  <2> QED
    BY <1>3, <2>1, <2>2
<1>5. ASSUME NEW n \in Nat, n <= accepted, \A k \in 1..Len(queue) : n < queue[k].id
      PROVE  n <= accepted' /\ \A k \in 1..Len(queue') : n < queue'[k].id
  BY <1>1, <1>2, <1>3, <1>5
<1>6. InOrder(queue')
  <2> SUFFICES ASSUME NEW j \in 1..Len(queue'), NEW k \in 1..Len(queue'), j < k
               PROVE  Before(queue'[j].id, queue'[k].id)
    BY DEF InOrder
  <2>1. CASE j \in 1..Len(queue) /\ k \in 1..Len(queue)
    BY <1>2, <2>1 DEF LossyOrder, InOrder
  <2>2. CASE j \in 1..Len(queue) /\ k \in Len(queue) + 1..Len(queue')
    <3>1. queue'[j].id <= accepted /\ queue'[j].id \in Nat
      BY <1>1, <1>2, <2>2 DEF LossyOrder
    <3>2. queue'[k].id = accepted + (k - Len(queue)) /\ k > Len(queue)
      BY <1>1, <1>2, <2>2
    <3> QED
      BY <1>1, <3>1, <3>2 DEF Before
  <2>3. CASE j \in Len(queue) + 1..Len(queue') /\ k \in Len(queue) + 1..Len(queue')
    <3>1. /\ queue'[j].id = accepted + (j - Len(queue))
          /\ queue'[k].id = accepted + (k - Len(queue))
      BY <1>2, <2>3
    <3> QED
      BY <1>1, <1>2, <2>3, <3>1 DEF Before
  <2> QED
    BY <1>1, <1>2, <2>1, <2>2, <2>3
<1>7. InOrder(toFw')
  BY DEF LossyOrder, InOrder
<1>8. \A j \in 1..Len(toFw') : /\ toFw'[j].id <= accepted'
                               /\ \A k \in 1..Len(queue') : toFw'[j].id < queue'[k].id
  BY <1>1, <1>5 DEF LossyOrder
<1>9. fpc' = "exec" => /\ buffer'.id <= accepted'
                       /\ \A j \in 1..Len(toFw') : Before(buffer'.id, toFw'[j].id)
                       /\ \A j \in 1..Len(queue') : buffer'.id < queue'[j].id
  BY <1>1, <1>5 DEF LossyOrder, Before
<1> QED
  BY <1>4, <1>6, <1>7, <1>8, <1>9 DEF LossyOrder

LEMMA OrderFirmware ==
  ASSUME FTypeOK, LossyOrder, FwNext
  PROVE  LossyOrder'
<1>1. Behind(toFw, 0, toFw) /\ Behind(queue, 0, queue)
  BY OrderTypes, BehindNone
<1>2. CASE HandShakeGetsNothing \/ HandShakePuts \/ Exec \/ Puts
  <2>1. fpc' # "exec" /\ UNCHANGED <<toFw, queue, accepted>>
    BY <1>2 DEF HandShakeGetsNothing, HandShakePuts, Exec, Puts, line, statics, history
  <2> QED
    BY <1>1, <2>1, OrderShrinks
<1>3. CASE HandShakeAccept \/ HandShakeSwallow
  <2>1. toFw # <<>> /\ toFw' = Tail(toFw) /\ fpc' # "exec" /\ UNCHANGED <<queue, accepted>>
    BY <1>3 DEF HandShakeAccept, HandShakeSwallow, statics
  <2>2. Behind(toFw, 1, toFw')
    BY <2>1, OrderTypes, BehindTail
  <2> QED
    BY <1>1, <2>1, <2>2, OrderShrinks
<1> QED
  BY <1>2, <1>3, OrderGets DEF FwNext

LEMMA OrderCommunicator ==
  ASSUME FTypeOK, LossyOrder, CommNext, UNCHANGED fwVars
  PROVE  LossyOrder'
<1>1. Behind(toFw, 0, toFw) /\ Behind(queue, 0, queue) /\ UNCHANGED <<fpc, buffer>>
  BY OrderTypes, BehindNone DEF fwVars
<1>2. CASE \/ HandShakeSkip \/ DrainRead \/ DrainDone \/ CheckQueue \/ Release
           \/ TakeNothing \/ Receive
  <2>1. UNCHANGED <<toFw, queue, accepted>>
    BY <1>2 DEF HandShakeSkip, DrainRead, DrainDone, CheckQueue, Release, TakeNothing, Receive,
       line, statics, history
  <2> QED
    BY <1>1, <2>1, OrderShrinks
<1>3. CASE HandShakeMatch
  <2>1. toFw' = Append(toFw, ServerHandShake) /\ UNCHANGED <<queue, accepted>>
    BY <1>3 DEF HandShakeMatch, history
  <2> QED
    BY <1>1, <2>1, CommandData, LineData, OrderWrites
<1>4. CASE Take
  <2>1. /\ queue # <<>> /\ queue' = Tail(queue) /\ accepted' = accepted
        /\ toFw' = toFw \/ toFw' = Append(toFw, Head(queue))
    BY <1>4 DEF Take
  <2>2. Behind(queue, 1, queue') /\ Head(queue) = queue[1] /\ Head(queue) \in Command
    BY <2>1, OrderTypes, BehindTail, HeadTail
  <2>3. CASE toFw' = toFw
    BY <1>1, <2>1, <2>2, <2>3, OrderShrinks
  <2>4. CASE toFw' = Append(toFw, Head(queue))
    BY <1>1, <2>1, <2>2, <2>4, OrderWrites
  <2> QED
    BY <2>1, <2>3, <2>4
<1> QED
  BY <1>2, <1>3, <1>4 DEF CommNext

LEMMA OrderRequest ==
  ASSUME FTypeOK, LossyOrder, NEW c \in Connections, CtlRequest(c) \/ CtlContinue(c),
         UNCHANGED <<fwVars, cpc>>
  PROVE  LossyOrder'
<1>1. /\ Behind(toFw, 0, toFw) /\ Behind(queue, 0, queue)
      /\ UNCHANGED <<fpc, buffer, toFw>> /\ ServingTypeOK
  BY OrderTypes, LinkTypes, BehindNone, RequestFacts DEF RequestEffect, fwVars, line
<1>2. CASE \E bodies \in Seq(Body), by \in Nat :
              Add(bodies, by) /\ UNCHANGED <<executed, dropped>>
  BY <1>1, <1>2, OrderAdd
<1>3. CASE /\ queue # <<>> /\ queue' = Tail(queue)
           /\ dropped' = dropped \cup Ids(<<Head(queue)>>)
           /\ UNCHANGED <<accepted, executed>>
  BY <1>1, <1>3, OrderTypes, BehindTail, OrderShrinks
<1>4. CASE UNCHANGED <<queue, history>>
  BY <1>1, <1>4, OrderShrinks DEF history
<1> QED
  BY <1>1, <1>2, <1>3, <1>4, RequestFacts DEF RequestEffect

LEMMA OrderNext ==
  ASSUME FTypeOK, LossyOrder, [FNext]_fvars
  PROVE  LossyOrder'
<1>1. /\ Behind(toFw, 0, toFw) /\ Behind(queue, 0, queue)
      /\ toFw \in Seq(Command) /\ queue \in Seq(Command)
  BY OrderTypes, BehindNone
<1>2. CASE UNCHANGED fvars
  <2>1. UNCHANGED <<toFw, queue, accepted, fpc, buffer>>
    BY <1>2 DEF fvars, vars, line, statics, history, fwVars
  <2> QED
    BY <1>1, <2>1, OrderShrinks
<1>3. CASE Next
  <2>1. CASE DrainMidLine
    <3>1. UNCHANGED <<toFw, queue, accepted, buffer>> /\ fpc' # "exec"
      BY <2>1 DEF DrainMidLine, statics, history
    <3> QED
      BY <1>1, <3>1, OrderShrinks
  <2> QED
    BY <1>3, <2>1, OrderFirmware, OrderCommunicator, OrderRequest
       DEF Next, FirmwareStep, CommunicatorStep, Request, RequestStep
<1>4. CASE FirmwareReset
  <2>1. toFw' \in Suffixes(toFw) /\ fpc' # "exec" /\ UNCHANGED <<queue, accepted>>
    BY <1>4 DEF FirmwareReset, statics
  <2>2. PICK d \in Nat : Behind(toFw, d, toFw')
    BY <1>1, <2>1, BehindSuffix
  <2> QED
    BY <1>1, <2>1, <2>2, OrderShrinks
<1>5. CASE ServerRestart
  <2>1. queue' = <<>> /\ UNCHANGED <<toFw, accepted, fpc, buffer>>
    BY <1>5 DEF ServerRestart, fwVars
  <2> QED
    BY <1>1, <2>1, BehindAll, OrderShrinks
<1>6. CASE WriteFails
  <2>1. queue # <<>> /\ queue' = Tail(queue) /\ UNCHANGED <<toFw, accepted, fpc, buffer>>
    BY <1>6 DEF WriteFails, line, fwVars
  <2> QED
    BY <1>1, <2>1, BehindTail, OrderShrinks
<1> QED
  BY <1>2, <1>3, <1>4, <1>5, <1>6 DEF FNext

LEMMA OrderInit == FInit => LossyOrder
<1> SUFFICES ASSUME FInit PROVE LossyOrder
  OBVIOUS
<1>1. toFw = <<>> /\ queue = <<>> /\ fpc = "hsGets"
  BY DEF FInit, Init, SharedInit, FwInit
<1>2. \A j : ~(j \in 1..Len(<<>>))
  OBVIOUS
<1> QED
  BY <1>1, <1>2 DEF LossyOrder, InOrder

LEMMA OrderInvariant == FSpec => [](FTypeOK /\ LossyOrder)
<1>1. FInit => FTypeOK /\ LossyOrder
  BY FaultTypesInit, OrderInit
<1>2. FTypeOK /\ LossyOrder /\ [FNext]_fvars => (FTypeOK /\ LossyOrder)'
  BY FaultTypes, OrderNext
<1> QED
  BY <1>1, <1>2, PTL DEF FSpec

-----------------------------------------------------------------------------
(* CncFaults implements the lossy CommandWindow                            *)

LEMMA LossyHead ==
  ASSUME FTypeOK, LossyOrder, toFw # <<>>
  PROVE  LET h == Head(toFw).id
         IN  /\ h \in Nat /\ Ids(<<Head(toFw)>>) = {h} \ {0}
             /\ Ids(Tail(toFw)) = Ids(toFw) \ {h}
             /\ h # 0 => LossyWindow!First(h, Ids(toFw))
<1>1. toFw \in Seq(Command) /\ InOrder(toFw)
  BY OrderTypes DEF LossyOrder
<1>2. Head(toFw) \in Command
  BY <1>1, HeadTail
<1> QED
  BY <1>1, <1>2, IdsTail, IdsOfOne DEF LossyWindow!First, Command

LEMMA LossyQueueHead ==
  ASSUME FTypeOK, LossyOrder, queue # <<>>
  PROVE  LET h == Head(queue).id
         IN  /\ Head(queue) \in Command /\ h # 0 /\ Ids(<<Head(queue)>>) = {h}
             /\ Ids(Tail(queue)) = Ids(queue) \ {h}
             /\ LossyWindow!First(h, Ids(queue)) /\ h \in Ids(queue)
<1>1. queue \in Seq(Command) /\ InOrder(queue)
  BY OrderTypes DEF LossyOrder
<1>2. Head(queue) \in Command /\ Head(queue) = queue[1] /\ 1 \in 1..Len(queue)
  BY <1>1, HeadTail
<1>3. Head(queue).id # 0
  BY <1>2 DEF LossyOrder
<1> QED
  BY <1>1, <1>2, <1>3, IdsTail, IdsOfOne DEF LossyWindow!First

LEMMA LossyFirmware ==
  ASSUME FTypeOK, LossyOrder, FwNext
  PROVE  LossyWindow!WNext \/ UNCHANGED LossyWindow!wvars
<1>1. toFw \in Seq(Command) /\ buffer \in Command /\ ~(0 \in Ids(toFw))
  BY LinkTypes DEF FTypeOK, Ids
<1>2. ASSUME fpc # "exec", fpc' # "exec"
      PROVE  Committed = Ids(toFw) /\ Committed' = Ids(toFw')
  BY <1>2 DEF Committed
<1>3. CASE HandShakeGetsNothing \/ HandShakePuts \/ Puts
  <2>1. fpc # "exec" /\ fpc' # "exec" /\ UNCHANGED <<toFw, queue, accepted, executed, dropped>>
    BY <1>3 DEF HandShakeGetsNothing, HandShakePuts, Puts, line, statics, history
  <2> QED
    BY <1>2, <2>1 DEF LossyWindow!wvars
<1>4. CASE HandShakeAccept
  <2> DEFINE h == Head(toFw).id
  <2>1. /\ toFw # <<>> /\ toFw' = Tail(toFw) /\ fpc # "exec" /\ fpc' # "exec"
        /\ executed' = executed \cup Ids(<<Head(toFw)>>)
        /\ UNCHANGED <<queue, accepted, dropped>>
    BY <1>4 DEF HandShakeAccept, statics
  <2>2. /\ Committed = Ids(toFw) /\ Committed' = Ids(toFw) \ {h}
        /\ executed' = executed \cup ({h} \ {0})
        /\ h # 0 => LossyWindow!First(h, Ids(toFw))
    BY <1>2, <2>1, LossyHead
  <2>3. CASE h = 0
    BY <1>1, <2>1, <2>2, <2>3 DEF LossyWindow!wvars
  <2>4. CASE h # 0
    BY <2>1, <2>2, <2>4 DEF LossyWindow!WNext, LossyWindow!Execute, LossyWindow!First
  <2> QED
    BY <2>3, <2>4
<1>5. CASE HandShakeSwallow
  <2> DEFINE h == Head(toFw).id
  <2>1. /\ toFw # <<>> /\ toFw' = Tail(toFw) /\ fpc # "exec" /\ fpc' # "exec"
        /\ dropped' = dropped \cup Ids(<<Head(toFw)>>)
        /\ UNCHANGED <<queue, accepted, executed>>
    BY <1>5 DEF HandShakeSwallow, statics
  <2>2. /\ Committed = Ids(toFw) /\ Committed' = Ids(toFw) \ {h}
        /\ dropped' = dropped \cup ({h} \ {0})
        /\ h # 0 => h \in Ids(toFw)
    BY <1>2, <2>1, LossyHead DEF LossyWindow!First
  <2>3. Committed' \subseteq Committed /\ dropped' = dropped \cup (Committed \ Committed')
    BY <1>1, <2>2
  <2> QED
    BY <2>1, <2>3 DEF LossyWindow!WNext, LossyWindow!Forget
<1>6. CASE Gets
  <2>1. /\ toFw # <<>> /\ toFw' = Tail(toFw) /\ fpc = "gets" /\ fpc' = "exec"
        /\ buffer' = Head(toFw)
        /\ UNCHANGED <<queue, accepted, executed, dropped>>
    BY <1>6 DEF Gets, statics, history
  <2>2. Committed = Ids(toFw) /\ Committed' = Ids(Tail(toFw)) \cup Ids(<<Head(toFw)>>)
    BY <2>1 DEF Committed
  <2>3. Committed' = Committed
    BY <1>1, <2>1, <2>2, LossyHead DEF LossyWindow!First
  <2> QED
    BY <2>1, <2>3 DEF LossyWindow!wvars
<1>7. CASE Exec
  <2>1. /\ fpc = "exec" /\ fpc' # "exec" /\ executed' = executed \cup Ids(<<buffer>>)
        /\ UNCHANGED <<toFw, queue, accepted, dropped>>
    BY <1>7 DEF Exec, line, statics
  <2>2. /\ Ids(<<buffer>>) = {buffer.id} \ {0} /\ buffer.id \in Nat
        /\ Committed = Ids(toFw) \cup ({buffer.id} \ {0}) /\ Committed' = Ids(toFw)
    BY <1>1, <2>1, IdsOfOne DEF Committed, Command
  <2>3. CASE buffer.id = 0
    BY <2>1, <2>2, <2>3 DEF LossyWindow!wvars
  <2>4. CASE buffer.id # 0
    <3>1. ASSUME NEW n \in Ids(toFw) PROVE buffer.id <= n /\ n # buffer.id
      <4>1. n # 0 /\ \E j \in 1..Len(toFw) : n = toFw[j].id
        BY DEF Ids
      <4>2. PICK j \in 1..Len(toFw) : n = toFw[j].id
        BY <4>1
      <4>3. Before(buffer.id, n) /\ n \in Nat
        BY <2>1, <4>2, OrderTypes DEF LossyOrder
      <4> QED
        BY <2>2, <2>4, <4>1, <4>3 DEF Before
    <3>2. /\ LossyWindow!First(buffer.id, Committed) /\ Committed' = Committed \ {buffer.id}
          /\ buffer.id \in Committed /\ executed' = executed \cup {buffer.id}
      BY <2>1, <2>2, <2>4, <3>1 DEF LossyWindow!First
    <3> QED
      BY <2>1, <3>2 DEF LossyWindow!WNext, LossyWindow!Execute
  <2> QED
    BY <2>3, <2>4
<1> QED
  BY <1>3, <1>4, <1>5, <1>6, <1>7 DEF FwNext

LEMMA LossyCommunicator ==
  ASSUME FTypeOK, LossyOrder, CommNext, UNCHANGED fwVars
  PROVE  LossyWindow!WNext \/ UNCHANGED LossyWindow!wvars
<1>1. toFw \in Seq(Command) /\ UNCHANGED <<fpc, buffer>>
  BY OrderTypes DEF fwVars
<1>2. CASE \/ HandShakeSkip \/ DrainRead \/ DrainDone \/ CheckQueue \/ Release
           \/ TakeNothing \/ Receive
  <2>1. UNCHANGED <<toFw, queue, accepted, executed, dropped>>
    BY <1>2 DEF HandShakeSkip, DrainRead, DrainDone, CheckQueue, Release, TakeNothing, Receive,
       line, statics, history
  <2> QED
    BY <1>1, <2>1 DEF LossyWindow!wvars, Committed
<1>3. CASE HandShakeMatch
  <2>1. toFw' = Append(toFw, ServerHandShake) /\ UNCHANGED <<queue, accepted, executed, dropped>>
    BY <1>3 DEF HandShakeMatch, history
  <2>2. Ids(toFw') = Ids(toFw)
    <3>1. Ids(Append(toFw, ServerHandShake)) = Ids(toFw) \cup ({ServerHandShake.id} \ {0})
      BY <1>1, CommandData, IdsAppend
    <3> QED
      BY <2>1, <3>1, LineData
  <2> QED
    BY <1>1, <2>1, <2>2 DEF LossyWindow!wvars, Committed
<1>4. CASE Take
  <2> DEFINE h == Head(queue).id
  <2>1. /\ queue # <<>> /\ queue' = Tail(queue)
        /\ UNCHANGED <<accepted, executed>>
        /\ \/ toFw' = toFw /\ dropped' = dropped \cup Ids(<<Head(queue)>>)
           \/ toFw' = Append(toFw, Head(queue)) /\ dropped' = dropped
    BY <1>4 DEF Take
  <2>2. /\ Head(queue) \in Command /\ h # 0 /\ Ids(<<Head(queue)>>) = {h}
        /\ Ids(queue') = Ids(queue) \ {h}
        /\ LossyWindow!First(h, Ids(queue)) /\ h \in Ids(queue)
    BY <2>1, LossyQueueHead
  <2>3. CASE toFw' = toFw /\ dropped' = dropped \cup Ids(<<Head(queue)>>)
    <3>1. Committed' = Committed /\ dropped' = dropped \cup {h}
      BY <1>1, <2>2, <2>3 DEF Committed
    <3>2. LossyWindow!Discard
      BY <2>1, <2>2, <3>1 DEF LossyWindow!Discard
    <3> QED
      BY <3>2 DEF LossyWindow!WNext
  <2>4. CASE toFw' = Append(toFw, Head(queue)) /\ dropped' = dropped
    <3>1. Ids(toFw') = Ids(toFw) \cup {h}
      BY <1>1, <2>2, <2>4, IdsAppend
    <3>2. Committed' = Committed \cup {h}
      BY <1>1, <3>1 DEF Committed
    <3>3. LossyWindow!Commit
      BY <2>1, <2>2, <2>4, <3>2 DEF LossyWindow!Commit
    <3> QED
      BY <3>3 DEF LossyWindow!WNext
  <2> QED
    BY <2>1, <2>3, <2>4
<1> QED
  BY <1>2, <1>3, <1>4 DEF CommNext

LEMMA LossyRequest ==
  ASSUME FTypeOK, LossyOrder, NEW c \in Connections, CtlRequest(c) \/ CtlContinue(c),
         UNCHANGED <<fwVars, cpc>>
  PROVE  LossyWindow!WNext \/ UNCHANGED LossyWindow!wvars
<1>1. /\ UNCHANGED <<toFw, fpc, buffer>> /\ ServingTypeOK
      /\ queue \in Seq(Command) /\ accepted \in Nat
  BY OrderTypes, LinkTypes, RequestFacts DEF RequestEffect, line, fwVars
<1>2. Committed' = Committed
  BY <1>1 DEF Committed
<1>3. ASSUME NEW bodies \in Seq(Body), NEW by \in Nat, Add(bodies, by),
             UNCHANGED <<executed, dropped>>
      PROVE  LossyWindow!WNext \/ UNCHANGED LossyWindow!wvars
  <2>1. Ids(queue') = Ids(queue) \cup (accepted + 1 .. accepted')
        /\ accepted' = accepted + Len(bodies) /\ Len(bodies) \in Nat
    BY <1>1, <1>3, AddIds, AddFacts
  <2>2. CASE Len(bodies) = 0
    <3>1. accepted' = accepted /\ accepted + 1 .. accepted' = {}
      BY <1>1, <2>1, <2>2
    <3> QED
      BY <1>2, <1>3, <2>1, <3>1 DEF LossyWindow!wvars
  <2>3. CASE Len(bodies) # 0
    <3>1. accepted' \in Nat /\ accepted' > accepted
      BY <1>1, <2>1, <2>3
    <3> QED
      BY <1>2, <1>3, <2>1, <3>1 DEF LossyWindow!WNext, LossyWindow!Accept
  <2> QED
    BY <2>1, <2>2, <2>3
<1>4. CASE /\ queue # <<>> /\ queue' = Tail(queue)
           /\ dropped' = dropped \cup Ids(<<Head(queue)>>)
           /\ UNCHANGED <<accepted, executed>>
  <2>1. LossyWindow!Discard
    BY <1>2, <1>4, LossyQueueHead DEF LossyWindow!Discard
  <2> QED
    BY <2>1 DEF LossyWindow!WNext
<1>5. CASE UNCHANGED <<queue, history>>
  BY <1>2, <1>5 DEF history, LossyWindow!wvars
<1> QED
  BY <1>1, <1>3, <1>4, <1>5, RequestFacts DEF RequestEffect

\* A reset forgets what is under execution and some of what is under way.
LEMMA LossyReset ==
  ASSUME FTypeOK, LossyOrder, FirmwareReset
  PROVE  LossyWindow!Forget
<1>1. /\ toFw \in Seq(Command) /\ buffer \in Command /\ ~(0 \in Ids(toFw))
  BY LinkTypes DEF FTypeOK, Ids
<1>2. /\ toFw' \in Suffixes(toFw) /\ fpc' # "exec" /\ UNCHANGED <<queue, accepted, executed>>
      /\ dropped' = dropped \cup (Ids(toFw) \ Ids(toFw'))
                    \cup (IF fpc = "exec" THEN Ids(<<buffer>>) ELSE {})
  BY DEF FirmwareReset, statics
<1>3. Ids(toFw') \subseteq Ids(toFw)
  BY <1>1, <1>2, BehindSuffix, BehindIds
<1>4. Committed' = Ids(toFw')
  BY <1>2 DEF Committed
<1>5. fpc = "exec" => Ids(<<buffer>>) \cap Ids(toFw) = {}
  <2> SUFFICES ASSUME fpc = "exec", NEW n \in Ids(toFw) PROVE ~(n \in Ids(<<buffer>>))
    OBVIOUS
  <2>1. n # 0 /\ \E j \in 1..Len(toFw) : n = toFw[j].id
    BY DEF Ids
  <2>2. PICK j \in 1..Len(toFw) : n = toFw[j].id
    BY <2>1
  <2>3. Before(buffer.id, n) /\ n \in Nat /\ buffer.id \in Nat
    BY <2>2, OrderTypes DEF LossyOrder
  <2> QED
    BY <1>1, <2>1, <2>3, IdsOfOne DEF Before
<1>6. Committed' \subseteq Committed /\ dropped' = dropped \cup (Committed \ Committed')
  BY <1>2, <1>3, <1>4, <1>5 DEF Committed
<1> QED
  BY <1>2, <1>6 DEF LossyWindow!Forget

LEMMA LossyNext ==
  ASSUME FTypeOK, LossyOrder, [FNext]_fvars
  PROVE  [LossyWindow!WNext]_(LossyWindow!wvars)
<1>1. CASE UNCHANGED fvars
  BY <1>1 DEF fvars, vars, line, statics, history, fwVars, LossyWindow!wvars, Committed
<1>2. CASE Next
  <2>1. CASE DrainMidLine
    BY <2>1 DEF DrainMidLine, statics, history, LossyWindow!wvars, Committed
  <2> QED
    BY <1>2, <2>1, LossyFirmware, LossyCommunicator, LossyRequest
       DEF Next, FirmwareStep, CommunicatorStep, Request, RequestStep
<1>3. CASE FirmwareReset
  BY <1>3, LossyReset DEF LossyWindow!WNext
<1>4. CASE ServerRestart
  <2>1. /\ queue' = <<>> /\ dropped' = dropped \cup Ids(queue)
        /\ UNCHANGED <<toFw, accepted, executed, fpc, buffer>>
    BY <1>4 DEF ServerRestart, fwVars
  <2>2. Ids(queue') = {} /\ Committed' = Committed
    BY <2>1 DEF Ids, Committed
  <2> QED
    BY <2>1, <2>2 DEF LossyWindow!WNext, LossyWindow!Forget
<1>5. CASE WriteFails
  <2>1. /\ queue # <<>> /\ queue' = Tail(queue) /\ dropped' = dropped \cup Ids(<<Head(queue)>>)
        /\ UNCHANGED <<toFw, accepted, executed, fpc, buffer>>
    BY <1>5 DEF WriteFails, line, fwVars
  <2>2. Committed' = Committed
    BY <2>1 DEF Committed
  <2>3. LossyWindow!Discard
    BY <2>1, <2>2, LossyQueueHead DEF LossyWindow!Discard
  <2> QED
    BY <2>3 DEF LossyWindow!WNext
<1> QED
  BY <1>1, <1>2, <1>3, <1>4, <1>5 DEF FNext

LEMMA LossyInit == FInit => LossyWindow!WInit
<1> SUFFICES ASSUME FInit PROVE LossyWindow!WInit
  OBVIOUS
<1>1. /\ accepted = 0 /\ queue = <<>> /\ toFw = <<>> /\ executed = {} /\ dropped = {}
      /\ fpc = "hsGets"
  BY DEF FInit, Init, SharedInit, FwInit
<1>2. Ids(<<>>) = {}
  BY DEF Ids
<1> QED
  BY <1>1, <1>2 DEF LossyWindow!WInit, Committed

\* Whichever end is restarted, however often, and whichever writes fail: each
\* command is still executed at most once and in the order of acceptance, and
\* every one that never will be is accounted for.
THEOREM ImplementsLossyWindow == FSpec => RefinesLossyWindow
  BY LossyInit, LossyNext, OrderInvariant, PTL DEF FSpec, RefinesLossyWindow, LossyWindow!WSpec

-----------------------------------------------------------------------------
(* Handshake, debts and answers, as long as the firmware is not reset      *)

\* Everything about a sequence the steps below ask for.
LEMMA LineTypes ==
  ASSUME FTypeOK
  PROVE  /\ TypeOK /\ ServingTypeOK
         /\ toFw \in Seq(Command) /\ toHost \in Seq(PosLine) /\ queue \in Seq(Command)
         /\ Len(toFw) \in Nat /\ Len(toHost) \in Nat /\ Len(queue) \in Nat
         /\ toFw = <<>> <=> Len(toFw) = 0
         /\ toHost = <<>> <=> Len(toHost) = 0
         /\ toFw # <<>> => Head(toFw) = toFw[1]
         /\ cpc \in {"handShake", "drain", "check", "release", "take", "wait", "dead"}
         /\ fpc \in {"hsGets", "hsPuts", "gets", "exec", "puts"}
         /\ restarts \in Nat /\ resets \in Nat /\ failures \in Nat
<1>1. /\ TypeOK /\ ServingTypeOK
      /\ toFw \in Seq(Command) /\ toHost \in Seq(PosLine) /\ queue \in Seq(Command)
      /\ cpc \in {"handShake", "drain", "check", "release", "take", "wait", "dead"}
      /\ fpc \in {"hsGets", "hsPuts", "gets", "exec", "puts"}
      /\ restarts \in Nat /\ resets \in Nat /\ failures \in Nat
  BY LinkTypes DEF FTypeOK
<1> QED
  BY <1>1, SeqView

\* The firmware sends a position line, which finds room or not.
LEMMA AheadSends ==
  ASSUME FTypeOK, FTypeOK', DebtInv, resets = 0, fpc \in {"hsPuts", "puts"}, Send(Report(pos)),
         fpc' = IF fpc = "hsPuts" THEN "hsGets" ELSE "gets",
         UNCHANGED <<cpc, toFw, resets, restarts, vain>>
  PROVE  DebtInv'
<1>1. /\ toHost \in Seq(PosLine) /\ Len(toHost) \in Nat /\ Len(toFw) \in Nat /\ restarts \in Nat
      /\ Len(toHost') \in Nat
      /\ toHost' = <<>> <=> Len(toHost') = 0
      /\ toHost = <<>> <=> Len(toHost) = 0
  BY LineTypes, SeqView DEF FTypeOK, TypeOK, SharedTypeOK
<1>2. Report(pos) \in PosLine /\ ContainsHash(Report(pos))
  BY LineTypes, PositionData, LineData, PartTypes
<1>3. \/ /\ Len(toHost') = Len(toHost) + 1
         /\ \A j \in 1..Len(toHost) : toHost'[j] = toHost[j]
         /\ toHost'[Len(toHost) + 1] = Report(pos)
      \/ toHost' = toHost /\ Len(toHost) >= 2
  <2>1. CASE Len(toHost) < HostBuf
    BY <1>1, <1>2, <2>1, AppendView DEF Send
  <2>2. CASE ~(Len(toHost) < HostBuf)
    BY <1>1, <2>2, HostBufAssumption DEF Send
  <2> QED
    BY <2>1, <2>2
<1>4. InHandShake' <=> InHandShake
  BY DEF InHandShake
<1>5. SwallowInv'
  BY <1>4 DEF DebtInv, SwallowInv
<1>6. Due' = Due - 1 /\ Due \in Int
  <2> DEFINE hs == IF InHandShake /\ toFw # <<>> THEN 1 ELSE 0
  <2>1. Due = Len(toFw) + 1 - hs /\ hs \in Int
    BY DEF Due
  <2>2. Due' = Len(toFw) + 0 - hs
    <3>1. ~(fpc' \in {"hsPuts", "exec", "puts"})
      OBVIOUS
    <3> QED
      BY <1>4, <3>1 DEF Due
  <2> HIDE DEF hs
  <2> QED
    BY <1>1, <2>1, <2>2
<1>7. DueInv'
  <2>1. CASE Serving
    BY <1>1, <1>3, <1>6, <2>1 DEF DebtInv, DueInv, AheadLimit, Serving
  <2>2. CASE cpc = "drain"
    BY <1>1, <1>6, <2>2 DEF DebtInv, DueInv, AheadLimit, Serving
  <2>3. CASE cpc = "handShake"
    BY <1>1, <1>4, <1>6, <2>3 DEF DebtInv, DueInv, AheadLimit, Serving
  <2> QED
    BY <2>1, <2>2, <2>3 DEF Serving
<1>8. AnswerInv'
  <2>2. \A j \in 1..Len(toHost') : ~ContainsHash(toHost'[j]) => j = 1
    <3>1. \A j \in 1..Len(toHost) : ~ContainsHash(toHost[j]) => j = 1
      BY DEF DebtInv, AnswerInv
    <3> QED
      BY <1>1, <1>2, <1>3, <3>1
  <2>3. ASSUME cpc = "wait", toFw = <<>>
        PROVE  \E j \in 1..Len(toHost') : ContainsHash(toHost'[j])
    <3>1. CASE toHost' = toHost /\ Len(toHost) >= 2
      BY <1>1, <2>2, <3>1
    <3>2. CASE Len(toHost') = Len(toHost) + 1 /\ toHost'[Len(toHost) + 1] = Report(pos)
      BY <1>1, <1>2, <3>2
    <3> QED
      BY <1>3, <3>1, <3>2
  <2>4. cpc = "wait" /\ ~vain /\ toFw # <<>> => toFw[Len(toFw)].id # 0
    BY DEF DebtInv, AnswerInv
  <2> QED
    BY <2>2, <2>3, <2>4 DEF AnswerInv
<1> QED
  BY <1>5, <1>7, <1>8 DEF DebtInv

\* The firmware reads the first line of several or one.
LEMMA AheadReads ==
  ASSUME FTypeOK, FTypeOK', DebtInv, resets = 0, toFw # <<>>, toFw' = Tail(toFw),
         \/ fpc = "hsGets" /\ fpc' = "gets"
         \/ fpc = "gets" /\ fpc' = "exec",
         UNCHANGED <<cpc, toHost, resets, restarts, vain>>
  PROVE  DebtInv'
<1>1. /\ toFw \in Seq(Command) /\ Len(toHost) \in Nat /\ Len(toFw) \in Nat
      /\ Len(toFw) >= 1 /\ Len(toFw') = Len(toFw) - 1
      /\ \A j \in 1..Len(toFw') : toFw'[j] = toFw[j + 1]
      /\ toFw' = <<>> <=> Len(toFw') = 0
      /\ Head(toFw) = toFw[1]
  BY LineTypes, HeadTail, SeqView DEF FTypeOK, TypeOK, SharedTypeOK
<1>2. SwallowInv'
  BY DEF SwallowInv, InHandShake
<1>3. Due' = Due
  <2>1. CASE fpc = "hsGets" /\ fpc' = "gets"
    <3>1. Due = Len(toFw) + 0 - 1 /\ Due' = Len(toFw') + 0 - 0
      BY <2>1 DEF Due, InHandShake
    <3> QED
      BY <1>1, <3>1
  <2>2. CASE fpc = "gets" /\ fpc' = "exec"
    <3>1. Due = Len(toFw) + 0 - 0 /\ Due' = Len(toFw') + 1 - 0
      BY <2>2 DEF Due, InHandShake
    <3> QED
      BY <1>1, <3>1
  <2> QED
    BY <2>1, <2>2
<1>4. DueInv'
  BY <1>3 DEF DebtInv, DueInv, AheadLimit, Serving
<1>5. AnswerInv'
  <2>1. cpc = "wait" /\ ~vain => toFw[Len(toFw)].id # 0
    BY DEF DebtInv, AnswerInv
  <2>2. toFw' # <<>> => toFw'[Len(toFw')] = toFw[Len(toFw)]
    BY <1>1
  <2>3. cpc = "wait" /\ ~vain /\ fpc = "hsGets" => toFw' # <<>>
    <3> SUFFICES ASSUME cpc = "wait", ~vain, fpc = "hsGets" PROVE Len(toFw') # 0
      BY <1>1
    <3>1. toFw[1].id = 0
      BY <1>1, LineData DEF DebtInv, SwallowInv, InHandShake
    <3> QED
      BY <1>1, <2>1, <3>1
  <2> QED
    BY <2>1, <2>2, <2>3 DEF DebtInv, AnswerInv
<1> QED
  BY <1>2, <1>4, <1>5 DEF DebtInv

LEMMA AheadFirmware ==
  ASSUME FTypeOK, FTypeOK', DebtInv, resets = 0, FwNext,
         UNCHANGED <<cpc, resets, restarts, vain>>
  PROVE  DebtInv'
<1>1. CASE HandShakeGetsNothing
  <2>1. /\ fpc = "hsGets" /\ fpc' = "hsPuts" /\ toFw = <<>> /\ UNCHANGED <<toFw, toHost>>
    BY <1>1 DEF HandShakeGetsNothing, line, statics
  <2>2. cpc = "handShake"
    BY <2>1 DEF DebtInv, SwallowInv, InHandShake
  <2> QED
    BY <2>1, <2>2 DEF DebtInv, SwallowInv, DueInv, AnswerInv, InHandShake, Serving
<1>2. CASE HandShakePuts \/ Puts
  BY <1>2, AheadSends DEF HandShakePuts, Puts, statics
<1>3. CASE HandShakeAccept \/ Gets
  BY <1>3, AheadReads DEF HandShakeAccept, Gets, statics
<1>4. ASSUME HandShakeSwallow PROVE FALSE
  BY <1>4, LineData DEF HandShakeSwallow, DebtInv, SwallowInv, InHandShake
<1>5. CASE Exec
  <2>1. fpc = "exec" /\ fpc' = "puts" /\ UNCHANGED <<toFw, toHost>>
    BY <1>5 DEF Exec, line, statics
  <2> QED
    BY <2>1 DEF DebtInv, SwallowInv, DueInv, Due, AheadLimit, AnswerInv, InHandShake, Serving
<1> QED
  BY <1>1, <1>2, <1>3, <1>4, <1>5 DEF FwNext

\* Steps of the serial thread that leave line and queue alone.
LEMMA AheadIdles ==
  ASSUME FTypeOK, FTypeOK', DebtInv, resets = 0, Serving, Serving', cpc # "wait", cpc' # "wait",
         UNCHANGED <<fpc, toFw, toHost, resets, restarts>>
  PROVE  DebtInv'
  BY DEF DebtInv, SwallowInv, DueInv, Due, AheadLimit, AnswerInv, InHandShake, Serving

\* The thread writes its HandShake line for a position line that it takes.
LEMMA AheadMatches ==
  ASSUME FTypeOK, FTypeOK', DebtInv, resets = 0, HandShakeMatch,
         UNCHANGED <<fwVars, resets, restarts, vain>>
  PROVE  DebtInv'
<1>1. /\ toHost # <<>> /\ toHost' = Tail(toHost) /\ toFw' = Append(toFw, ServerHandShake)
      /\ cpc = "handShake" /\ cpc' = "drain" /\ UNCHANGED <<fpc, restarts, resets>>
  BY DEF HandShakeMatch, fwVars, history
<1>2. /\ toFw \in Seq(Command) /\ Len(toFw) \in Nat /\ restarts \in Nat
      /\ Len(toFw') = Len(toFw) + 1 /\ toFw'[Len(toFw) + 1] = ServerHandShake
      /\ \A j \in 1..Len(toFw) : toFw'[j] = toFw[j]
      /\ toFw' \in Seq(Command)
      /\ toFw # <<>> => Head(toFw) = toFw[1]
      /\ toFw = <<>> <=> Len(toFw) = 0
  BY <1>1, LineTypes, CommandData, AppendView
<1>3. toFw' # <<>> /\ Head(toFw') = toFw'[1]
  BY <1>2, SeqView
<1>4. /\ Len(toHost) \in Nat /\ Len(toHost') = Len(toHost) - 1 /\ Len(toHost) >= 1
      /\ \A j \in 1..Len(toHost') : toHost'[j] = toHost[j + 1]
  BY <1>1, LineTypes, HeadTail
<1>5. SwallowInv'
  <2>1. InHandShake => toFw'[1] = ServerHandShake
    <3>1. CASE toFw = <<>>
      BY <1>2, <3>1
    <3>2. CASE toFw # <<>>
      <4>1. InHandShake => toFw[1] = ServerHandShake
        BY <1>2, <3>2 DEF DebtInv, SwallowInv
      <4> QED
        BY <1>2, <3>2, <4>1
    <3> QED
      BY <3>1, <3>2
  <2> QED
    BY <1>1, <1>3, <2>1 DEF SwallowInv, InHandShake
<1>6. DueInv'
  <2> DEFINE busy == IF fpc \in {"hsPuts", "exec", "puts"} THEN 1 ELSE 0
  <2>1. busy \in 0..1 /\ (fpc \in {"hsPuts", "exec", "puts"})' = (fpc \in {"hsPuts", "exec", "puts"})
    BY <1>1
  <2>2. InHandShake' = InHandShake
    BY <1>1 DEF InHandShake
  <2>3. Due = Len(toFw) + busy - (IF InHandShake /\ toFw # <<>> THEN 1 ELSE 0)
    BY DEF Due
  <2>4. Due' = Len(toFw') + busy - (IF InHandShake THEN 1 ELSE 0)
    BY <1>1, <1>3, <2>2 DEF Due
  <2> HIDE DEF busy
  <2>5. CASE InHandShake /\ toFw = <<>>
    BY <1>1, <1>2, <2>1, <2>4, <2>5 DEF DueInv, Serving
  <2>6. CASE ~(InHandShake /\ toFw = <<>>)
    <3>1. Due <= restarts
      BY <1>1, <2>6 DEF DebtInv, DueInv
    <3>2. Due' = Due + 1 /\ Due \in Int
      BY <1>2, <2>1, <2>3, <2>4, <2>6
    <3> QED
      BY <1>1, <1>2, <3>1, <3>2 DEF DueInv, Serving
  <2> QED
    BY <2>5, <2>6
<1>7. AnswerInv'
  BY <1>1, <1>4 DEF DebtInv, AnswerInv
<1> QED
  BY <1>5, <1>6, <1>7 DEF DebtInv

\* The thread reads a line of its handshake that it does not use.
LEMMA AheadSkips ==
  ASSUME FTypeOK, FTypeOK', DebtInv, resets = 0, ~Serving, toHost # <<>>, toHost' = Tail(toHost),
         UNCHANGED <<cpc, fpc, toFw, resets, restarts>>
  PROVE  DebtInv'
<1>1. /\ Len(toHost) \in Nat /\ Len(toHost') = Len(toHost) - 1
      /\ \A j \in 1..Len(toHost') : toHost'[j] = toHost[j + 1]
  BY LineTypes, HeadTail
<1>2. SwallowInv' /\ DueInv'
  BY DEF DebtInv, SwallowInv, DueInv, Due, AheadLimit, InHandShake, Serving
<1>3. AnswerInv'
  BY <1>1 DEF DebtInv, AnswerInv, Serving
<1> QED
  BY <1>2, <1>3 DEF DebtInv

\* The drain is over: nothing was ready, or a line in the middle of being sent.
LEMMA AheadDrained ==
  ASSUME FTypeOK, FTypeOK', DebtInv, resets = 0,
         \/ DrainDone /\ UNCHANGED fwVars
         \/ DrainMidLine,
         UNCHANGED <<resets, restarts>>
  PROVE  DebtInv'
<1>1. Len(toFw) \in Nat /\ restarts \in Nat
  BY LineTypes
<1>2. CASE DrainDone /\ UNCHANGED fwVars
  <2>1. /\ cpc = "drain" /\ cpc' = "check" /\ toHost = <<>> /\ UNCHANGED <<fpc, toFw, toHost>>
    BY <1>2 DEF DrainDone, line, statics, fwVars
  <2>2. SwallowInv' /\ AnswerInv'
    BY <2>1 DEF DebtInv, SwallowInv, AnswerInv, InHandShake
  <2>3. Due' = Due /\ Len(toHost') = 0 /\ Due \in Int
    BY <1>1, <2>1 DEF Due, InHandShake
  <2>4. DueInv'
    BY <1>1, <2>1, <2>3 DEF DebtInv, DueInv, AheadLimit, Serving
  <2> QED
    BY <2>2, <2>4 DEF DebtInv
<1>3. CASE DrainMidLine
  <2>1. /\ cpc = "drain" /\ cpc' = "check" /\ toFw' = toFw /\ Len(toHost') = 1
        /\ \/ fpc = "hsPuts" /\ fpc' = "hsGets"
           \/ fpc = "puts" /\ fpc' = "gets"
    BY <1>3 DEF DrainMidLine
  <2>2. SwallowInv'
    BY <2>1 DEF DebtInv, SwallowInv, InHandShake
  <2>3. AnswerInv'
    BY <2>1 DEF DebtInv, AnswerInv
  <2>4. Due' = Due - 1 /\ Due \in Int
    <3> DEFINE first == IF InHandShake /\ toFw # <<>> THEN 1 ELSE 0
    <3>1. InHandShake' = InHandShake /\ first \in 0..1
      BY <2>1 DEF InHandShake
    <3>2. Due = Len(toFw) + 1 - first /\ Due' = Len(toFw) + 0 - first
      BY <2>1, <3>1 DEF Due
    <3> HIDE DEF first
    <3> QED
      BY <1>1, <3>1, <3>2
  <2>5. DueInv'
    BY <1>1, <2>1, <2>4 DEF DebtInv, DueInv, AheadLimit, Serving
  <2> QED
    BY <2>2, <2>3, <2>5 DEF DebtInv
<1> QED
  BY <1>2, <1>3

\* The thread takes a command and writes it, or loses it.
LEMMA AheadTakes ==
  ASSUME FTypeOK, FTypeOK', DebtInv, LossyOrder, resets = 0, restarts' = restarts, resets' = resets,
         Take \/ WriteFails, vain' = (toFw' = toFw), UNCHANGED fwVars
  PROVE  DebtInv'
<1>1. /\ queue # <<>> /\ queue' = Tail(queue) /\ cpc = "take" /\ cpc' = "wait"
      /\ UNCHANGED <<toHost, fpc>>
      /\ \/ toFw' = toFw
         \/ toFw' = Append(toFw, Head(queue))
  BY DEF Take, WriteFails, line, fwVars
<1>2. /\ Len(queue) \in Nat /\ Len(queue') = Len(queue) - 1 /\ Head(queue) = queue[1]
      /\ Head(queue) \in Command /\ Len(queue) >= 1
      /\ \A j \in 1..Len(queue') : queue'[j] = queue[j + 1]
  BY <1>1, LineTypes, HeadTail
<1>3. /\ Len(toFw) \in Nat /\ Len(toFw') \in Nat /\ Len(toHost) \in Nat /\ restarts \in Nat
      /\ Len(toFw) <= Len(toFw') /\ Len(toFw') <= Len(toFw) + 1
      /\ \A j \in 1..Len(toFw) : toFw'[j] = toFw[j]
      /\ toFw' # toFw => toFw'[Len(toFw')] = queue[1]
      /\ toFw = <<>> <=> Len(toFw) = 0
      /\ toFw' = <<>> <=> Len(toFw') = 0
      /\ Len(toFw) >= 1 => Head(toFw) = toFw[1]
      /\ Len(toFw') >= 1 => Head(toFw') = toFw'[1]
  <2>1. toFw \in Seq(Command) /\ toFw' \in Seq(Command) /\ Len(toHost) \in Nat /\ restarts \in Nat
    BY LineTypes DEF FTypeOK, TypeOK, SharedTypeOK
  <2>2. CASE toFw' = toFw
    BY <2>1, <2>2, SeqView
  <2>3. CASE toFw' = Append(toFw, Head(queue))
    <3>1. /\ Len(toFw') = Len(toFw) + 1 /\ toFw'[Len(toFw) + 1] = queue[1]
          /\ \A j \in 1..Len(toFw) : toFw'[j] = toFw[j]
      BY <1>2, <2>1, <2>3, AppendView
    <3> QED
      BY <2>1, <3>1, SeqView
  <2> QED
    BY <1>1, <2>2, <2>3
<1>4. InHandShake => toFw # <<>> /\ toFw' # <<>>
  BY <1>1, <1>3 DEF DebtInv, SwallowInv
<1>5. SwallowInv'
  BY <1>1, <1>3, <1>4 DEF DebtInv, SwallowInv, InHandShake
<1>6. DueInv'
  <2>1. Len(toHost) + Due <= 1 + restarts
    BY <1>1 DEF DebtInv, DueInv, AheadLimit, Serving
  <2>2. Due' <= Due + 1 /\ Due \in Int /\ Due' \in Int
    <3> DEFINE busy == IF fpc \in {"hsPuts", "exec", "puts"} THEN 1 ELSE 0
               first == IF InHandShake THEN 1 ELSE 0
    <3>1. busy \in 0..1 /\ first \in 0..1 /\ InHandShake' = InHandShake
      BY <1>1 DEF InHandShake
    <3>2. Due = Len(toFw) + busy - first
      BY <1>4 DEF Due
    <3>3. Due' = Len(toFw') + busy - first
      BY <1>1, <1>4, <3>1 DEF Due
    <3> HIDE DEF busy, first
    <3> QED
      BY <1>3, <3>1, <3>2, <3>3
  <2>3. Len(toHost) + Due' <= 2 + restarts
    BY <1>3, <2>1, <2>2
  <2> QED
    BY <1>1, <2>3 DEF DueInv, AheadLimit, Serving
<1>7. AnswerInv'
  <2> SUFFICES ASSUME ~vain'
               PROVE  toFw' # <<>> /\ toFw'[Len(toFw')].id # 0
    BY <1>1 DEF DebtInv, AnswerInv
  <2>1. toFw' = Append(toFw, Head(queue)) /\ toFw' # toFw
    BY <1>1
  <2>2. Len(toFw') = Len(toFw) + 1
    BY <1>2, <2>1, LineTypes, AppendView
  <2>3. queue[1].id # 0
    BY <1>2 DEF LossyOrder
  <2> QED
    BY <1>3, <2>1, <2>2, <2>3
<1> QED
  BY <1>5, <1>6, <1>7 DEF DebtInv

\* The thread that waits reads a line.
LEMMA AheadReceives ==
  ASSUME FTypeOK, FTypeOK', DebtInv, resets = 0, Receive,
         UNCHANGED <<fwVars, resets, restarts, vain>>
  PROVE  DebtInv'
<1>1. /\ toHost # <<>> /\ toHost' = Tail(toHost) /\ cpc = "wait"
      /\ IF ContainsHash(Head(toHost)) THEN cpc' = "check" ELSE cpc' = "wait"
      /\ UNCHANGED <<fpc, toFw>>
  BY DEF Receive, fwVars
<1>2. /\ Len(toHost) \in Nat /\ Len(toHost') = Len(toHost) - 1 /\ Head(toHost) = toHost[1]
      /\ \A j \in 1..Len(toHost') : toHost'[j] = toHost[j + 1]
      /\ Len(toFw) \in Nat /\ restarts \in Nat
  BY <1>1, LineTypes, HeadTail
<1>3. SwallowInv'
  BY <1>1 DEF DebtInv, SwallowInv, InHandShake
<1>4. Due' = Due /\ Due \in Int
  BY <1>1, <1>2 DEF Due, InHandShake
<1>5. DueInv'
  BY <1>1, <1>2, <1>4 DEF DebtInv, DueInv, AheadLimit, Serving
<1>6. AnswerInv'
  <2>1. /\ \A j \in 1..Len(toHost) : ~ContainsHash(toHost[j]) => j = 1
        /\ ~vain => IF toFw # <<>> THEN toFw[Len(toFw)].id # 0
           ELSE \/ fpc \in {"exec", "puts"}
                \/ \E j \in 1..Len(toHost) : ContainsHash(toHost[j])
    BY <1>1 DEF DebtInv, AnswerInv
  <2>2. \A j \in 1..Len(toHost') : ContainsHash(toHost'[j])
    <3> SUFFICES ASSUME NEW j \in 1..Len(toHost') PROVE ContainsHash(toHost'[j])
      OBVIOUS
    <3>1. j + 1 \in 1..Len(toHost) /\ j + 1 # 1 /\ toHost'[j] = toHost[j + 1]
      BY <1>2
    <3> QED
      BY <2>1, <3>1
  <2>3. ASSUME cpc' = "wait", \E j \in 1..Len(toHost) : ContainsHash(toHost[j])
        PROVE  \E j \in 1..Len(toHost') : ContainsHash(toHost'[j])
    <3>1. PICK j \in 1..Len(toHost) : ContainsHash(toHost[j])
      BY <2>3
    <3>2. j # 1
      BY <1>1, <1>2, <2>3, <3>1
    <3>3. j - 1 \in 1..Len(toHost')
      BY <1>2, <3>2
    <3> QED
      BY <2>2, <3>3
  <2> QED
    BY <1>1, <2>1, <2>2, <2>3 DEF AnswerInv
<1> QED
  BY <1>3, <1>5, <1>6 DEF DebtInv

\* A request changes nothing but the queue.
LEMMA AheadRequest ==
  ASSUME FTypeOK, FTypeOK', DebtInv, resets = 0, NEW c \in Connections,
         CtlRequest(c) \/ CtlContinue(c), UNCHANGED <<fwVars, cpc, resets, restarts, vain>>
  PROVE  DebtInv'
<1>1. UNCHANGED <<fpc, cpc, toFw, toHost>>
  BY LineTypes, RequestFacts DEF RequestEffect, line, fwVars
<1> QED
  BY <1>1 DEF DebtInv, SwallowInv, DueInv, Due, AheadLimit, AnswerInv, InHandShake, Serving

\* A restart: what was under way stays so, and the new thread waits for a line
\* to start from.
LEMMA AheadRestart ==
  ASSUME FTypeOK, FTypeOK', DebtInv, resets = 0, ServerRestart
  PROVE  DebtInv'
<1>1. /\ cpc' = "handShake" /\ queue' = <<>> /\ restarts' = restarts + 1
      /\ toHost' \in Received(toHost)
      /\ UNCHANGED <<toFw, fpc, resets>>
  BY DEF ServerRestart, fwVars
<1>2. /\ toHost \in Seq(PosLine) /\ Len(toHost) \in Nat /\ Len(toFw) \in Nat /\ restarts \in Nat
      /\ toHost = <<>> <=> Len(toHost) = 0
      /\ toFw = <<>> <=> Len(toFw) = 0
      /\ cpc \in {"handShake", "drain"} \/ Serving
  BY LineTypes DEF Serving
<1>3. /\ Len(toHost') \in Nat /\ Len(toHost') <= Len(toHost)
      /\ toHost' = <<>> <=> Len(toHost') = 0
      /\ \A j \in 1..Len(toHost') : j # 1 => ContainsHash(toHost'[j])
  <2>1. PICK d \in Nat : /\ Len(toHost) = Len(toHost') + d
                         /\ \A j \in 1..Len(toHost') : j # 1 => toHost'[j] = toHost[j + d]
    BY <1>1, <1>2, ReceivedData
  <2>2. Len(toHost') \in Nat /\ (toHost' = <<>> <=> Len(toHost') = 0)
    BY <1>1, <1>2, ReceivedData
  <2>3. ASSUME NEW j \in 1..Len(toHost'), j # 1 PROVE ContainsHash(toHost'[j])
    <3>1. j + d \in 1..Len(toHost) /\ j + d # 1 /\ toHost'[j] = toHost[j + d]
      BY <1>2, <2>1, <2>2, <2>3
    <3> QED
      BY <3>1 DEF DebtInv, AnswerInv
  <2> QED
    BY <1>2, <2>1, <2>2, <2>3
<1>4. SwallowInv'
  BY <1>1 DEF DebtInv, SwallowInv, InHandShake
<1>5. Due' = Due /\ Due \in Int
  BY <1>1, <1>2 DEF Due, InHandShake
<1>6. DueInv'
  <2>1. CASE Serving
    <3>1. Len(toHost) + Due <= 2 + restarts
      BY <1>2, <1>5, <2>1 DEF DebtInv, DueInv, AheadLimit
    <3> QED
      BY <1>1, <1>2, <1>3, <1>5, <3>1 DEF DueInv, Serving
  <2>2. CASE cpc = "drain"
    BY <1>1, <1>2, <1>5, <2>2 DEF DebtInv, DueInv, Serving
  <2>3. CASE cpc = "handShake"
    BY <1>1, <1>2, <1>5, <2>3 DEF DebtInv, DueInv, Serving, InHandShake
  <2> QED
    BY <1>2, <2>1, <2>2, <2>3
<1>7. AnswerInv'
  BY <1>1, <1>3 DEF AnswerInv
<1> QED
  BY <1>4, <1>6, <1>7 DEF DebtInv

LEMMA AheadNext ==
  ASSUME FTypeOK, FTypeOK', LossyOrder, DebtInv, [FNext]_fvars
  PROVE  DebtInv'
<1>1. CASE resets # 0
  <2>1. resets' # 0
    BY <1>1, LineTypes DEF FNext, fvars, FirmwareReset, ServerRestart, WriteFails
  <2> QED
    BY <2>1 DEF DebtInv, SwallowInv, DueInv, AnswerInv
<1>2. CASE FirmwareReset
  <2>1. resets' # 0
    BY <1>2, LineTypes DEF FirmwareReset
  <2> QED
    BY <2>1 DEF DebtInv, SwallowInv, DueInv, AnswerInv
<1>3. CASE UNCHANGED fvars
  BY <1>3 DEF fvars, vars, line, statics, fwVars, DebtInv, SwallowInv, DueInv, Due, AheadLimit,
     AnswerInv, InHandShake, Serving
<1>4. CASE resets = 0 /\ CommNext /\ UNCHANGED <<fwVars, req, resets, restarts>>
            /\ vain' = (IF cpc = "take" /\ cpc' = "wait" THEN toFw' = toFw ELSE vain)
  <2>1. CASE HandShakeMatch \/ Receive
    <3>1. vain' = vain
      BY <1>4, <2>1 DEF HandShakeMatch, Receive
    <3> QED
      BY <1>4, <2>1, <3>1, AheadMatches, AheadReceives
  <2>2. CASE HandShakeSkip \/ DrainRead
    <3>1. /\ ~Serving /\ toHost # <<>> /\ toHost' = Tail(toHost)
          /\ UNCHANGED <<cpc, fpc, toFw, resets, restarts>>
      BY <1>4, <2>2 DEF HandShakeSkip, DrainRead, Serving, statics, fwVars
    <3> QED
      BY <1>4, <3>1, AheadSkips
  <2>3. CASE DrainDone
    BY <1>4, <2>3, AheadDrained
  <2>4. CASE Take
    BY <1>4, <2>4, AheadTakes DEF Take
  <2>5. CASE CheckQueue \/ Release \/ TakeNothing
    <3>1. /\ Serving /\ Serving' /\ cpc # "wait" /\ cpc' # "wait"
          /\ UNCHANGED <<fpc, toFw, toHost, resets, restarts>>
      BY <1>4, <2>5 DEF CheckQueue, Release, TakeNothing, Serving, line, statics, fwVars
    <3> QED
      BY <1>4, <3>1, AheadIdles
  <2> QED
    BY <1>4, <2>1, <2>2, <2>3, <2>4, <2>5 DEF CommNext
<1>5. CASE /\ resets = 0 /\ Next /\ UNCHANGED <<resets, restarts>>
           /\ vain' = (IF cpc = "take" /\ cpc' = "wait" THEN toFw' = toFw ELSE vain)
  <2>5. UNCHANGED cpc => vain' = vain
    BY <1>5
  <2>1. CASE FirmwareStep
    BY <1>5, <2>1, <2>5, AheadFirmware DEF FirmwareStep
  <2>2. CASE CommunicatorStep
    BY <1>4, <1>5, <2>2 DEF CommunicatorStep
  <2>3. CASE DrainMidLine
    BY <1>5, <2>3, AheadDrained
  <2>4. CASE Request \/ \E c \in Connections : RequestStep(c)
    BY <1>5, <2>4, <2>5, AheadRequest DEF Request, RequestStep
  <2> QED
    BY <1>5, <2>1, <2>2, <2>3, <2>4 DEF Next
<1>6. CASE resets = 0 /\ ServerRestart
  BY <1>6, AheadRestart
<1>7. CASE resets = 0 /\ WriteFails
  <2>1. vain' = (toFw' = toFw)
    BY <1>7 DEF WriteFails, line
  <2> QED
    BY <1>7, <2>1, AheadTakes DEF WriteFails
<1> QED
  BY <1>1, <1>2, <1>3, <1>5, <1>6, <1>7 DEF FNext

LEMMA AheadInit == FInit => DebtInv
<1> SUFFICES ASSUME FInit PROVE DebtInv
  OBVIOUS
<1>1. /\ toFw = <<>> /\ toHost = <<>> /\ fpc = "hsGets" /\ cpc = "handShake" /\ restarts = 0
  BY DEF FInit, Init, SharedInit, FwInit, CommInit
<1>2. Len(toHost) = 0
  BY <1>1
<1>3. SwallowInv /\ AnswerInv
  BY <1>1, <1>2 DEF SwallowInv, AnswerInv, InHandShake
<1>4. DueInv
  BY <1>1 DEF DueInv, Serving, InHandShake
<1> QED
  BY <1>3, <1>4 DEF DebtInv

\* What the three theorems below rest on is inductive.
THEOREM DebtInvariant == FSpec => [](FTypeOK /\ LossyOrder /\ DebtInv)
<1>1. FTypeOK /\ LossyOrder /\ FTypeOK' /\ DebtInv /\ [FNext]_fvars => DebtInv'
  BY AheadNext
<1> QED
  BY <1>1, AheadInit, OrderInvariant, PTL DEF FSpec

\* Without a reset of the firmware, what it reads first in its handshake is a
\* HandShake line, however often the server restarts: nothing is swallowed.
THEOREM NothingSwallowedByRestarts == FSpec => []SwallowedOnlyAfterReset
<1>1. FTypeOK /\ LossyOrder /\ DebtInv => SwallowedOnlyAfterReset
  BY LineData DEF DebtInv, SwallowInv, SwallowedOnlyAfterReset
<1> QED
  BY <1>1, DebtInvariant, PTL

\* Without a reset of the firmware, each restart of the server puts it one
\* answer ahead, and nothing else does.
THEOREM OneAnswerPerRestart == FSpec => []AheadPerRestart
<1>1. FTypeOK /\ LossyOrder /\ DebtInv => AheadPerRestart
  <2> SUFFICES ASSUME FTypeOK, DebtInv, resets = 0, Serving PROVE Unanswered <= AheadLimit
    BY DEF AheadPerRestart, AheadLimit
  <2> DEFINE busy == IF fpc \in {"hsPuts", "exec", "puts"} THEN 1 ELSE 0
             hs   == IF InHandShake /\ toFw # <<>> THEN 1 ELSE 0
             first == IF toFw # <<>> /\ Head(toFw).id = 0 THEN 1 ELSE 0
  <2>1. Unanswered = Len(toHost) + Len(toFw) + busy - first /\ Due = Len(toFw) + busy - hs
    BY DEF Unanswered, Due
  <2>2. hs <= first
    BY LineData DEF DebtInv, SwallowInv
  <2>3. hs \in 0..1 /\ first \in 0..1 /\ busy \in 0..1
    OBVIOUS
  <2>4. Len(toHost) + Due <= AheadLimit
    BY DEF DebtInv, DueInv
  <2>5. Len(toHost) \in Nat /\ Len(toFw) \in Nat /\ AheadLimit \in Nat
    BY LineTypes DEF AheadLimit
  <2> HIDE DEF busy, hs, first
  <2> QED
    BY <2>1, <2>2, <2>3, <2>4, <2>5
<1> QED
  BY <1>1, DebtInvariant, PTL

\* Without a reset, a thread that waits after it has written is owed an answer
\* with a '#' or finds one: restarts, failed writes and empty lines before this
\* wait do not take it away.
THEOREM AnswerAlwaysComes == FSpec => []AnswerComes
<1>1. FTypeOK /\ LossyOrder /\ DebtInv => AnswerComes
  <2> SUFFICES ASSUME FTypeOK, DebtInv, resets = 0, cpc = "wait", ~vain
               PROVE  Owed >= 1
    BY DEF AnswerComes
  <2> DEFINE rests == {j \in 1..Len(toHost) : ~ContainsHash(toHost[j])}
             busy  == IF fpc \in {"hsPuts", "exec", "puts"} THEN 1 ELSE 0
             first == IF toFw # <<>> /\ Head(toFw).id = 0 THEN 1 ELSE 0
  <2>1. /\ Len(toHost) \in Nat /\ Len(toFw) \in Nat
        /\ toFw = <<>> <=> Len(toFw) = 0
        /\ toFw # <<>> => Head(toFw) = toFw[1]
        /\ busy \in 0..1 /\ first \in 0..1
    BY LineTypes
  <2>2. /\ \A j \in 1..Len(toHost) : ~ContainsHash(toHost[j]) => j = 1
        /\ IF toFw # <<>> THEN toFw[Len(toFw)].id # 0
           ELSE \/ fpc \in {"exec", "puts"}
                \/ \E j \in 1..Len(toHost) : ContainsHash(toHost[j])
    BY DEF DebtInv, AnswerInv
  <2>3. rests = {} \/ (rests = {1} /\ Len(toHost) >= 1)
    <3>1. \A j \in rests : j = 1 /\ Len(toHost) >= 1
      BY <2>1, <2>2
    <3> QED
      BY <3>1
  <2> DEFINE mute == Cardinality(rests)
  <2>4. mute \in 0..1 /\ (mute = 1 => rests = {1} /\ Len(toHost) >= 1)
    <3>1. Cardinality({}) = 0 /\ Cardinality({1}) = 1
      BY FS_EmptySet, FS_Singleton
    <3>2. rests = {} => mute = 0
      BY <3>1
    <3>3. rests = {1} => mute = 1
      BY <3>1
    <3> HIDE DEF rests, busy, first, mute
    <3> QED
      BY <2>3, <3>2, <3>3
  <2>5. Owed = Len(toHost) + Len(toFw) + busy - first - mute
    <3>1. Owed = Unanswered - mute
      BY DEF Owed
    <3>2. Unanswered = Len(toHost) + Len(toFw) + busy - first
      BY DEF Unanswered
    <3> HIDE DEF rests, busy, first, mute
    <3> QED
      BY <2>1, <2>4, <3>1, <3>2
  <2>6. CASE toFw # <<>>
    <3>1. Len(toFw) = 1 => first = 0
      BY <2>1, <2>2, <2>6
    <3> HIDE DEF rests, busy, first, mute
    <3> DEFINE lines == Len(toFw)
    <3>2. lines \in Nat /\ lines # 0 /\ first \in 0..1 /\ (lines = 1 => first = 0)
      BY <2>1, <2>6, <3>1
    <3> HIDE DEF lines
    <3>4. lines - first >= 1 /\ lines \in Nat
      BY <3>2
    <3>5. Owed = Len(toHost) + lines + busy - first - mute
      BY <2>5 DEF lines
    <3>3. Len(toHost) - mute >= 0
      BY <2>1, <2>4
    <3> QED
      BY <2>1, <2>4, <3>3, <3>4, <3>5
  <2>7. CASE toFw = <<>> /\ fpc \in {"exec", "puts"}
    <3>1. busy = 1 /\ first = 0
      BY <2>7
    <3> HIDE DEF rests, busy, first, mute
    <3> QED
      BY <2>1, <2>4, <2>5, <3>1
  <2>8. CASE toFw = <<>> /\ \E j \in 1..Len(toHost) : ContainsHash(toHost[j])
    <3>1. PICK j \in 1..Len(toHost) : ContainsHash(toHost[j])
      BY <2>8
    <3>2. first = 0 /\ ~(j \in rests)
      BY <2>8, <3>1
    <3> HIDE DEF rests, busy, first, mute
    <3>3. Len(toHost) >= 1 /\ (rests = {1} => Len(toHost) >= 2)
      BY <2>1, <3>2
    <3> QED
      BY <2>1, <2>4, <2>5, <3>2, <3>3
  <2> QED
    BY <2>2, <2>6, <2>7, <2>8
<1> QED
  BY <1>1, DebtInvariant, PTL
=============================================================================
