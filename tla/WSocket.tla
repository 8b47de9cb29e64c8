------------------------------ MODULE WSocket ------------------------------
(***************************************************************************)
(* CncInterface/src/com/servlet/WSocket.java: one thread per open page     *)
(* polls the fields of Communicator, one step per read, and sends a status *)
(* line over the page's web socket when it differs from the last one sent. *)
(***************************************************************************)
EXTENDS SharedState

CONSTANTS
  Pages,       \* the open browser tabs
  IdOf,        \* by page: the time stamp it sends as its id
  MaxInFlight  \* messages a socket holds before its writer has to wait
ASSUME WSocketAssumption == IdOf \in [Pages -> Nat \ {0}] /\ MaxInFlight \in Nat \ {0}

VARIABLES
  push,    \* by page: the thread of onOpen
  ws,      \* by page: messages sent and not yet handled
  links    \* by id in use: the page whose thread onClose will stop

sockets == <<push, ws, links>>

\* linie#spindle#queue, and "device in use" among the values no status takes.
Status  == [line : PosLine, spindle : BOOLEAN, busy : BOOLEAN]
InUse   == [line |-> Rest("tail"), spindle |-> TRUE, busy |-> TRUE]
Nothing == [line |-> Rest("tail"), spindle |-> FALSE, busy |-> FALSE]
Current == [line |-> linie, spindle |-> spindleRunning, busy |-> ~queueIsEmpty]

\* The locals of the thread: where it is, oldLine, what it has read of newLine,
\* and sentFlag.
Thread == [pc : {"new", "id", "zero", "linie", "spindle", "queue", "stopped"},
           old : Status, snap : Status, sentFlag : BOOLEAN]

ThreadAt(pc, oldLine) == [pc |-> pc, old |-> oldLine, snap |-> Nothing, sentFlag |-> FALSE]

SocketTypeOK ==
  /\ push \in [Pages -> Thread]
  /\ ws \in [Pages -> Seq(Status)]
  /\ DOMAIN links \subseteq Nat /\ \A id \in DOMAIN links : links[id] \in Pages

SocketInit ==
  /\ push = [p \in Pages |-> ThreadAt("new", Nothing)]
  /\ ws = [p \in Pages |-> <<>>]
  /\ links = [id \in {} |-> id]

Step(p, pc)  == push' = [push EXCEPT ![p].pc = pc]
Message(p, msg) == Len(ws[p]) < MaxInFlight /\ ws' = [ws EXCEPT ![p] = Append(@, msg)]

-----------------------------------------------------------------------------
(* onOpen starts the thread, and enters it in links unless its id is there; *)
(* onClose stops the thread links has for the id, and fails if there is    *)
(* none (an exception of its own thread, which changes nothing).           *)

OnOpen(p) ==
  /\ Step(p, "linie")
  /\ links' = IF IdOf[p] \in DOMAIN links THEN links
              ELSE [id \in DOMAIN links \cup {IdOf[p]} |-> IF id = IdOf[p] THEN p ELSE links[id]]
  /\ ws' = ws

OnClose(p) ==
  /\ push' = IF IdOf[p] \in DOMAIN links
             THEN [push EXCEPT ![links[IdOf[p]]] = ThreadAt("stopped", Nothing)] ELSE push
  /\ links' = [id \in DOMAIN links \ {IdOf[p]} |-> links[id]]
  /\ ws' = [ws EXCEPT ![p] = <<>>]

-----------------------------------------------------------------------------
(* run() of the thread. The id of the owner is read twice.                 *)

ReadId(p) ==
  /\ push[p].pc = "id"
  /\ Step(p, IF sessionId = IdOf[p] THEN "linie" ELSE "zero")
  /\ UNCHANGED <<ws, links>>

ReadZero(p) ==
  /\ push[p].pc = "zero"
  /\ IF sessionId = 0 \/ push[p].sentFlag
     THEN Step(p, IF sessionId = 0 THEN "linie" ELSE "id") /\ ws' = ws
     ELSE /\ Message(p, InUse)
          /\ push' = [push EXCEPT ![p].pc = "id", ![p].sentFlag = TRUE]
  /\ UNCHANGED links

\* The status line is three reads of fields that other threads write.
ReadLinie(p) ==
  /\ push[p].pc = "linie"
  /\ push' = [push EXCEPT ![p].pc = "spindle", ![p].snap.line = linie]
  /\ UNCHANGED <<ws, links>>

ReadSpindle(p) ==
  /\ push[p].pc = "spindle"
  /\ push' = [push EXCEPT ![p].pc = "queue", ![p].snap.spindle = spindleRunning]
  /\ UNCHANGED <<ws, links>>

\* Mutant: a status is new only if its coordinates are.
ReadQueueIfMoved(p) ==
  /\ push[p].pc = "queue"
  /\ LET newLine == [push[p].snap EXCEPT !.busy = ~queueIsEmpty]
     IN  IF newLine.line = push[p].old.line
         THEN ws' = ws /\ push' = [push EXCEPT ![p] = ThreadAt("id", push[p].old)]
         ELSE Message(p, newLine) /\ push' = [push EXCEPT ![p] = ThreadAt("id", newLine)]
  /\ UNCHANGED links

\* The last read, the comparison with oldLine, and the message.
ReadQueue(p) ==
  /\ push[p].pc = "queue"
  /\ LET newLine == [push[p].snap EXCEPT !.busy = ~queueIsEmpty]
     IN  /\ IF newLine = push[p].old THEN ws' = ws ELSE Message(p, newLine)
         /\ push' = [push EXCEPT ![p] = ThreadAt("id", newLine)]
  /\ UNCHANGED links

PushNext(p) == ReadId(p) \/ ReadZero(p) \/ ReadLinie(p) \/ ReadSpindle(p) \/ ReadQueue(p)
=============================================================================
