----------------------------- MODULE UsartRing -----------------------------
(***************************************************************************)
(* CncFirmware/Library/tm_stm32fall/tm_stm32f4_usart.c: the receive ring   *)
(* of USART1, filled by the interrupt and emptied by TM_USART_Gets, which  *)
(* main() polls. The interrupt runs to its end between two accesses of     *)
(* main(); "Num--" is a load and a store. Bytes carry their number in the  *)
(* stream the server sends; 0 is what Getc makes of an empty ring.         *)
(***************************************************************************)
EXTENDS Integers, Sequences

CONSTANTS
  Size,      \* bytes of the ring (TM_USART1_BUFFER_SIZE)
  BufSize,   \* bytes of the buffer main() gives to Gets
  MaxLines,  \* lines of the longest stream
  Streams    \* what the server may send: which bytes end a line, and how many
             \* lines it sends ahead of the answers it has
ASSUME RingAssumption ==
  /\ Size \in Nat \ {0} /\ MaxLines \in Nat /\ BufSize \in Nat /\ BufSize > Size + 1
  /\ \A s \in Streams :
       /\ s.ahead \in Nat \ {0} /\ s.ends \in Seq(Nat \ {0}) /\ Len(s.ends) <= MaxLines
       /\ \A k, l \in 1..Len(s.ends) : k < l => s.ends[k] < s.ends[l]

VARIABLES
  Buffer, Num, In, Out,   \* the fields of TM_USART_t
  mpc,       \* where Gets is
  line,      \* the bytes Gets has copied
  tmp,       \* Num as loaded for "Num--"
  stream,    \* the server's choice among Streams
  sent,      \* bytes that have come over the wire
  answered,  \* strings main() has answered
  stored,    \* history: bytes stored and not yet read, oldest first
  raced      \* history: whether a store of Num has undone an increment

ring    == <<Buffer, In, Out, stored>>
ringVars == <<ring, Num, mpc, line, tmp, stream, sent, answered, raced>>

Slots == 0..Size - 1
Wrap(n) == IF n = Size THEN 0 ELSE n

\* The slot n places behind Out, for n < Size.
Behind(n) == IF Out + n >= Size THEN Out + n - Size ELSE Out + n

TypeOK ==
  /\ Buffer \in [Slots -> Nat] /\ Num \in Nat
  /\ In \in 0..Size /\ Out \in 0..Size
  /\ mpc \in {"gets", "full", "getc", "load", "store", "done"}
  /\ line \in Seq(Nat) /\ tmp \in Nat
  /\ stream \in Streams
  /\ sent \in Nat /\ answered \in Nat
  /\ stored \in Seq(Nat) /\ raced \in BOOLEAN

Init ==
  /\ Buffer = [k \in Slots |-> 0] /\ Num = 0 /\ In = 0 /\ Out = 0
  /\ mpc = "gets" /\ line = <<>> /\ tmp = 0
  /\ stream \in Streams /\ sent = 0 /\ answered = 0
  /\ stored = <<>> /\ raced = FALSE

\* The last byte of line k, and whether b is StringDelimiter.
End(k)   == IF k = 0 THEN 0 ELSE stream.ends[k]
IsEnd(b) == \E k \in 1..Len(stream.ends) : stream.ends[k] = b

\* The server sends the lines up to this one before it waits for an answer.
Upto == IF answered + stream.ahead <= Len(stream.ends)
        THEN answered + stream.ahead ELSE Len(stream.ends)

-----------------------------------------------------------------------------
\* Mutant: In wraps to 0 but the byte is stored before the wrap.
InsertUnwrapped ==
  /\ sent < End(Upto)
  /\ sent' = sent + 1
  /\ IF Num < Size
     THEN /\ Buffer' = [Buffer EXCEPT ![IF In = Size THEN Size - 1 ELSE In] = sent + 1]
          /\ In' = Wrap(In) + 1
          /\ Num' = Num + 1
          /\ stored' = Append(stored, sent + 1)
     ELSE UNCHANGED <<Buffer, In, Num, stored>>
  /\ UNCHANGED <<Out, mpc, line, tmp, stream, answered, raced>>

\* USART1_IRQHandler for the next byte: a full ring drops it.
InsertToBuffer ==
  /\ sent < End(Upto)
  /\ sent' = sent + 1
  /\ IF Num < Size
     THEN /\ Buffer' = [Buffer EXCEPT ![Wrap(In)] = sent + 1]
          /\ In' = Wrap(In) + 1
          /\ Num' = Num + 1
          /\ stored' = Append(stored, sent + 1)
     ELSE UNCHANGED <<Buffer, In, Num, stored>>
  /\ UNCHANGED <<Out, mpc, line, tmp, stream, answered, raced>>

\* Mutants: the search stops one slot short; it looks at the whole ring.
FindOneShort == \E k \in 0..Num - 2 : IsEnd(Buffer[Behind(k)])
FindAnywhere == \E k \in Slots : IsEnd(Buffer[k])

\* FindCharacter looks at Num slots from Out on.
FindDelimiter == \E k \in 0..Num - 1 : IsEnd(Buffer[Behind(k)])

\* The tests at the start of Gets; with Num = 0 it returns at once.
Find ==
  /\ mpc = "gets" /\ Num # 0
  /\ mpc' = IF FindDelimiter THEN "getc" ELSE "full"
  /\ line' = <<>>
  /\ UNCHANGED <<ring, Num, tmp, stream, sent, answered, raced>>

TestFull ==
  /\ mpc = "full"
  /\ mpc' = IF Num = Size THEN "getc" ELSE "gets"
  /\ UNCHANGED <<ring, Num, line, tmp, stream, sent, answered, raced>>

\* After a byte: the delimiter or a full buffer ends the loop.
AfterByte(bytes) ==
  IF IsEnd(bytes[Len(bytes)]) \/ Len(bytes) = BufSize - 1 THEN "done" ELSE "getc"

\* Mutant: Out is not wrapped to 0 before it is used.
GetcUnwrapped ==
  /\ mpc = "getc"
  /\ IF Num > 0 \/ In # Out
     THEN /\ line' = Append(line, Buffer[Wrap(Out)])
          /\ Out' = Out + 1
          /\ stored' = IF stored = <<>> THEN stored ELSE Tail(stored)
          /\ mpc' = "load"
     ELSE /\ line' = Append(line, 0)
          /\ mpc' = AfterByte(line')
          /\ UNCHANGED <<Out, stored>>
  /\ UNCHANGED <<Buffer, In, Num, tmp, stream, sent, answered, raced>>

\* Getc up to "Num--". Nothing to read is a zero.
Getc ==
  /\ mpc = "getc"
  /\ IF Num > 0 \/ In # Out
     THEN /\ line' = Append(line, Buffer[Wrap(Out)])
          /\ Out' = Wrap(Out) + 1
          /\ stored' = IF stored = <<>> THEN stored ELSE Tail(stored)
          /\ mpc' = "load"
     ELSE /\ line' = Append(line, 0)
          /\ mpc' = AfterByte(line')
          /\ UNCHANGED <<Out, stored>>
  /\ UNCHANGED <<Buffer, In, Num, tmp, stream, sent, answered, raced>>

LoadNum ==
  /\ mpc = "load"
  /\ tmp' = Num
  /\ mpc' = IF Num = 0 THEN AfterByte(line) ELSE "store"
  /\ UNCHANGED <<ring, Num, line, stream, sent, answered, raced>>

\* Mutant: Num is stored as it was loaded.
StoreLoaded ==
  /\ mpc = "store"
  /\ Num' = tmp
  /\ raced' = (raced \/ Num # tmp)
  /\ mpc' = AfterByte(line)
  /\ UNCHANGED <<ring, line, tmp, stream, sent, answered>>

StoreNum ==
  /\ mpc = "store"
  /\ Num' = tmp - 1
  /\ raced' = (raced \/ Num # tmp)
  /\ mpc' = AfterByte(line)
  /\ UNCHANGED <<ring, line, tmp, stream, sent, answered>>

\* main() acts on what Gets returned, answers, and polls again.
Answer ==
  /\ mpc = "done"
  /\ mpc' = "gets"
  /\ answered' = answered + 1
  /\ UNCHANGED <<ring, Num, line, tmp, stream, sent, raced>>

Main == Find \/ TestFull \/ Getc \/ LoadNum \/ StoreNum \/ Answer

Next == InsertToBuffer \/ Main

Spec == Init /\ [][Next]_ringVars

\* The firmware is alone on its processor; the server sends what it may.
FairSpec == Spec /\ WF_ringVars(Main) /\ WF_ringVars(InsertToBuffer)

-----------------------------------------------------------------------------
\* The lines the server sends ahead fit in the ring together.
Fits ==
  \A k \in 0..Len(stream.ends) :
    End(IF k + stream.ahead <= Len(stream.ends) THEN k + stream.ahead ELSE Len(stream.ends))
      - End(k) <= Size

\* If they do, the ring is a queue, whatever becomes of Num: no byte is stored
\* over one that was not read, and Getc returns the oldest.
RingIsQueue ==
  Fits => /\ Len(stored) <= Size
          /\ \A k \in 1..Len(stored) : Buffer[Behind(k - 1)] = stored[k]

\* ... none is dropped, and each string Gets returns is the next whole line.
LinesWhole ==
  Fits /\ mpc = "done" =>
    /\ answered < Len(stream.ends)
    /\ line = [k \in 1..End(answered + 1) - End(answered) |-> End(answered) + k]

\* Num never promises a byte that is not there, and misses none until an
\* increment is lost; a server that waits for each answer never loses one.
Unread == Len(stored) + (IF mpc \in {"load", "store"} THEN 1 ELSE 0)
NumCounts ==
  Fits => /\ Num <= Unread
          /\ ~raced => Num = Unread
          /\ stream.ahead = 1 => ~raced

\* Gets returns every line that has come, unless an increment is lost: the '\n'
\* that Num then misses is found only when the next byte comes.
LinesReturned ==
  \A k \in 1..MaxLines : (Fits /\ k <= Len(stream.ends) /\ sent >= End(k)) ~> (answered >= k \/ raced)

\* tm_stm32f4_usart.h:546 says of bufsize: "maximal number of characters we can
\* add to your buffer, including leading zero". The zero goes to this index.
Terminator == IF IsEnd(line[Len(line)]) THEN Len(line) ELSE Len(line) + 1
TerminatorInside == mpc = "done" => Terminator < BufSize
=============================================================================
