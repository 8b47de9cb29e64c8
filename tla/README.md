# A TLA+ model of the CNC machine's server and firmware

The repository drives a small CNC machine. An STM32 firmware (`CncFirmware/Blinky.c`) turns
command lines into step pulses. A Java web application on a Raspberry Pi (`CncInterface`) owns the
serial line to it and serves web pages (`jsp/gui.jsp`), an Android phone and a watch (`CncRemote`).
A Python script (`gcodetools`) turns drawings into G-code.

This directory models the part of it where things happen at the same time: several clients, the
servlet threads that serve them, the one thread that talks to the machine, the serial line and the
firmware; the push of the status to the pages; the phone and the watch; the ring of the firmware's
serial driver; the files through which the server and the Python script talk. It also models the
pulses of a single move. Properties are checked with TLC on small
instances; the most important ones are proved with TLAPS for every instance.

## The system

| part | source | state | operations |
|---|---|---|---|
| firmware loop | `Blinky.c` | `px, py, pz` (steps), the line buffer, pin C9 (spindle) | `handShake()`; read, act, reply in `main()` |
| firmware motion | `Blinky.c` | direction and step pins, the accumulator `over` | `line()`, `lineZ()` |
| USART driver | `tm_stm32f4_usart.c` | a ring of 32 bytes, filled by an interrupt | `Gets`, `Puts`, the IRQ handler |
| serial thread | `Communicator.java` | static `queue`, `queueIsEmpty`, `linie`, `sessionId`, `spindleRunning` | `run()`, `handShake()`, `waitForResponse()` |
| controller servlet | `Controller.java` | the statics above | six GET actions, three POST actions |
| status push | `WSocket.java` | per socket: last line sent, "in use" sent; the map `links` | `onOpen` thread, `onClose` |
| web page | `gui.jsp` | shown position, check box of the spindle and its counter, start/stop button, blocked controls | buttons, `ws.onmessage` |
| start-up | `SchedulerContextListener.java` | the open port | `contextInitialized` |
| SVG hand-over | `Controller.java`, `gcodetools_listener.py` | signal files in one directory | `getGCodeFromSVGFile`, the listener's loop |
| phone, watch | `CncRemote` | timers, request queues | the page's requests, a poll timer |
| G-code generator | `gcodetools.py` | its input and output file | a batch program |

How they interact. A request (one Tomcat thread each; a browser may have several under way) appends
text lines to `queue` and writes a flag (`spindleRunning`) or the owner (`sessionId`). The serial
thread takes one line at a time, writes it to the port, and waits for a line with a `#`, which it publishes in `linie`. Push threads
and the `getSpindlePosition` request read these fields. The firmware answers every line it reads
in `main()` with its position. At power-on it repeats its position every second until it reads
`HandShake`, which the server writes after it has read one position.

What is hard about it: none of the fields is written under a lock, and most operations are two or
three accesses (test the queue, then remove; queue a job, then claim the machine; queue an order,
then write the flag). The two ends agree on a phase (handshake or commands) with no way to check it.
Answers are matched with commands only by counting. Either end can be restarted without the
other noticing. The full list, with lines, is under `hazards` in `PROJECT.json`.

What makes each part right:

- link: a command is written, read and executed in the order in which it was accepted, at most
  once; the two ends never disagree on the phase; the number of unread answers stays bounded; the
  newest answer says where the machine is;
- sharing: the thread that serves everybody ends of one interleaving only; the client that owns the
  machine is known to the others; it is given back; flags shown agree with the machine;
- motion: the motors reach the position the firmware then claims, along the line;
- push and page: what a page shows follows what was sent to it, and agrees with the server in the
  end; pin, flag and page agree on the spindle;
- ring: bytes come out as they went in, lines come out whole, and a lost count costs at most a wait;
- hand-over: each upload gets the G-code of its own drawing, unless its signal was taken away;
- remotes: an order that is repeated adds nothing; nothing goes on in the background; the screen
  shows the truth in the end.

## Modules

| module | models |
|---|---|
| `CncTypes` | the two kinds of lines on the wire and the conversions (`getMM`, `getNumberOfSteps`, the handshake's pattern) |
| `SharedState` | the two directions of the line, the static fields of `Communicator`, the history of commands |
| `Firmware` | `handShake()` and `main()` of `Blinky.c` |
| `Communicator` | `run()`, `handShake()`, `waitForResponse()` of `Communicator.java` |
| `Controller` | the requests of `Controller.java` that change shared state |
| `CncLink` | the three together, fault free; most properties |
| `CommandWindow` | abstract: what server and machine promise about commands |
| `CncFaults` | `CncLink` with resets of the board, restarts of the server and writes that fail |
| `Serving` | server and machine after their handshake, with what its drain may have left, to put clients in front of |
| `WSocket` | the push threads of `WSocket.java` and the map `links` |
| `Requests` | the requests that pages and remotes make, and the bound on them |
| `Page` | the script of `gui.jsp`: the status it keeps, the buttons, what blocks them, the requests on their way |
| `WebLink` | `Serving` with pages, and clients without one |
| `Remote` | the activities of the phone and of the watch, and the HTTP library under them |
| `RemoteLink` | `Serving` with a phone or a watch |
| `UsartRing` | the receive ring of the USART driver, byte by byte |
| `SvgHandover` | `getGCodeFromSVGFile` and `gcodetools_listener.py`, file by file |
| `Motion` | the loops of `line()` and `lineZ()`, one action per turn |
| `MCLink`, `MCFaults`, `MCWeb`, `MCRemote`, `MCRing`, `MCSvg`, `MCMotion` | values for TLC |
| `ServingProofs` | lemmas about the server and the machine that the next four share |
| `CncLinkProofs`, `CncFaultsProofs`, `WebLinkProofs`, `RemoteLinkProofs`, `UsartRingProofs`, `SvgHandoverProofs`, `MotionProofs` | theorems |

How state and actions correspond to the code (`map` in `PROJECT.json` has the lines):

- **Firmware.** `fpc` is the point between two calls of the USART driver. `hsGets`/`hsPuts` are the
  two calls of `handShake()`, `gets`/`exec`/`puts` the three stages of `main()`. `Exec` is
  `getNumbers` plus `line`, `lineZ`, the redefinition of the position or the spindle pin. `pos` is
  `px, py, pz`; `tool` is where the motors are, which the program does not know.
- **Communicator.** `cpc` follows `run()`. Each access to a field the servlets write is a step:
  `CheckQueue` is line 47 alone, `Take` is `queue.remove()` and the write, `Release` is
  `sessionId=0`. `TakeNothing` is `remove()` of an empty queue: the exception is not an
  `IOException`, so the thread ends.
- **Controller.** `req[c]` says what the running request on connection `c` has still to do. A
  connection carries one request at a time and belongs to a client (`Owner[c]`), who may have several.
  `Handle` is the dispatch on `action` for a request that comes over the network. `Add` is one
  `queue.add` or `addAll`; `ConcurrentLinkedQueue.addAll` of a list links its nodes in one step.
  `queue.clear()` polls until the queue is empty, so it is a step per element and may remove what
  is added meanwhile.
- **Lines.** A command line is what `getNumbers` makes of it: coordinates by axis, spindle on or
  off, or nothing. A position line is the position it prints, in nanometres: one step is 1875 nm,
  so the six decimals of `%f` are exact. `MatchesPattern` has no place for a minus sign. A
  position line that has lost its first characters has a `kind`: it kept both `#` and the form of a
  position or not (`match`, `two`), one (`one`), or none (`tail`). What the script, the phone and
  `alterPosition` make of each is in `BoxOf`, `RunningOf`, `Parsed` and `Alterations`.
- **History.** Commands carry a number (`id`) in the order of acceptance and the client of their
  job; the code has neither. `accepted`, `executed`, `dropped` record what became of them.
  `robbed` records that a stop took a command while the serial thread stood between its test of the
  queue and its `remove()`; the thread's next test resets it. `vain` (`CncFaults`) records that the
  last wait began with nothing written: an empty command, or a failed write.
- **Push and page.** `push[p]` is the thread of `onOpen`: each read of a shared field is a step, so
  the line it sends may be torn, and the owner is read twice (line 69). `ws[p]` holds what was sent
  and not yet handled. `page[p]` is what the script keeps: the status shown, the check box
  (`box`), `sendToCncStatus` (`running`), `toggleSpindleCounter` (`odd`), and whether `blockInterface`
  was called last. A click flips `box` before the script runs, as the browser does. `net[c]` is a
  request `$.ajax` has sent and the server has not begun: a second click does not wait for the first,
  it takes another connection, and `Arrive` takes the requests of different connections in any order.
  History: `touched`, whether the box or the start/stop button was pressed since the last status;
  `alone`, the pages that alone have toggled the spindle so far, never with a toggle under way.
- **Ring.** The interrupt (`InsertToBuffer`) runs to its end between two accesses of `main()`;
  `Num--` is `LoadNum` and `StoreNum`, so an increment in between is lost. Bytes carry their number
  in the stream. `stored` and `raced` are history: the bytes a queue would hold, and whether an
  increment was lost.
- **Hand-over.** A file is the upload its content came with, or 0. `overlapped` and `lost` are
  history: whether two uploads ever overlapped, and whether the listener removed the signal of a
  waiting upload (or found none, which ends it).
- **Remotes.** One activity is created, resumed, paused and destroyed. `timers` and `orphans` count
  poll timers of this activity and of destroyed ones; `handle` is whether `t` names one. A call is
  delivered, or lost, or delivered with its answer lost. The last two leave another attempt, or, after
  the last one, end in `onErrorResponse` (`TimeOut`), which takes the phone's switch back, also when
  the server has acted on the order. The sensors' timer runs its task (`Tick`), the task posts a
  runnable (`Post`), the UI thread runs it (`RunPosted`): cancelling the timer stops neither a task
  that runs (`firing`) nor a runnable that was posted (`posted`).
- **Motion.** The two loops of `line()` are one text with x and y exchanged; the action `LineStep`
  stands for both, for the axis `loop`. A pulse moves a motor by one step.

## Assumptions

- The wire delivers in order. Lines are read whole, with two exceptions that the code makes
  possible. A restarted server opens the port in the middle of a line (`Received`). The drain of
  `run()` reads characters and may stop inside a line that is being sent: `DrainMidLine` then leaves the rest of that line as a line of its own, with or without a `#`. From
  power on that is a line of `handShake()`; after a restart of the server alone it is one of `main()`.
- A byte takes less than 0.1 ms on the wire and `handShake()` polls once a second. So
  the one position line that can cross the server's `HandShake` is that of the poll which was
  already past `Gets`.
- `CncLink` has an unbounded line to the firmware; `AtMostOneAhead` is the bound on lines it has to
  hold. `UsartRing` takes that bound as `ahead` and shows what a ring of `Size` bytes makes of it:
  where the lines ahead fit, whole lines in order. `HostBuf` is the number of lines the host's driver
  can hold; lines beyond are lost.
- Requests on different connections race, whoever sent them. In `CncLink` every client has one
  connection and two clients race: more connections of one client would race in the same way, since
  only a job names its client. In `WebLink` a page, which decides by its own state, has two.
- Feed rates only pace the pulses and are left out. Rounding of `float` is not modelled:
  `GetNumberOfSteps` truncates an exact quotient.
- A reset during a reply loses the whole reply; a reset during a move leaves the tool where it was
  or where the move ends. Positions in between add nothing to the properties checked.
- The numbers of a line that came without its beginning are taken for zero: no property is about
  them.
- `Serving` starts after the handshake, and the machine's reading, acting and answering is one step:
  no client sees its stages (`CncLink` has them). The drain may have left a line (`Surplus`), which
  the server then takes for its first answer and so stays one answer behind: pages and remotes are
  checked before such a server as well as before one that is not.
- A tab is opened and closed once: loading it again draws a new id, which makes it another tab. That
  tabs have distinct ids is a condition of `PageKeepsUp` and not of the model. `setCoords` and
  `makeHandshake` have no button on the page.
- Files are read and written whole, and the server is not restarted during an upload.
- The answer to a poll of a remote is one read of the fields; it is torn in the same way as the
  status line, which `WSocket` has step by step. A poll is answered in the end. The library cancels
  requests by a tag that no request has, so `cancelAll` does nothing. A device sees the server it
  was told; a request without an address fails.
- Clients' ids are clock values, never 0. A job without an id is not modelled: it would set the
  owner to -1, which no page has.

Bounds: `MaxCommands` limits the commands ever queued, `MaxResets`, `MaxRestarts` and `MaxFailures` the faults,
`Quotas` the requests pages and remotes make (by action; one of the quotas is chosen at the start),
`MaxUploads`, `MaxPolls` and `MaxCreations` what else users and devices do, `MaxPosted` the runs of the
sensors' task that are under way, `MaxInFlight` the messages a socket holds.
They are guards of the actions they bound. The proofs hold for every value of them.

## Runs

| run | instance | shows |
|---|---|---|
| `link_safety` | two clients, job of two lines or empty job, spindle, zero, handshake, stop; 3 commands | `NothingSwallowed`, `AtMostOneAhead`, `NewestIsCurrent`, `EndsOnlyByStop` (a stop between test and `remove()` is the only end of the thread), and that `CncLink` implements `CommandWindow` |
| `link_liveness` | two clients with every kind of request, no stop and no empty job, fairness | `EveryCommandRuns`, `SessionReleased`, `HandShakeCompletes` |
| `faults` | one client, job of two lines or empty job, one reset, two restarts and one failed write at any step; 3 commands | `SwallowedOnlyAfterReset`, `AheadPerRestart`, `AnswerComes`, and that commands may be lost but are never reordered or repeated |
| `motion` | every sequence of moves in a cube of six steps, fairness | `MotorsAgree`, `OnTheLine`, `NoOvershoot`, `MovesEnd` |
| `web_page` | one page with two connections, a second client without a page, five quotas (two toggles; a job and a button of an axis; home; two jobs; a job and a stop), no surplus or a line with one `#`; 3 commands; fairness | `PageKeepsUp`, `SpindleCopiesAgree`, `PagesAgreeInTheEnd` |
| `usart_ring` | a ring of four bytes, seven streams of lines of one to six bytes, one to three ahead; fairness | `RingIsQueue`, `LinesWhole`, `NumCounts`, `LinesReturned` |
| `svg` | two users, three uploads, overlapping or not; fairness | `OwnGcode`, `ReadsItsCommand`, `AnsweredUnlessLost` |
| `remote` | a phone or a watch, four quotas (a toggle on; one off; two moves; a move and home) of two attempts each, one activity, no surplus or a line with two `#`; 2 commands; fairness | `NoRunaway`, `OneLeftPerCreation`, `QuietWhenPaused`, `ShownInTheEnd` |

Three commands are enough for every interleaving of interest: one being executed, one on the line
and one in the queue is the largest window there is (`AtMostOneAhead` says so, for any number).
Two clients suffice for the races: each of them involves the serial thread and one or two
requests. Six steps per axis contain every relation of two lengths the loops distinguish (equal,
one zero, dividing, coprime), both directions and a turn of direction. Four bytes are few enough
for a ring to wrap in every position and to fill, and the streams have lines that fit, that fit
alone but not together, and that are longer than the ring. Three uploads of two users give a second
upload of a user who has left files behind, and one that overlaps. Two requests can overtake each
other and each be carried out twice. Of the page's quotas each has one encounter: two toggles, of one
page or of two clients, under way together or not; a button whose coordinates came from a torn line
while a job runs; the two halves of the way home; two jobs that race for the owner; a stop against a
job. One message in flight is the least that can be overtaken by a press.

Deadlock is not checked where the system may stop: in `link_safety` and `faults` the serial thread
may be dead, wait for the answer to an empty command, or wait for a firmware that sends nothing by
itself; in the others the bounds are used up, or (`svg`) the listener has ended. It is checked in
`link_liveness`, where the serial thread never stops turning, and in `motion`.

### Where the code differs from what the repository says

Each of these runs checks one claim of the repository and ends with a counterexample:

| run | claim | what happens |
|---|---|---|
| `stop_kills_thread` | concurrent clients (README.md:17) | a stop between `isEmpty()` and `remove()` ends the serial thread |
| `session_overwritten` | concurrent clients, "device in use" (WSocket.java:69-87) | `sessionId=0` of a thread that saw an empty queue erases a claim made since |
| `origin_lost` | px, py, pz start with the last known coordinates (README.md:30) | they start with 0, and nothing is stored (the run has no `setCoords`, which redefines them on purpose) |
| `gets_overrun` | `bufsize` counts the terminating zero (tm_stm32f4_usart.h:546) | a string without a delimiter is terminated at `buffer[bufsize]` |

Other things the models show that the repository says nothing about:

- The server may stay one answer behind the machine for ever: a handshake line that comes after the
  drain is taken for the first answer, and `linie` then lacks the newest one. `AtMostOneAhead` says it
  is never more, `NewestIsCurrent` that the answer left on the line tells the truth. What pages and
  phones show is `linie`; it is the machine's position when the drain has left nothing
  (`PagesAgreeInTheEnd`, `ShownInTheEnd`).
- While the firmware is in its last poll, the server may write a command and take that poll's line for
  its answer: an answer is not bound to the command it is taken for.
- An empty job makes the serial thread wait for ever, unless a surplus line ends the wait; so does a
  write that fails. `AnswerComes` says that no other wait suffers; `EveryCommandRuns` is about clients
  that send no empty job.
- The check box of the page is flipped by the browser, the order follows a counter that starts at 0:
  on a page opened while the spindle is on, the first click clears the box and sends "on". The flag
  does not change, no message follows, and the box stays wrong until some status changes.
- Two quick clicks are two requests under way at once. Their threads may queue "on" and "off" in one
  order and write the flag in the other, and pin and flag stay apart for good.
- A page that was shown "device in use" stays blocked when the status is afterwards the one it was
  last sent: only a message unblocks it, and there is none. `PageKeepsUp` says that what it shows
  is right all the same.
- A lost increment of `Num` (an interrupt between the load and the store of `Num--`) hides the last
  byte. If that is the end of a line, the line is returned only when another byte comes. It can
  only happen to a server that is one answer ahead (`NumCounts`).
- Two uploads at a time exchange their drawings, commands and answers freely; and a single upload
  whose signal comes between the listener's first test and its removal is never answered.
- The watch shows 0.0000 until it has its first answer, and a press before that sends the machine
  next to the origin.
- A device that goes to the background may still make a request for a task of the sensors' timer that
  was running, and the requests already on their way move the machine: `QuietWhenPaused` says that
  nothing else does.

## Fairness

`FairSpec` of `CncLink` assumes weak fairness of the firmware, of the serial thread and of each
running request: the firmware is alone on its processor and never blocks for ever outside `Gets`;
the serial thread spins and the operating system schedules it; Tomcat runs a request it has
started. No client is assumed to send anything, and no fault has to happen. `Motion` assumes weak
fairness of the loop that runs. `link_liveness` has clients that do not stop the machine and send no
empty job: either may leave commands that are never executed.

`WebFairSpec` adds each push thread (it spins) and each browser's handling of messages that have
come; of the running requests it asks only that some one runs. A request sent need not come to the
server. `FairSpec` of `UsartRing` takes `main()` and a server that sends what it may send; that of
`SvgHandover` the listener and each running upload. `RFairSpec` takes the poll timer of a device that
runs and the handling of answers. Nobody is assumed to open a page, press a button, upload, or
resume an activity, and the network need not deliver a request.

Properties of the form `<>[]` are about the bounded instance: once the commands are used up nothing
changes any more, so they say what is shown after the last change, whatever came before.

## Proofs

`CncLinkProofs` is about any set of clients, jobs, positions and any number of commands, under
`HostBufAssumption` (room for two position lines) and `ControllerAssumption` (the types of what
clients send, ids other than 0):

- `TypeCorrect`: `Spec => []TypeOK`, from the types of each component in `ServingProofs`.
- `HandShakeAgreed`, `BoundedAhead`, `NewestTells`: the three invariants of `link_safety`. None is
  inductive. The invariant that is, `LinkInv`, adds four things. `HandShakeInv` says where the
  server's own `HandShake` line can be, and that the firmware can only leave its handshake after
  the server has left its own. `AheadInv` needs it, because a `HandShake` line on the wire is the
  one that gets no answer. `NewestInv` follows the position line through the drain: before the
  server serves, every line under way is the current position, and a line that has lost its `#` can
  only be the first one. `OrderInv` says that numbers grow from the command being executed, over
  the line, to the queue. TLC checked the parts on the instance of `link_safety` before the proof.
- `ImplementsWindow`: `Spec => RefinesWindow`. Committed are the commands on the line and the one
  being executed. `OneCommitted` derives from `AheadInv` that the server takes a command only
  when at most one is unfinished. `IdsTail` and `OrderInv` give the order.
- `ThreadEndsOnlyByStop`: the invariant `EndsInv` says that a thread about to take from an empty
  queue has been robbed of the command it found, since its test: nobody but a stop removes, adding
  does not empty, and a later test would have sent the thread elsewhere.

`ServingProofs` holds what the proofs about server and machine share. `RequestFacts` reduces the
twelve request actions to three effects: append numbered bodies to the queue, remove its head, or
leave it alone, and all later proofs use that lemma instead of the actions; `HandleAsks` does the same for a
request that comes over the network, `AlterationsData` says what a torn line can make of
`alterPosition`. `AddFacts` says what
`Add` appends, the lemmas on `Ids` what the numbers in a sequence are after `Append` and `Tail`,
and one lemma per component that its steps keep the types.

`CncFaultsProofs` is about any number of resets, restarts and failing writes:

- `FaultsTypeCorrect`: also after a reset in any state of the firmware and a restart in any state
  of the server.
- `ImplementsLossyWindow`: `FSpec => RefinesLossyWindow`. `OrderInvariant` is `OrderInv` again,
  which no fault disturbs: a fault removes lines and adds none with a number.
- `NothingSwallowedByRestarts`, `OneAnswerPerRestart`, `AnswerAlwaysComes`, from the invariant
  `DebtInv`. `SwallowInv` says that the first line a firmware in its first handshake can meet is the
  server's own, even when writes fail. `DueInv` counts the answers still to come (`Due`), also of
  the `HandShake` lines of threads that were restarted: in the drain and in the handshake the
  firmware owes at most one more than there were restarts, which is what the bound while it serves comes from.
  `AnswerInv` says that a thread whose wait began with a line written finds that line unread, under
  execution or answered (`vain` marks the other waits). The drain and a restart leave at most the
  first line without its `#`, so that one is no answer.

`RemoteLinkProofs` is about any server's clients, presses, polls, attempts and life cycles:

- `RemoteTypeCorrect` (under `RemoteAssumption`, the types of what users do), `OneTimerPerCreation`, `QuietInBackground`. `TimersInv` counts the timers
  exactly: one per activity that lives, one more for a watch in the foreground, one orphan per
  activity destroyed. For `QuietInBackground`, a task that runs, a runnable it has posted and the
  request this makes are one thing on its way: every step in the background leaves their sum alone or
  lowers it, since `TimersInv` has the sensors off there.
- `NeverRunsAway`. `RunawayInv` bounds everything that can become a position: the machine, the
  lines both ways, the queue, what the device shows, and the targets in calls that may be delivered
  any number of times. All are within one increment per press of the origin, because a press adds to
  a position that was shown.

`WebLinkProofs` is about any pages, clients, connections and jobs, and any surplus:

- `WebTypeCorrect`.
- `PageShowsWhatWasSent`. `StatusInv` says that every status has a `#`, whole or torn, so that the
  script shows whatever it is sent; `LinksInv` that an id leads to the page that
  opened with it; `KeepsInv` that the last status on the socket, or the one shown when there is none,
  is the one the thread compares with next, and that the box and the button show the status shown
  unless they were pressed since.
- `SpindleCopiesAlwaysAgree`. The orders on their way form a chain from the pin over the line to the
  queue (`OnTheWay`). For a page that has toggled alone, `SpindleInv` has three cases: no toggle is
  under way, and flag, end of the chain and counter agree (`Settled`); one connection carries the last
  toggle, and flag and chain are still what the counter was before (`AskedBy`); or its thread has
  queued the order and is about to write the flag (`Begun`). A second toggle in either of the last two
  would have a fourth case, in which the copies do come apart: this is why the property asks for
  `alone`, besides jobs that do not switch the spindle and nothing dropped by a stop (`hazards`,
  Controller.java:45 and gui.jsp:471).

`UsartRingProofs` is about any size of the ring, any buffer larger than it, and any streams
(`RingAssumption`):

- `TypeCorrect`, `AlwaysQueue`, `AlwaysWhole`, `AlwaysCounts`. The inductive invariant `RInv` is
  arithmetic on numbers of bytes: `In` is `Out` plus the unread bytes around the ring, the unread
  bytes are consecutive numbers up to `sent`, what `Gets` has copied is the beginning of line
  `answered + 1`, whose end has come, and `Num` is at most the unread bytes, which a lost increment
  cannot break. A string is begun only when the search has found its end (`Begun`). The part about bytes is
  under `Fits`, the condition that the lines ahead fit in the ring: else bytes are dropped.

`SvgHandoverProofs` is about any users and number of uploads:

- `TypeCorrect`, `AnswersAreOwn`, `CommandsAreThere`. The invariant `Orderly` (while no two uploads
  have overlapped) has a part per question: which upload there is (`Alone`), which files are there
  when it gives the signal (`Written`), for whom the listener works (`Working`), what `gcodeDone` and
  the signal mean (`Ready`, `Signal`), and what the answer is (`Answered`). It is needed because the
  answer depends on files that were written several steps before.

`MotionProofs` is about any set of target coordinates within 2^23 steps of the origin, where
differences of `float` are exact:

- `TypeCorrect`, `MotorsAlwaysAgree`, `AlwaysOnTheLine`, `NeverOvershoots`. The inductive invariant
  ties the accumulator to the pulses: `over = i * minor - pulses * major` with `0 <= over < major`,
  so that after `major` turns exactly `minor` pulses were given (`AllPulsesGiven`). The last pulse of
  the shorter axis never comes after its target is reached (`NeverAhead`).

Every safety property of the runs that pass, and both refinements, are proved. Model-checked only:
the liveness properties (`EveryCommandRuns`, `SessionReleased`, `HandShakeCompletes`, `MovesEnd`,
`PagesAgreeInTheEnd`, `LinesReturned`, `AnsweredUnlessLost`, `ShownInTheEnd`), since fairness and
ENABLED are out of the prover's reach; and the four violations, which are counterexamples.

## Not modelled

- A redeploy with the old thread alive: the container loads the classes a second time, and the new
  thread never starts because the port is taken. It would need two sets of the static fields.
- Floating point: the rounding of `getNumberOfSteps`, and the wrap-around of a delay of 0.
- `properties` of `Controller.java`, loaded by the first GET and used by POST (line 111).
- The page's preview, editor and settings, scale and speed on the remotes: local to the device.
- The G-code generator (a third-party extension: sequential geometry), vendor libraries, build
  output, layout, logging. They are most of the repository's lines.

## Plan

Done: 1. types, line and the three components; 2. `CncLink` with its invariants and liveness;
3. `CommandWindow` and the refinement; 4. `CncFaults` with failing writes; 5. `Motion`; 6. the push
and the page; 7. the ring; 8. the hand-over; 9. the remotes; 10. proofs of 2, 3, 5, 7 and 8; 11. proofs of 4, 6 and 9, and of
what ends the serial thread; 12. several connections per client, and the lines the drain leaves, in
front of pages and remotes.

Next, in this order:

1. The ring as an implementation of a bounded queue, stated as a refinement and proved from `RInv`.
2. `Serving` as an abstraction of `CncLink` after the handshake, so that what is proved of pages and
   remotes carries over to the machine in its stages.
3. `getNumberOfSteps` with a significand of 24 bits and `delay` in 32 bits, as bounded checks.
4. Start-up with a busy port.
