--------------------------- MODULE RemoteCommands ---------------------------
(* Commands from outside the game: the console, remote access connections     *)
(* (one thread each) and the SOAP thread queue them for the world thread,      *)
(* which runs them at the end of World::Update and hands output and end back   *)
(* through the callbacks of CliCommandHolder; and the way the server stops.    *)
(* The k-th line that the n-th command of a client prints is [n, line |-> k].  *)
(* A command of a connection knows its RASocket by the address alone.          *)
EXTENDS Naturals, Sequences, FiniteSets, Functions

CONSTANTS
    RaClient,       \* remote access connections
    Stalled,        \* those of them whose client may stop reading, and stay
    Address,        \* where an RASocket may be allocated
    Soap, Console,  \* the SOAP thread, the console thread
    QueueBlocks,    \* the blocks of output that fill the queue of an RASocket
    MaxOutput,      \* bound: lines that a command prints
    MaxCommands     \* bound: how many commands each source gives

Source == RaClient \union {Soap, Console}
Nowhere == 0

ASSUME RemoteAssumption ==
    /\ Soap # Console /\ {Soap, Console} \intersect RaClient = {}
    /\ "nobody" \notin Source
    /\ Stalled \subseteq RaClient
    /\ Nowhere \notin Address
    /\ QueueBlocks \in Nat \ {0}
    /\ MaxOutput \in Nat /\ MaxCommands \in [Source -> Nat]

Break == [n |-> 0, line |-> 0]      \* the block of type MB_BREAK
NoCommand == [from |-> "nobody", n |-> 0]

VARIABLES
    m_stopEvent,
    cliCmdQueue,
    world,          \* where the world thread is
    command,        \* the one it processes
    printed,        \* how many lines that has printed
    asked,          \* how many commands each source has queued
    ra,             \* where each RASocket is
    address,        \* of each RASocket
    raQueue,        \* its message queue
    received,       \* history: the lines its client has got for the command
    mixed,          \* history: the RASockets that got a block of another's command
    soap,           \* where the SOAP thread is
    connection,     \* its SOAPCommand, new for each request: output, success, semaphore
    crashed         \* the server went down, or hangs, over a deleted RASocket

raVars == <<ra, address, raQueue, received, mixed>>
soapVars == <<soap, connection>>
worldVars == <<world, command, printed>>
vars == <<m_stopEvent, cliCmdQueue, worldVars, asked, raVars, soapVars, crashed>>

NewConnection == [m_printBuffer |-> <<>>, m_success |-> "unset", pendingCommands |-> 0]

Init ==
    /\ m_stopEvent = FALSE
    /\ cliCmdQueue = <<>>
    /\ world = "tick" /\ command = NoCommand /\ printed = 0
    /\ asked = [s \in Source |-> 0]
    /\ ra = [c \in RaClient |-> "none"]
    /\ address = [c \in RaClient |-> Nowhere]
    /\ raQueue = [c \in RaClient |-> <<>>]
    /\ received = [c \in RaClient |-> <<>>]
    /\ mixed = {}
    /\ soap = "accept" /\ connection = NewConnection
    /\ crashed = FALSE

Running == ~crashed /\ world # "halted"

-----------------------------------------------------------------------------
QueueCliCommand(s) ==
    /\ asked[s] < MaxCommands[s]
    /\ asked' = [asked EXCEPT ![s] = @ + 1]
    /\ cliCmdQueue' = Append(cliCmdQueue, [from |-> s, n |-> asked[s] + 1])

(* CliRunnable::run: a line of the console is queued, its end stops the server. *)
ConsoleCommand ==
    /\ Running /\ ~m_stopEvent
    /\ QueueCliCommand(Console)
    /\ UNCHANGED <<m_stopEvent, worldVars, raVars, soapVars, crashed>>

(* StopNow: the end of the console, a signal, a shutdown that is due, and the  *)
(* shutdown command among the commands.                                        *)
StopNow ==
    /\ Running /\ ~m_stopEvent
    /\ m_stopEvent' = TRUE
    /\ UNCHANGED <<cliCmdQueue, worldVars, asked, raVars, soapVars, crashed>>

(* The connections whose RASocket is allocated, and the one at an address.     *)
Live(c) == ra[c] \in {"login", "prompt", "waiting"}
At(a) == {c \in RaClient : Live(c) /\ address[c] = a}

RaStep(c, from, to) == Running /\ ra[c] = from /\ ra' = [ra EXCEPT ![c] = to]
RaOthers == <<m_stopEvent, cliCmdQueue, worldVars, asked, soapVars, crashed, mixed>>

(* A new RASocket comes to lie where none is, and where one may have been. *)
Accept(c) ==
    /\ RaStep(c, "none", "login")
    /\ \E a \in Address : At(a) = {} /\ address' = [address EXCEPT ![c] = a]
    /\ UNCHANGED <<RaOthers, raQueue, received>>

(* RASocket::svc, the thread of a connection. It ends, and deletes the socket  *)
(* with its queue, when the login is refused and whenever a recv or a send     *)
(* fails.                                                                      *)
RaEnds(c, from) ==
    /\ RaStep(c, from, "deleted")
    /\ raQueue' = [raQueue EXCEPT ![c] = <<>>]
    /\ received' = [received EXCEPT ![c] = <<>>]
    /\ UNCHANGED <<RaOthers, address>>

Authenticate(c) ==
    \/ RaStep(c, "login", "prompt") /\ UNCHANGED <<RaOthers, address, raQueue, received>>
    \/ RaEnds(c, "login")

RaCommand(c) ==
    /\ RaStep(c, "prompt", "waiting")
    /\ QueueCliCommand(c)
    /\ UNCHANGED <<m_stopEvent, worldVars, address, raQueue, received, mixed, soapVars, crashed>>

(* quit, or a client that has gone. *)
RaQuit(c) == RaEnds(c, "prompt")

(* process_command: a block of output is sent, and only the end of the command *)
(* ends the wait. Faulty variant, for the sensitivity of the checks, as are    *)
(* the other operators named Mutant...: an empty queue ends it.                *)
MutantAnswered(c) == ~(raQueue[c] # <<>> /\ Head(raQueue[c]) # Break)
Answered(c) == raQueue[c] # <<>> /\ Head(raQueue[c]) = Break

RaSend(c) ==
    /\ RaStep(c, "waiting", "waiting")
    /\ raQueue[c] # <<>> /\ ~Answered(c)
    /\ received' = [received EXCEPT ![c] = Append(@, Head(raQueue[c]))]
    /\ raQueue' = [raQueue EXCEPT ![c] = Tail(@)]
    /\ UNCHANGED <<RaOthers, address>>

(* The client has gone while its command is queued or runs. *)
RaSendFails(c) ==
    /\ raQueue[c] # <<>> /\ ~Answered(c)
    /\ RaEnds(c, "waiting")

RaAnswered(c) ==
    /\ RaStep(c, "waiting", "prompt")
    /\ Answered(c)
    /\ raQueue' = [raQueue EXCEPT ![c] = IF @ = <<>> THEN @ ELSE Tail(@)]
    /\ received' = [received EXCEPT ![c] = <<>>]
    /\ UNCHANGED <<RaOthers, address>>

(* TCSoapRunnable::run and ns1__executeCommand, one request at a time; the     *)
(* SOAPCommand is on the stack of the thread.                                  *)
SoapRequest ==
    /\ Running /\ soap = "accept" /\ ~m_stopEvent
    /\ soap' = "acquire"
    /\ QueueCliCommand(Soap)
    /\ UNCHANGED <<m_stopEvent, worldVars, raVars, connection, crashed>>

(* The semaphore is acquired with a timeout. *)
MutantImpatient ==
    /\ Running /\ soap = "acquire"
    /\ soap' = "accept"
    /\ connection' = NewConnection
    /\ UNCHANGED <<m_stopEvent, cliCmdQueue, worldVars, asked, raVars, crashed>>
SoapAnswered ==
    /\ Running /\ soap = "acquire" /\ connection.pendingCommands > 0
    /\ soap' = "accept"
    /\ connection' = NewConnection
    /\ UNCHANGED <<m_stopEvent, cliCmdQueue, worldVars, asked, raVars, crashed>>

(* The thread does not look at the stop. *)
MutantSoapStays == Running /\ soap = "accept" /\ UNCHANGED vars
SoapEnds ==
    /\ Running /\ soap = "accept" /\ m_stopEvent
    /\ soap' = "ended"
    /\ UNCHANGED <<m_stopEvent, cliCmdQueue, worldVars, asked, raVars, connection, crashed>>

-----------------------------------------------------------------------------
(* The world thread: WorldRunnable::run around World::Update, at whose end is  *)
(* ProcessCliCommands.                                                         *)
WorldStep(from, to) == Running /\ world = from /\ world' = to

ProcessCliCommands ==
    /\ WorldStep("tick", "process")
    /\ ~m_stopEvent
    /\ UNCHANGED <<m_stopEvent, cliCmdQueue, command, printed, asked, raVars, soapVars, crashed>>

NextCommand ==
    /\ WorldStep("process", "parse")
    /\ cliCmdQueue # <<>>
    /\ command' = Head(cliCmdQueue)
    /\ cliCmdQueue' = Tail(cliCmdQueue)
    /\ printed' = 0
    /\ UNCHANGED <<m_stopEvent, asked, raVars, soapVars, crashed>>

UpdateEnds ==
    /\ WorldStep("process", "tick")
    /\ cliCmdQueue = <<>>
    /\ UNCHANGED <<m_stopEvent, cliCmdQueue, command, printed, asked, raVars, soapVars, crashed>>

(* putq. A full queue refuses, or lets wait; a break has no length.            *)
IsFull(c) == Cardinality({k \in DOMAIN raQueue[c] : raQueue[c][k] # Break}) >= QueueBlocks
PutOutput(c, block) ==
    raQueue' = IF IsFull(c) THEN raQueue ELSE [raQueue EXCEPT ![c] = Append(@, block)]

(* The end of the command gives up too when the queue is full. *)
MutantPutBreak(c) == PutOutput(c, Break)
PutBreak(c) ==
    /\ ~IsFull(c)
    /\ raQueue' = [raQueue EXCEPT ![c] = Append(@, Break)]

(* The callback of a connection's command uses the RASocket at the address,    *)
(* its own or one that was accepted since. In memory that is free the putq     *)
(* does nothing, or brings the server down, or never returns.                  *)
PutToDeleted(c) ==
    /\ At(address[c]) = {}
    /\ crashed' \in BOOLEAN
    /\ UNCHANGED <<raQueue, mixed>>
Reaches(c, d) ==
    /\ mixed' = IF d = c THEN mixed ELSE mixed \union {d}
    /\ UNCHANGED crashed

(* zprint, the callback of each source, with one line. *)
ZPrint ==
    /\ WorldStep("parse", "parse")
    /\ printed < MaxOutput
    /\ printed' = printed + 1
    /\ LET src == command.from
           text == [n |-> command.n, line |-> printed + 1]
       IN  \/ /\ src = Console
              /\ UNCHANGED <<raQueue, mixed, connection, crashed>>
           \/ /\ src = Soap
              /\ connection' = [connection EXCEPT !.m_printBuffer = Append(@, text)]
              /\ UNCHANGED <<raQueue, mixed, crashed>>
           \/ /\ src \in RaClient
              /\ \/ PutToDeleted(src)
                 \/ \E d \in At(address[src]) : PutOutput(d, text) /\ Reaches(src, d)
              /\ UNCHANGED connection
    /\ UNCHANGED <<m_stopEvent, cliCmdQueue, command, asked, ra, address, received, soap>>

ParseEnds ==
    /\ WorldStep("parse", "finish")
    /\ UNCHANGED <<m_stopEvent, cliCmdQueue, command, printed, asked, raVars, soapVars, crashed>>

Done == command' = NoCommand /\ printed' = 0

(* commandFinished. *)
ConsoleFinished ==
    /\ command.from = Console
    /\ WorldStep("finish", "process")
    /\ Done
    /\ UNCHANGED <<m_stopEvent, cliCmdQueue, asked, raVars, soapVars, crashed>>

RaFinished ==
    /\ command.from \in RaClient
    /\ WorldStep("finish", "process")
    /\ Done
    /\ \/ PutToDeleted(command.from)
       \/ \E d \in At(address[command.from]) : PutBreak(d) /\ Reaches(command.from, d)
    /\ UNCHANGED <<m_stopEvent, cliCmdQueue, asked, ra, address, received, soapVars>>

(* For SOAP: success first, then the release of the thread that waits. *)
MutantReleaseFirst ==
    /\ command.from = Soap
    /\ WorldStep("finish", "release")
    /\ connection' = [connection EXCEPT !.pendingCommands = 1]
    /\ UNCHANGED <<m_stopEvent, cliCmdQueue, command, printed, asked, raVars, soap, crashed>>
SetCommandSuccess ==
    /\ command.from = Soap
    /\ WorldStep("finish", "release")
    /\ \E success \in {"ok", "fault"} :
          connection' = [connection EXCEPT !.m_success = success]
    /\ UNCHANGED <<m_stopEvent, cliCmdQueue, command, printed, asked, raVars, soap, crashed>>

Release ==
    /\ WorldStep("release", "process")
    /\ connection' = [connection EXCEPT !.pendingCommands = @ + 1]
    /\ Done
    /\ UNCHANGED <<m_stopEvent, cliCmdQueue, asked, raVars, soap, crashed>>

(* Out of the loop; the commands that are queued now are never run. *)
WorldEnds ==
    /\ WorldStep("tick", "ended")
    /\ m_stopEvent
    /\ UNCHANGED <<m_stopEvent, cliCmdQueue, command, printed, asked, raVars, soapVars, crashed>>

(* Master::Run has waited for the SOAP thread and the world thread; the        *)
(* destructor of World deletes the commands.                                   *)
Halt ==
    /\ WorldStep("ended", "halted")
    /\ soap = "ended"
    /\ cliCmdQueue' = <<>>
    /\ UNCHANGED <<m_stopEvent, command, printed, asked, raVars, soapVars, crashed>>

RaThread(c) ==
    Accept(c) \/ Authenticate(c) \/ RaCommand(c) \/ RaQuit(c)
      \/ RaSend(c) \/ RaSendFails(c) \/ RaAnswered(c)
SoapThread == SoapRequest \/ SoapAnswered \/ SoapEnds
WorldThread ==
    ProcessCliCommands \/ NextCommand \/ UpdateEnds \/ ZPrint \/ ParseEnds
      \/ ConsoleFinished \/ RaFinished \/ SetCommandSuccess \/ Release \/ WorldEnds

Next ==
    \/ ConsoleCommand
    \/ StopNow
    \/ \E c \in RaClient : RaThread(c)
    \/ SoapThread
    \/ WorldThread
    \/ Halt

Spec == Init /\ [][Next]_vars

(* Every thread runs. A client that is sent something takes it or goes away,   *)
(* but for those that may stop reading: the send has no timeout. No client has *)
(* to ask for anything.                                                        *)
FairSpec ==
    /\ Spec
    /\ WF_vars(WorldThread) /\ WF_vars(Halt)
    /\ WF_vars(SoapAnswered \/ SoapEnds)
    /\ \A c \in RaClient \ Stalled : WF_vars(RaSend(c) \/ RaSendFails(c) \/ RaAnswered(c))
    /\ \A c \in Stalled : WF_vars(RaAnswered(c))

-----------------------------------------------------------------------------
Command == UNION {[from : {s}, n : 1..MaxCommands[s]] : s \in Source}
LineOf(s) == [n : 1..MaxCommands[s], line : 1..MaxOutput]

(* Every variable has its type. *)
TypeOK ==
    /\ m_stopEvent \in BOOLEAN /\ crashed \in BOOLEAN
    /\ \A k \in DOMAIN cliCmdQueue : cliCmdQueue[k] \in Command
    /\ world \in {"tick", "process", "parse", "finish", "release", "ended", "halted"}
    /\ command \in Command \union {NoCommand}
    /\ printed \in 0..MaxOutput
    /\ mixed \subseteq RaClient
    /\ \A c \in RaClient :
          /\ ra[c] \in {"none", "login", "prompt", "waiting", "deleted"}
          /\ address[c] \in Address \union {Nowhere}
          /\ Range(raQueue[c]) \subseteq
                {Break} \union UNION {LineOf(s) : s \in IF c \in mixed THEN RaClient ELSE {c}}
    /\ soap \in {"accept", "acquire", "ended"}
    /\ connection.pendingCommands \in 0..1
    /\ Range(connection.m_printBuffer) \subseteq LineOf(Soap)

(* A command of s is queued or runs. *)
Under(s) == command.from = s \/ \E k \in DOMAIN cliCmdQueue : cliCmdQueue[k].from = s

(* What is still to be sent to the client: lines, with a break behind them     *)
(* when the command has ended.                                                 *)
Unsent(c) ==
    LET q == raQueue[c]
    IN  IF q # <<>> /\ q[Len(q)] = Break THEN SubSeq(q, 1, Len(q) - 1) ELSE q

(* No two connections share an RASocket; and as long as no command of another, *)
(* deleted one has used it, what a client gets is output of the command it     *)
(* waits for, in the order it was printed, though parts of it may have been    *)
(* refused by a full queue. When such a connection asks for the next command,  *)
(* nothing of the last is queued, runs, or is still to be sent.                *)
AnswersInOrder ==
    /\ TypeOK
    /\ \A c, d \in RaClient : Live(c) /\ Live(d) /\ address[c] = address[d] => c = d
    /\ \A c \in RaClient \ mixed :
          LET lines == received[c] \o Unsent(c)
          IN  /\ \A k \in DOMAIN lines : lines[k].n = asked[c]
              /\ \A j, k \in DOMAIN lines : j < k => lines[j].line < lines[k].line
              /\ ra[c] = "prompt" /\ world # "halted" => ~Under(c) /\ raQueue[c] = <<>>

(* The world thread uses the SOAPCommand only while the thread whose stack it  *)
(* is on waits for that command.                                               *)
SoapCommandAlive ==
    Under(Soap) /\ world # "halted" =>
        soap = "acquire" /\ (command.from = Soap => command.n = asked[Soap])

(* A SOAP request is answered with all the output of its command and with its  *)
(* success, never before both are there.                                       *)
SoapAnswersAll ==
    [][soap = "acquire" /\ soap' # "acquire" =>
          /\ connection.m_success # "unset"
          /\ ~Under(Soap)
          /\ \A k \in DOMAIN connection.m_printBuffer :
                connection.m_printBuffer[k] = [n |-> asked[Soap], line |-> k]]_soapVars

(* The world thread, in commandFinished, waits for room in the queue of d, *)
(* though its comment says that the block of the end "shouldn't block".    *)
WaitsFor(d) ==
    world = "finish" /\ command.from \in RaClient /\ d \in At(address[command.from]) /\ IsFull(d)

(* It may wait for good: the client of d does not read, or d itself does not   *)
(* take anything from its queue, which is full of lines that were not for it.  *)
Held == \E d \in RaClient : WaitsFor(d) /\ (d \in Stalled \/ ra[d] # "waiting")

(* A client that reads, and waits for its command, gets the end of it, unless  *)
(* the server stops or its world thread is held; also when the output filled   *)
(* the queue.                                                                  *)
CommandsEnd ==
    \A c \in RaClient \ Stalled :
        ra[c] = "waiting" ~> (ra[c] # "waiting" \/ m_stopEvent \/ crashed \/ Held)

(* The server that is told to stop ends, however clients and commands stand,   *)
(* unless the SOAP thread waits for a command that nobody will run any more,   *)
(* or a connection that takes nothing from its queue holds the world thread.   *)
StopEnds ==
    m_stopEvent ~> [](\/ world = "halted" \/ crashed
                      \/ world = "ended" /\ soap = "acquire" /\ Under(Soap)
                      \/ Held)
=============================================================================
