------------------------ MODULE RemoteCommands_proofs ------------------------
(* Theorems about RemoteCommands.tla, for any connections, bounds and queues.  *)
EXTENDS RemoteCommands, SequenceTheorems, TLAPS

AnyCommand == [from : Source, n : Nat]
AnyLine == [n : Nat, line : Nat]
SoapCommand == [m_printBuffer : Seq(AnyLine), m_success : {"unset", "ok", "fault"},
                pendingCommands : Nat]

(* The types of what the SOAP thread and the world thread share. *)
Typed ==
    /\ cliCmdQueue \in Seq(AnyCommand)
    /\ command \in AnyCommand \union {NoCommand}
    /\ world \in {"tick", "process", "parse", "finish", "release", "ended", "halted"}
    /\ printed \in Nat
    /\ asked \in [Source -> Nat]
    /\ soap \in {"accept", "acquire", "ended"}
    /\ connection \in SoapCommand

(* The world thread has a command while it runs one. *)
HasCommand ==
    /\ world \in {"tick", "process", "ended", "halted"} => command = NoCommand
    /\ world = "release" => command.from = Soap

SoapQueued == {k \in DOMAIN cliCmdQueue : cliCmdQueue[k].from = Soap}

(* There is one SOAP command at most, the last that was asked, and while it is *)
(* queued or runs its thread waits for it with a SOAPCommand not yet released. *)
OneSoapCommand ==
    /\ \A k \in SoapQueued : cliCmdQueue[k].n = asked[Soap] /\ command.from # Soap
    /\ \A j, k \in SoapQueued : j = k
    /\ command.from = Soap => command.n = asked[Soap]
    /\ Under(Soap) => soap = "acquire" /\ connection.pendingCommands = 0

(* The SOAPCommand holds what the command has printed; success comes before    *)
(* the release.                                                                *)
SoapOutput ==
    /\ SoapQueued # {} => connection = NewConnection
    /\ soap # "acquire" => connection = NewConnection
    /\ command.from = Soap => Len(connection.m_printBuffer) = printed
    /\ world = "release" \/ connection.pendingCommands > 0 => connection.m_success # "unset"
    /\ \A k \in DOMAIN connection.m_printBuffer :
          connection.m_printBuffer[k] = [n |-> asked[Soap], line |-> k]

IInv == Typed /\ HasCommand /\ OneSoapCommand /\ SoapOutput

-----------------------------------------------------------------------------
(* What the invariant is for: a SOAPCommand is used while it is there.         *)
LEMMA InvAlive == IInv => SoapCommandAlive
BY DEF IInv, OneSoapCommand, SoapCommandAlive

(* The invariant holds at the beginning, when nothing is asked.                *)
LEMMA InitInv == Init => IInv
<1> SUFFICES ASSUME Init PROVE IInv
    OBVIOUS
<1>1. SoapQueued = {}
    BY DEF Init, SoapQueued
<1>2. Typed
    BY EmptySeq DEF Init, Typed, NewConnection, SoapCommand
<1>3. command.from # Soap
    BY RemoteAssumption DEF Init, NoCommand, Source
<1> QED
    BY <1>1, <1>2, <1>3 DEF Init, IInv, HasCommand, OneSoapCommand, SoapOutput, Under,
                            SoapQueued, NewConnection

-----------------------------------------------------------------------------
(* A source queues a command: only the SOAP thread adds a SOAP command.        *)
LEMMA QueueGrows ==
    ASSUME Typed, NEW s \in Source, QueueCliCommand(s)
    PROVE  /\ cliCmdQueue' \in Seq(AnyCommand) /\ asked' \in [Source -> Nat]
           /\ \A k \in SoapQueued' : k \in SoapQueued \/ (s = Soap /\ k = Len(cliCmdQueue) + 1)
           /\ \A k \in SoapQueued : cliCmdQueue'[k] = cliCmdQueue[k]
           /\ cliCmdQueue'[Len(cliCmdQueue) + 1] = [from |-> s, n |-> asked'[s]]
           /\ s # Soap => asked'[Soap] = asked[Soap]
<1> DEFINE new == [from |-> s, n |-> asked[s] + 1]
           last == Len(cliCmdQueue) + 1
<1>1. /\ asked \in [Source -> Nat] /\ asked' = [asked EXCEPT ![s] = @ + 1]
      /\ cliCmdQueue \in Seq(AnyCommand) /\ cliCmdQueue' = Append(cliCmdQueue, new)
    BY DEF Typed, QueueCliCommand
<1>2. asked' \in [Source -> Nat] /\ asked'[s] = asked[s] + 1
    BY <1>1
<1>3. new \in AnyCommand
    BY <1>1 DEF AnyCommand
<1> HIDE DEF new
<1>4. /\ cliCmdQueue' \in Seq(AnyCommand)
      /\ Len(cliCmdQueue') = Len(cliCmdQueue) + 1
      /\ \A k \in 1..Len(cliCmdQueue) : cliCmdQueue'[k] = cliCmdQueue[k]
      /\ cliCmdQueue'[last] = new
    BY <1>1, <1>3, AppendProperties
<1>5. /\ Len(cliCmdQueue) \in Nat /\ DOMAIN cliCmdQueue = 1..Len(cliCmdQueue)
      /\ DOMAIN cliCmdQueue' = 1..(Len(cliCmdQueue) + 1)
    BY <1>1, <1>4, LenProperties
<1>6. ASSUME NEW k, k \in SoapQueued' PROVE k \in SoapQueued \/ (s = Soap /\ k = last)
    <2>1. CASE k = last
        BY <1>4, <1>6, <2>1 DEF SoapQueued, new
    <2>2. CASE k # last
        BY <1>4, <1>5, <1>6, <2>2 DEF SoapQueued
    <2> QED
        BY <2>1, <2>2
<1>7. \A k \in SoapQueued : cliCmdQueue'[k] = cliCmdQueue[k]
    BY <1>4, <1>5 DEF SoapQueued
<1>8. s # Soap => asked'[Soap] = asked[Soap]
    BY <1>1
<1> QED
    BY <1>2, <1>4, <1>6, <1>7, <1>8 DEF new

(* The world thread takes the first command.                                   *)
LEMMA QueueShrinks ==
    ASSUME Typed, cliCmdQueue # <<>>, cliCmdQueue' = Tail(cliCmdQueue)
    PROVE  /\ cliCmdQueue' \in Seq(AnyCommand)
           /\ Head(cliCmdQueue) \in AnyCommand
           /\ Head(cliCmdQueue).from = Soap => 1 \in SoapQueued
           /\ Head(cliCmdQueue) = cliCmdQueue[1]
           /\ \A k \in SoapQueued' : /\ k + 1 \in SoapQueued /\ k \in Nat \ {0}
                                   /\ cliCmdQueue'[k] = cliCmdQueue[k + 1]
<1>1. cliCmdQueue \in Seq(AnyCommand)
    BY DEF Typed
<1>2. /\ Head(cliCmdQueue) \in AnyCommand
      /\ cliCmdQueue' \in Seq(AnyCommand)
      /\ Len(cliCmdQueue') = Len(cliCmdQueue) - 1
      /\ \A k \in 1..Len(cliCmdQueue') : cliCmdQueue'[k] = cliCmdQueue[k + 1]
    BY <1>1, HeadTailProperties
<1>3. /\ Len(cliCmdQueue) \in Nat \ {0} /\ DOMAIN cliCmdQueue = 1..Len(cliCmdQueue)
      /\ DOMAIN cliCmdQueue' = 1..(Len(cliCmdQueue) - 1)
    BY <1>1, <1>2, LenProperties, EmptySeq
<1>4. Head(cliCmdQueue) = cliCmdQueue[1]
    BY <1>1
<1> QED
    BY <1>2, <1>3, <1>4 DEF SoapQueued

(* Steps of others, which leave the commands and the SOAP thread as they are.  *)
LEMMA OthersStep ==
    ASSUME IInv, UNCHANGED <<cliCmdQueue, command, printed, asked, soap, connection>>,
           \/ world' = world
           \/ /\ world \in {"tick", "process"} /\ world' \in {"tick", "process", "ended"}
           \/ /\ world = "parse" /\ world' = "finish"
    PROVE  IInv'
BY DEF IInv, Typed, HasCommand, OneSoapCommand, SoapOutput, SoapQueued, Under

(* A command of another source changes nothing for the SOAP thread.            *)
LEMMA OtherCommand ==
    ASSUME IInv, NEW s \in Source, s # Soap, QueueCliCommand(s),
           UNCHANGED <<worldVars, soapVars>>
    PROVE  IInv'
<1>1. UNCHANGED <<world, command, printed, soap, connection>>
    BY DEF worldVars, soapVars
<1>2. /\ cliCmdQueue' \in Seq(AnyCommand) /\ asked' \in [Source -> Nat]
      /\ \A k \in SoapQueued' : k \in SoapQueued /\ cliCmdQueue'[k] = cliCmdQueue[k]
      /\ asked'[Soap] = asked[Soap]
    BY QueueGrows DEF IInv
<1>3. Typed' /\ HasCommand'
    BY <1>1, <1>2 DEF IInv, Typed, HasCommand
<1>4. Under(Soap)' => Under(Soap)
    BY <1>1, <1>2 DEF Under, SoapQueued
<1>5. OneSoapCommand'
    BY <1>1, <1>2, <1>4 DEF IInv, OneSoapCommand
<1>6. SoapOutput'
    <2>1. SoapQueued' # {} => SoapQueued # {}
        BY <1>2
    <2> QED
        BY <1>1, <1>2, <2>1 DEF IInv, SoapOutput
<1> QED
    BY <1>3, <1>5, <1>6 DEF IInv

(* The SOAP thread asks when nothing of it is queued or runs.                  *)
LEMMA SoapAsks == ASSUME IInv, SoapRequest PROVE IInv'
<1>1. /\ soap = "accept" /\ soap' = "acquire"
      /\ QueueCliCommand(Soap) /\ Soap \in Source
      /\ UNCHANGED <<world, command, printed, connection>>
    BY DEF SoapRequest, worldVars, Source
<1>2. ~Under(Soap) /\ connection = NewConnection
    BY <1>1 DEF IInv, OneSoapCommand, SoapOutput
<1>3. SoapQueued = {}
    BY <1>2 DEF SoapQueued, Under
<1>4. /\ cliCmdQueue' \in Seq(AnyCommand) /\ asked' \in [Source -> Nat]
      /\ \A k \in SoapQueued' : k = Len(cliCmdQueue) + 1
      /\ cliCmdQueue'[Len(cliCmdQueue) + 1].n = asked'[Soap]
    <2>1. /\ cliCmdQueue' \in Seq(AnyCommand) /\ asked' \in [Source -> Nat]
          /\ \A k \in SoapQueued' : k = Len(cliCmdQueue) + 1
          /\ cliCmdQueue'[Len(cliCmdQueue) + 1] = [from |-> Soap, n |-> asked'[Soap]]
        BY <1>1, <1>3, QueueGrows DEF IInv
    <2> QED
        BY <2>1
<1>5. command'.from # Soap
    BY <1>1, <1>2 DEF Under
<1>6. Typed' /\ HasCommand'
    BY <1>1, <1>4 DEF IInv, Typed, HasCommand
<1>7. OneSoapCommand'
    BY <1>1, <1>2, <1>4, <1>5 DEF OneSoapCommand, NewConnection
<1>8. SoapOutput'
    BY <1>1, <1>2, <1>5 DEF IInv, SoapOutput, NewConnection
<1> QED
    BY <1>6, <1>7, <1>8 DEF IInv

(* It is answered when its command has been released, and gone.                *)
LEMMA SoapGetsAnswer ==
    ASSUME IInv, SoapAnswered
    PROVE  /\ IInv'
           /\ connection.m_success # "unset" /\ ~Under(Soap)
<1>1. /\ connection.pendingCommands > 0 /\ connection' = NewConnection /\ soap' = "accept"
      /\ UNCHANGED <<cliCmdQueue, world, command, printed, asked>>
    BY DEF SoapAnswered, worldVars
<1>2. ~Under(Soap) /\ connection.m_success # "unset"
    BY <1>1 DEF IInv, OneSoapCommand, SoapOutput
<1>3. SoapQueued = {} /\ command.from # Soap
    BY <1>2 DEF SoapQueued, Under
<1>4. SoapQueued' = {} /\ ~Under(Soap)' /\ world # "release"
    BY <1>1, <1>2, <1>3 DEF SoapQueued, Under, IInv, HasCommand
<1>5. Typed' /\ HasCommand'
    BY <1>1, EmptySeq DEF IInv, Typed, HasCommand, NewConnection, SoapCommand
<1>6. OneSoapCommand' /\ SoapOutput'
    BY <1>1, <1>3, <1>4 DEF OneSoapCommand, SoapOutput, NewConnection
<1> QED
    BY <1>2, <1>5, <1>6 DEF IInv

(* The thread ends between two requests.                                       *)
LEMMA SoapEndsStep == ASSUME IInv, SoapEnds PROVE IInv'
<1>1. /\ soap = "accept" /\ soap' = "ended"
      /\ UNCHANGED <<cliCmdQueue, world, command, printed, asked, connection>>
    BY DEF SoapEnds, worldVars
<1> QED
    BY <1>1 DEF IInv, Typed, HasCommand, OneSoapCommand, SoapOutput, SoapQueued, Under

(* A SOAP command that the world thread takes is the only one.                 *)
LEMMA NextCommandStep == ASSUME IInv, NextCommand PROVE IInv'
<1>1. /\ world = "process" /\ world' = "parse" /\ cliCmdQueue # <<>>
      /\ command' = Head(cliCmdQueue) /\ cliCmdQueue' = Tail(cliCmdQueue) /\ printed' = 0
      /\ UNCHANGED <<asked, soap, connection>>
    BY DEF NextCommand, WorldStep, soapVars
<1>2. /\ cliCmdQueue' \in Seq(AnyCommand) /\ command' \in AnyCommand
      /\ command'.from = Soap => 1 \in SoapQueued
      /\ command' = cliCmdQueue[1]
      /\ \A k \in SoapQueued' : /\ k + 1 \in SoapQueued /\ k \in Nat \ {0}
                              /\ cliCmdQueue'[k] = cliCmdQueue[k + 1]
    BY <1>1, QueueShrinks DEF IInv
<1>3. Typed' /\ HasCommand'
    BY <1>1, <1>2 DEF IInv, Typed, HasCommand
<1>4. Under(Soap)' => Under(Soap)
    BY <1>2 DEF Under, SoapQueued
<1>5. ASSUME NEW k, k \in SoapQueued'
      PROVE  cliCmdQueue'[k].n = asked'[Soap] /\ command'.from # Soap
    <2>1. /\ k + 1 \in SoapQueued /\ k \in Nat \ {0} /\ k + 1 # 1
          /\ cliCmdQueue'[k] = cliCmdQueue[k + 1]
        BY <1>2, <1>5
    <2> QED
        BY <1>1, <1>2, <2>1 DEF IInv, OneSoapCommand
<1>6. ASSUME NEW j, NEW k, j \in SoapQueued', k \in SoapQueued' PROVE j = k
    <2>1. j + 1 \in SoapQueued /\ k + 1 \in SoapQueued /\ j \in Nat /\ k \in Nat
        BY <1>2, <1>6
    <2>2. j + 1 = k + 1
        BY <2>1 DEF IInv, OneSoapCommand
    <2> QED
        BY <2>1, <2>2
<1>7. OneSoapCommand'
    BY <1>1, <1>2, <1>4, <1>5, <1>6 DEF IInv, OneSoapCommand
<1>8. SoapOutput'
    <2>1. SoapQueued' # {} => SoapQueued # {}
        BY <1>2
    <2>2. command'.from = Soap => connection' = NewConnection
        BY <1>1, <1>2 DEF IInv, SoapOutput
    <2> QED
        BY <1>1, <2>1, <2>2 DEF IInv, SoapOutput, NewConnection
<1> QED
    BY <1>3, <1>7, <1>8 DEF IInv

(* A line that a SOAP command prints is the next of its SOAPCommand.           *)
LEMMA ZPrintStep == ASSUME IInv, ZPrint PROVE IInv'
<1>1. /\ world = "parse" /\ world' = "parse" /\ printed' = printed + 1
      /\ UNCHANGED <<cliCmdQueue, command, asked, soap>>
    BY DEF ZPrint, WorldStep
<1>2. CASE command.from # Soap
    <2>1. UNCHANGED connection
        BY <1>2 DEF ZPrint
    <2> QED
        BY <1>1, <1>2, <2>1
        DEF IInv, Typed, HasCommand, OneSoapCommand, SoapOutput, SoapQueued, Under
<1>3. CASE command.from = Soap
    <2> DEFINE text == [n |-> command.n, line |-> printed + 1]
               buffer == connection.m_printBuffer
    <2>1. connection' = [connection EXCEPT !.m_printBuffer = Append(@, text)]
        BY <1>3, RemoteAssumption DEF ZPrint
    <2>2. command.n = asked[Soap] /\ Len(buffer) = printed
        BY <1>3 DEF IInv, OneSoapCommand, SoapOutput
    <2>3. buffer \in Seq(AnyLine) /\ text \in AnyLine
        <3>1. connection \in SoapCommand /\ printed \in Nat /\ asked[Soap] \in Nat
            BY DEF IInv, Typed, Source
        <3> QED
            BY <2>2, <3>1 DEF SoapCommand, AnyLine
    <2> HIDE DEF text
    <2>4. /\ Append(buffer, text) \in Seq(AnyLine)
          /\ Len(Append(buffer, text)) = printed + 1
          /\ \A k \in 1..printed : Append(buffer, text)[k] = buffer[k]
          /\ Append(buffer, text)[printed + 1] = text
        BY <2>2, <2>3, AppendProperties
    <2>5. /\ DOMAIN Append(buffer, text) = 1..(printed + 1)
          /\ DOMAIN buffer = 1..printed /\ printed \in Nat
        BY <2>2, <2>3, <2>4, LenProperties
    <2>6. connection' \in SoapCommand /\ connection'.m_printBuffer = Append(buffer, text)
          /\ connection'.m_success = connection.m_success
          /\ connection'.pendingCommands = connection.pendingCommands
        <3>1. connection \in SoapCommand
            BY DEF IInv, Typed
        <3> QED
            BY <2>1, <2>4, <3>1 DEF SoapCommand
    <2>7. Typed' /\ HasCommand'
        BY <1>1, <2>5, <2>6 DEF IInv, Typed, HasCommand
    <2>8. OneSoapCommand'
        BY <1>1, <2>6 DEF IInv, OneSoapCommand, SoapQueued, Under
    <2>9. Under(Soap) /\ soap = "acquire" /\ SoapQueued = {}
        BY <1>3 DEF IInv, OneSoapCommand, Under
    <2>10. \A k \in 1..(printed + 1) : Append(buffer, text)[k] = [n |-> asked[Soap], line |-> k]
        <3>1. \A k \in 1..printed : buffer[k] = [n |-> asked[Soap], line |-> k]
            BY <2>5 DEF IInv, SoapOutput
        <3>2. text = [n |-> asked[Soap], line |-> printed + 1]
            BY <2>2 DEF text
        <3> QED
            BY <2>4, <2>5, <3>1, <3>2
    <2>11. SoapOutput'
        BY <1>1, <2>4, <2>5, <2>6, <2>9, <2>10 DEF IInv, SoapOutput, SoapQueued
    <2> QED
        BY <2>7, <2>8, <2>11 DEF IInv
<1> QED
    BY <1>2, <1>3

(* The command of another source ends, or that of the SOAP thread has its      *)
(* success and then its release.                                               *)
LEMMA FinishStep ==
    ASSUME IInv, ConsoleFinished \/ RaFinished \/ SetCommandSuccess \/ Release
    PROVE  IInv'
<1>1. CASE ConsoleFinished \/ RaFinished
    <2>1. /\ command.from # Soap /\ command' = NoCommand /\ printed' = 0
          /\ world = "finish" /\ world' = "process"
          /\ UNCHANGED <<cliCmdQueue, asked, soap, connection>>
        BY <1>1, RemoteAssumption
        DEF ConsoleFinished, RaFinished, WorldStep, Done, soapVars
    <2>2. command'.from # Soap
        BY <2>1, RemoteAssumption DEF NoCommand, Source
    <2> QED
        BY <2>1, <2>2
        DEF IInv, Typed, HasCommand, OneSoapCommand, SoapOutput, SoapQueued, Under
<1>2. CASE SetCommandSuccess
    <2>1. /\ command.from = Soap /\ world = "finish" /\ world' = "release"
          /\ UNCHANGED <<cliCmdQueue, command, printed, asked, soap>>
        BY <1>2 DEF SetCommandSuccess, WorldStep
    <2>2. PICK success \in {"ok", "fault"} : connection' = [connection EXCEPT !.m_success = success]
        BY <1>2 DEF SetCommandSuccess
    <2>3. /\ connection' \in SoapCommand /\ connection'.m_success # "unset"
          /\ connection'.m_printBuffer = connection.m_printBuffer
          /\ connection'.pendingCommands = connection.pendingCommands
        <3>1. connection \in SoapCommand
            BY DEF IInv, Typed
        <3> QED
            BY <2>2, <3>1 DEF SoapCommand
    <2>4. Under(Soap) /\ soap = "acquire" /\ SoapQueued = {}
        BY <2>1 DEF IInv, OneSoapCommand, Under
    <2>5. Typed' /\ HasCommand'
        BY <2>1, <2>3 DEF IInv, Typed, HasCommand
    <2>6. OneSoapCommand'
        BY <2>1, <2>3, <2>4 DEF IInv, OneSoapCommand, SoapQueued, Under
    <2>7. SoapOutput'
        BY <2>1, <2>3, <2>4 DEF IInv, SoapOutput, SoapQueued
    <2> QED
        BY <2>5, <2>6, <2>7 DEF IInv
<1>3. CASE Release
    <2>1. /\ world = "release" /\ world' = "process" /\ command' = NoCommand /\ printed' = 0
          /\ connection' = [connection EXCEPT !.pendingCommands = @ + 1]
          /\ UNCHANGED <<cliCmdQueue, asked, soap>>
        BY <1>3 DEF Release, WorldStep, Done
    <2>2. /\ connection' \in SoapCommand
          /\ connection'.m_printBuffer = connection.m_printBuffer
          /\ connection'.m_success = connection.m_success
        <3>1. connection \in SoapCommand
            BY DEF IInv, Typed
        <3> QED
            BY <2>1, <3>1 DEF SoapCommand
    <2>3. /\ command.from = Soap /\ connection.m_success # "unset"
          /\ soap = "acquire" /\ SoapQueued = {}
        BY <2>1 DEF IInv, HasCommand, OneSoapCommand, SoapOutput, Under
    <2>4. command'.from # Soap
        BY <2>1, RemoteAssumption DEF NoCommand, Source
    <2>5. ~Under(Soap)'
        BY <2>1, <2>3, <2>4 DEF Under, SoapQueued
    <2>6. Typed' /\ HasCommand'
        BY <2>1, <2>2 DEF IInv, Typed, HasCommand
    <2>7. OneSoapCommand'
        BY <2>1, <2>3, <2>4, <2>5 DEF OneSoapCommand, SoapQueued
    <2>8. SoapOutput'
        BY <2>1, <2>2, <2>3, <2>4 DEF IInv, SoapOutput, SoapQueued
    <2> QED
        BY <2>6, <2>7, <2>8 DEF IInv
<1> QED
    BY <1>1, <1>2, <1>3

(* The commands that are left are deleted.                                     *)
LEMMA HaltStep == ASSUME IInv, Halt PROVE IInv'
<1>1. /\ world = "ended" /\ world' = "halted" /\ cliCmdQueue' = <<>>
      /\ UNCHANGED <<command, printed, asked, soap, connection>>
    BY DEF Halt, WorldStep, soapVars
<1>2. SoapQueued' = {}
    BY <1>1 DEF SoapQueued
<1>3. command.from # Soap
    BY <1>1, RemoteAssumption DEF IInv, HasCommand, NoCommand, Source
<1>4. Typed'
    BY <1>1, EmptySeq DEF IInv, Typed
<1> QED
    BY <1>1, <1>2, <1>3, <1>4
    DEF IInv, HasCommand, OneSoapCommand, SoapOutput, SoapQueued, Under

-----------------------------------------------------------------------------
(* Every step keeps the invariant. *)
LEMMA StepInv == IInv /\ [Next]_vars => IInv'
<1> SUFFICES ASSUME IInv, [Next]_vars PROVE IInv'
    OBVIOUS
<1>1. CASE UNCHANGED vars
    BY <1>1, OthersStep DEF vars, worldVars, soapVars
<1>2. CASE ConsoleCommand
    BY <1>2, OtherCommand, RemoteAssumption DEF ConsoleCommand, Source
<1>3. CASE StopNow
    BY <1>3, OthersStep DEF StopNow, worldVars, soapVars
<1>4. ASSUME NEW c \in RaClient, RaThread(c) PROVE IInv'
    <2>1. CASE RaCommand(c)
        <3>1. c \in Source /\ c # Soap
            BY RemoteAssumption DEF Source
        <3> QED
            BY <2>1, <3>1, OtherCommand DEF RaCommand
    <2>2. CASE ~RaCommand(c)
        BY <1>4, <2>2, OthersStep
        DEF RaThread, Accept, RaEnds, Authenticate, RaQuit, RaSend, RaSendFails, RaAnswered,
            RaOthers, worldVars, soapVars
    <2> QED
        BY <2>1, <2>2
<1>5. CASE SoapThread
    BY <1>5, SoapAsks, SoapGetsAnswer, SoapEndsStep DEF SoapThread
<1>6. CASE WorldThread
    <2>1. CASE ProcessCliCommands \/ UpdateEnds \/ ParseEnds \/ WorldEnds
        BY <2>1, OthersStep
        DEF ProcessCliCommands, UpdateEnds, ParseEnds, WorldEnds, WorldStep, soapVars
    <2> QED
        BY <1>6, <2>1, NextCommandStep, ZPrintStep, FinishStep DEF WorldThread
<1>7. CASE Halt
    BY <1>7, HaltStep
<1> QED
    BY <1>1, <1>2, <1>3, <1>4, <1>5, <1>6, <1>7 DEF Next

(* The SOAP thread stops waiting only when it is answered.                     *)
LEMMA AnswerStep ==
    ASSUME IInv, [Next]_vars, soap = "acquire", soap' # "acquire"
    PROVE  SoapAnswered
<1>1. ASSUME UNCHANGED soapVars PROVE FALSE
    BY <1>1 DEF soapVars
<1>2. ASSUME UNCHANGED soap PROVE FALSE
    BY <1>2
<1>3. ~UNCHANGED vars
    BY <1>1 DEF vars
<1>4. ~ConsoleCommand /\ ~StopNow /\ ~Halt
    BY <1>1 DEF ConsoleCommand, StopNow, Halt
<1>5. ASSUME NEW c \in RaClient PROVE ~RaThread(c)
    BY <1>1 DEF RaThread, Accept, RaEnds, Authenticate, RaCommand, RaQuit, RaSend, RaSendFails,
                RaAnswered, RaOthers
<1>6. ~SoapRequest /\ ~SoapEnds
    BY DEF SoapRequest, SoapEnds
<1>7. ~WorldThread
    BY <1>1, <1>2 DEF WorldThread, ProcessCliCommands, NextCommand, UpdateEnds, ZPrint, ParseEnds,
        ConsoleFinished, RaFinished, SetCommandSuccess, Release, WorldEnds
<1> QED
    BY <1>3, <1>4, <1>5, <1>6, <1>7 DEF Next, SoapThread

(* The invariant holds, for any sources, bounds and queues.                    *)
THEOREM Invariant == Spec => []IInv
BY InitInv, StepInv, PTL DEF Spec

(* The world thread uses a SOAPCommand only while the thread whose stack it is *)
(* on waits for that command.                                                  *)
THEOREM SoapCommandLives == Spec => []SoapCommandAlive
BY Invariant, InvAlive, PTL

(* A SOAP request is answered when its command has printed all its lines, in   *)
(* their order, and has its success.                                           *)
THEOREM SoapAnswerComplete == Spec => SoapAnswersAll
<1> DEFINE Complete ==
        soap = "acquire" /\ soap' # "acquire" =>
          /\ connection.m_success # "unset"
          /\ ~Under(Soap)
          /\ \A k \in DOMAIN connection.m_printBuffer :
                connection.m_printBuffer[k] = [n |-> asked[Soap], line |-> k]
<1>1. IInv /\ [Next]_vars => [Complete]_soapVars
    <2> SUFFICES ASSUME IInv, [Next]_vars, soap = "acquire", soap' # "acquire"
                 PROVE  /\ connection.m_success # "unset"
                        /\ ~Under(Soap)
                        /\ \A k \in DOMAIN connection.m_printBuffer :
                              connection.m_printBuffer[k] = [n |-> asked[Soap], line |-> k]
        OBVIOUS
    <2>1. connection.m_success # "unset" /\ ~Under(Soap)
        BY AnswerStep, SoapGetsAnswer
    <2>2. \A k \in DOMAIN connection.m_printBuffer :
             connection.m_printBuffer[k] = [n |-> asked[Soap], line |-> k]
        BY DEF IInv, SoapOutput
    <2> QED
        BY <2>1, <2>2
<1> HIDE DEF Complete
<1>2. Spec => [][Complete]_soapVars
    BY Invariant, <1>1, PTL DEF Spec
<1> QED
    BY <1>2 DEF SoapAnswersAll, Complete
-----------------------------------------------------------------------------
(* Remote access: what each connection has been sent and what is queued for it *)
(* is of the command it waits for, in the order of the lines, unless a block   *)
(* for a deleted connection came to it.                                        *)
QueuedBy(s) == {k \in DOMAIN cliCmdQueue : cliCmdQueue[k].from = s}

(* Bounds, and types that the SOAP thread does not need. *)
Bounded ==
    /\ m_stopEvent \in BOOLEAN /\ crashed \in BOOLEAN
    /\ \A s \in Source : asked[s] <= MaxCommands[s]
    /\ \A k \in DOMAIN cliCmdQueue :
          cliCmdQueue[k].n >= 1 /\ cliCmdQueue[k].n <= asked[cliCmdQueue[k].from]
    /\ command # NoCommand => command.n >= 1 /\ command.n <= asked[command.from]
    /\ printed <= MaxOutput
    /\ Len(connection.m_printBuffer) <= MaxOutput
    /\ soap = "acquire" => asked[Soap] >= 1
    /\ connection.pendingCommands <= 1

RaPlace == {"none", "login", "prompt", "waiting", "deleted"}

RaTyped ==
    /\ ra \in [RaClient -> RaPlace]
    /\ address \in [RaClient -> Address \union {Nowhere}]
    /\ raQueue \in [RaClient -> Seq(AnyLine)]
    /\ received \in [RaClient -> Seq(AnyLine)]
    /\ mixed \subseteq RaClient

(* An address is that of one live connection at most. *)
OneSocketEach == \A c, d \in RaClient : Live(c) /\ Live(d) /\ address[c] = address[d] => c = d

(* What a queue holds was printed for some connection, or ends its command. *)
RaBlock == {Break} \union UNION {LineOf(s) : s \in RaClient}
RaBlocks == \A c \in RaClient : \A k \in DOMAIN raQueue[c] : raQueue[c][k] \in RaBlock

(* A connection has one command at most under way, and waits for it, unless it *)
(* has given up.                                                               *)
OneCommand(c) ==
    /\ \A j, k \in QueuedBy(c) : j = k
    /\ \A k \in QueuedBy(c) : cliCmdQueue[k].n = asked[c] /\ command.from # c
    /\ QueuedBy(c) # {} => raQueue[c] = <<>> /\ received[c] = <<>>
    /\ command.from = c => command.n = asked[c]
    /\ Under(c) => ra[c] \in {"waiting", "deleted"}
    /\ ra[c] # "waiting" => raQueue[c] = <<>> /\ received[c] = <<>>

(* A line of the command that c asked last, no later than what is printed. *)
Printed(c, b) ==
    /\ b.n = asked[c] /\ b.n >= 1 /\ b.n <= MaxCommands[c]
    /\ b.line >= 1 /\ b.line <= MaxOutput
    /\ command.from = c => b.line <= printed

(* Lines, and after them at most one Break, when the command has ended. *)
InOrder(c) ==
    LET got == received[c]
        q == raQueue[c]
    IN  /\ \A k \in DOMAIN got : Printed(c, got[k])
        /\ \A k \in DOMAIN q : \/ q[k] = Break /\ k = Len(q) /\ ~Under(c)
                               \/ Printed(c, q[k])
        /\ \A j, k \in DOMAIN got : j < k => got[j].line < got[k].line
        /\ \A j, k \in DOMAIN q : j < k /\ q[k] # Break => q[j].line < q[k].line
        /\ \A j \in DOMAIN got, k \in DOMAIN q : q[k] # Break => got[j].line < q[k].line

RInv ==
    /\ Bounded /\ RaTyped /\ OneSocketEach /\ RaBlocks
    /\ \A c \in RaClient \ mixed : OneCommand(c) /\ InOrder(c)

(* What the commands of the other connections, and new ones, do to those of c. *)
LEMMA QueuedGrows ==
    ASSUME Typed, NEW s \in Source, QueueCliCommand(s), NEW c \in Source
    PROVE  /\ \A k \in DOMAIN cliCmdQueue' :
                 \/ k \in DOMAIN cliCmdQueue /\ cliCmdQueue'[k] = cliCmdQueue[k]
                 \/ k = Len(cliCmdQueue) + 1 /\ cliCmdQueue'[k] = [from |-> s, n |-> asked'[s]]
           /\ \A k \in QueuedBy(c)' : \/ k \in QueuedBy(c) /\ cliCmdQueue'[k] = cliCmdQueue[k]
                                      \/ /\ s = c /\ k = Len(cliCmdQueue) + 1
                                         /\ cliCmdQueue'[k] = [from |-> s, n |-> asked'[s]]
           /\ asked' \in [Source -> Nat] /\ asked[s] \in Nat /\ asked'[s] = asked[s] + 1
           /\ asked[s] < MaxCommands[s]
           /\ s # c => asked'[c] = asked[c]
<1> DEFINE new == [from |-> s, n |-> asked[s] + 1]
           last == Len(cliCmdQueue) + 1
<1>1. /\ asked \in [Source -> Nat] /\ asked' = [asked EXCEPT ![s] = @ + 1]
      /\ cliCmdQueue \in Seq(AnyCommand) /\ cliCmdQueue' = Append(cliCmdQueue, new)
    BY DEF Typed, QueueCliCommand
<1>2. /\ asked' \in [Source -> Nat] /\ asked[s] \in Nat /\ asked'[s] = asked[s] + 1
      /\ s # c => asked'[c] = asked[c]
    BY <1>1
<1>3. new \in AnyCommand /\ new.from = s /\ new = [from |-> s, n |-> asked'[s]]
    BY <1>1, <1>2 DEF AnyCommand
<1> HIDE DEF new
<1>4. /\ Len(cliCmdQueue') = Len(cliCmdQueue) + 1 /\ cliCmdQueue' \in Seq(AnyCommand)
      /\ \A k \in 1..Len(cliCmdQueue) : cliCmdQueue'[k] = cliCmdQueue[k]
      /\ cliCmdQueue'[last] = new
    BY <1>1, <1>3, AppendProperties
<1>5. /\ Len(cliCmdQueue) \in Nat /\ DOMAIN cliCmdQueue = 1..Len(cliCmdQueue)
      /\ DOMAIN cliCmdQueue' = 1..(Len(cliCmdQueue) + 1)
    BY <1>1, <1>4, LenProperties
<1>6. \A k \in DOMAIN cliCmdQueue' :
         \/ k \in DOMAIN cliCmdQueue /\ cliCmdQueue'[k] = cliCmdQueue[k]
         \/ k = last /\ cliCmdQueue'[k] = new
    BY <1>4, <1>5
<1>7. asked[s] < MaxCommands[s]
    BY DEF QueueCliCommand
<1>8. \A k \in QueuedBy(c)' : \/ k \in QueuedBy(c) /\ cliCmdQueue'[k] = cliCmdQueue[k]
                              \/ /\ s = c /\ k = last
                                 /\ cliCmdQueue'[k] = new
    BY <1>3, <1>6 DEF QueuedBy
<1> QED
    BY <1>2, <1>3, <1>6, <1>7, <1>8

(* What the first command's removal does to them. *)
LEMMA QueuedShrinks ==
    ASSUME Typed, cliCmdQueue # <<>>, cliCmdQueue' = Tail(cliCmdQueue), NEW c
    PROVE  /\ Head(cliCmdQueue) = cliCmdQueue[1] /\ 1 \in DOMAIN cliCmdQueue
           /\ Head(cliCmdQueue) \in AnyCommand
           /\ \A k \in DOMAIN cliCmdQueue' :
                 /\ k + 1 \in DOMAIN cliCmdQueue /\ k \in Nat \ {0}
                 /\ cliCmdQueue'[k] = cliCmdQueue[k + 1]
           /\ \A k \in QueuedBy(c)' : k + 1 \in QueuedBy(c) /\ k \in Nat \ {0}
           /\ Head(cliCmdQueue).from = c => 1 \in QueuedBy(c)
<1>1. cliCmdQueue \in Seq(AnyCommand)
    BY DEF Typed
<1>2. /\ Head(cliCmdQueue) \in AnyCommand
      /\ cliCmdQueue' \in Seq(AnyCommand)
      /\ Len(cliCmdQueue') = Len(cliCmdQueue) - 1
      /\ \A k \in 1..Len(cliCmdQueue') : cliCmdQueue'[k] = cliCmdQueue[k + 1]
    BY <1>1, HeadTailProperties
<1>3. /\ Len(cliCmdQueue) \in Nat \ {0} /\ DOMAIN cliCmdQueue = 1..Len(cliCmdQueue)
      /\ DOMAIN cliCmdQueue' = 1..(Len(cliCmdQueue) - 1)
    BY <1>1, <1>2, LenProperties, EmptySeq
<1>4. Head(cliCmdQueue) = cliCmdQueue[1]
    BY <1>1
<1> QED
    BY <1>2, <1>3, <1>4 DEF QueuedBy

-----------------------------------------------------------------------------
(* The bounds. *)

(* They hold at first. *)
LEMMA InitRInv == Init => RInv
<1> SUFFICES ASSUME Init PROVE RInv
    OBVIOUS
<1>2. Bounded
    <2>1. \A s \in Source : asked[s] = 0 /\ MaxCommands[s] \in Nat
        BY RemoteAssumption DEF Init
    <2>2. Len(connection.m_printBuffer) = 0 /\ connection.pendingCommands = 0 /\ DOMAIN cliCmdQueue = {}
        BY DEF Init, NewConnection
    <2>3. m_stopEvent \in BOOLEAN /\ crashed \in BOOLEAN
        BY DEF Init
    <2>4. command = NoCommand /\ printed = 0 /\ soap = "accept" /\ MaxOutput \in Nat
        BY RemoteAssumption DEF Init
    <2> QED
        BY <2>1, <2>2, <2>3, <2>4 DEF Bounded
<1>3. RaTyped /\ OneSocketEach /\ RaBlocks
    BY EmptySeq DEF Init, RaTyped, RaPlace, OneSocketEach, Live, RaBlocks
<1>4. ASSUME NEW c \in RaClient PROVE OneCommand(c) /\ InOrder(c)
    <2>1. QueuedBy(c) = {} /\ command.from # c
        BY RemoteAssumption DEF Init, QueuedBy, NoCommand, Source
    <2>2. raQueue[c] = <<>> /\ received[c] = <<>> /\ ra[c] = "none" /\ ~Under(c)
        BY <2>1 DEF Init, Under
    <2> QED
        BY <2>1, <2>2 DEF OneCommand, InOrder
<1> QED
    BY <1>2, <1>3, <1>4 DEF RInv

(* A source that asks stays within its commands. *)
LEMMA AskBounded ==
    ASSUME IInv, Bounded, NEW s \in Source, QueueCliCommand(s), s = Soap \/ UNCHANGED soap,
           UNCHANGED <<m_stopEvent, crashed, worldVars, connection>>
    PROVE  Bounded'
<1>1. /\ UNCHANGED <<m_stopEvent, crashed, command, printed, connection>>
      /\ Typed /\ asked \in [Source -> Nat] /\ Soap \in Source
    BY DEF worldVars, IInv, Typed, Source
<1>2. \A r \in Source : asked[r] <= asked'[r] /\ asked'[r] <= MaxCommands[r] /\ asked'[r] \in Nat
                        /\ asked[r] \in Nat
    <2>1. asked' \in [Source -> Nat] /\ asked' = [asked EXCEPT ![s] = @ + 1]
        BY <1>1, QueuedGrows DEF QueueCliCommand
    <2>2. asked[s] < MaxCommands[s] /\ MaxCommands[s] \in Nat /\ asked[s] \in Nat
        BY <1>1, RemoteAssumption DEF QueueCliCommand
    <2>3. asked'[s] = asked[s] + 1
        BY <1>1, <2>1
    <2>4. \A r \in Source \ {s} : asked'[r] = asked[r] /\ asked[r] \in Nat /\ asked[r] <= MaxCommands[r]
        BY <1>1, <2>1 DEF Bounded
    <2> QED
        BY <2>2, <2>3, <2>4
<1>3. ASSUME NEW k \in DOMAIN cliCmdQueue'
      PROVE  cliCmdQueue'[k].n >= 1 /\ cliCmdQueue'[k].n <= asked'[cliCmdQueue'[k].from]
    <2>1. CASE k \in DOMAIN cliCmdQueue /\ cliCmdQueue'[k] = cliCmdQueue[k]
        <3>1. cliCmdQueue[k] \in AnyCommand
            BY <1>1, <2>1, ElementOfSeq, LenProperties DEF Typed
        <3>2. cliCmdQueue[k].n >= 1 /\ cliCmdQueue[k].n <= asked[cliCmdQueue[k].from]
            BY <2>1 DEF Bounded
        <3> QED
            BY <1>2, <2>1, <3>1, <3>2 DEF AnyCommand
    <2>2. CASE cliCmdQueue'[k] = [from |-> s, n |-> asked'[s]]
        <3>1. asked'[s] = asked[s] + 1 /\ asked[s] \in Nat
            BY <1>1, QueuedGrows
        <3> QED
            BY <2>2, <3>1
    <2> QED
        BY <1>1, <2>1, <2>2, QueuedGrows
<1>4. command # NoCommand => command.n >= 1 /\ command.n <= asked'[command.from]
    <2>1. command # NoCommand => /\ command.from \in Source /\ command.n \in Nat /\ command.n >= 1
                                 /\ command.n <= asked[command.from]
        BY <1>1 DEF Bounded, Typed, AnyCommand
    <2>2. ASSUME NEW r \in Source, NEW n \in Nat, n <= asked[r] PROVE n <= asked'[r]
        BY <1>2, <2>2
    <2> QED
        BY <2>1, <2>2
<1>5. soap' = "acquire" => asked'[Soap] >= 1
    <2>1. CASE s = Soap
        <3>1. asked[s] \in Nat /\ asked'[s] = asked[s] + 1
            BY <1>1 DEF QueueCliCommand
        <3> QED
            BY <2>1, <3>1
    <2>2. CASE UNCHANGED soap
        BY <1>1, <1>2, <2>2 DEF Bounded
    <2> QED
        BY <2>1, <2>2
<1> QED
    BY <1>1, <1>2, <1>3, <1>4, <1>5 DEF Bounded

(* Every step keeps the bounds. *)
LEMMA BoundedStep == IInv /\ Bounded /\ [Next]_vars => Bounded'
<1> SUFFICES ASSUME IInv, Bounded, [Next]_vars PROVE Bounded'
    OBVIOUS
<1>0. Typed /\ MaxOutput \in Nat
    BY RemoteAssumption DEF IInv
<1>1. ASSUME UNCHANGED <<cliCmdQueue, command, printed, asked, soap, connection>>,
             m_stopEvent' \in BOOLEAN, crashed' \in BOOLEAN
      PROVE  Bounded'
    BY <1>1 DEF Bounded
<1>2. CASE UNCHANGED vars \/ StopNow \/ ProcessCliCommands \/ UpdateEnds \/ ParseEnds \/ WorldEnds
    BY <1>1, <1>2 DEF vars, worldVars, soapVars, StopNow, ProcessCliCommands, UpdateEnds, ParseEnds,
                      WorldEnds, WorldStep, Bounded
<1>3. CASE ConsoleCommand \/ SoapRequest
    BY <1>3, AskBounded, RemoteAssumption
    DEF ConsoleCommand, SoapRequest, soapVars, Source
<1>4. ASSUME NEW c \in RaClient, RaThread(c) PROVE Bounded'
    <2>1. CASE RaCommand(c)
        BY <2>1, AskBounded DEF RaCommand, soapVars, Source
    <2>2. CASE ~RaCommand(c)
        BY <1>1, <1>4, <2>2
        DEF RaThread, Accept, RaEnds, Authenticate, RaQuit, RaSend, RaSendFails, RaAnswered,
            RaOthers, worldVars, soapVars, Bounded
    <2> QED
        BY <2>1, <2>2
<1>5. CASE SoapAnswered \/ SoapEnds
    <2>1. /\ UNCHANGED <<m_stopEvent, cliCmdQueue, command, printed, asked, crashed>>
          /\ soap' # "acquire" /\ connection' \in {connection, NewConnection}
        BY <1>5 DEF SoapAnswered, SoapEnds, worldVars
    <2> QED
        BY <1>0, <2>1 DEF Bounded, NewConnection
<1>6. CASE NextCommand
    <2>1. /\ UNCHANGED <<m_stopEvent, asked, soap, connection, crashed>>
          /\ cliCmdQueue # <<>> /\ cliCmdQueue' = Tail(cliCmdQueue)
          /\ command' = Head(cliCmdQueue) /\ printed' = 0
        BY <1>6 DEF NextCommand, soapVars
    <2>2. \A k \in DOMAIN cliCmdQueue' :
             k + 1 \in DOMAIN cliCmdQueue /\ cliCmdQueue'[k] = cliCmdQueue[k + 1]
        BY <1>0, <2>1, QueuedShrinks
    <2>3. command' = cliCmdQueue[1] /\ 1 \in DOMAIN cliCmdQueue
        BY <1>0, <2>1, QueuedShrinks
    <2> QED
        BY <1>0, <2>1, <2>2, <2>3 DEF Bounded
<1>7. CASE ZPrint
    <2>1. /\ UNCHANGED <<m_stopEvent, cliCmdQueue, command, asked, soap>>
          /\ printed < MaxOutput /\ printed' = printed + 1 /\ crashed' \in BOOLEAN
        BY <1>7 DEF ZPrint, PutToDeleted, Reaches, Bounded
    <2>2. connection'.pendingCommands <= 1 /\ Len(connection'.m_printBuffer) <= MaxOutput
        <3>1. CASE command.from # Soap
            BY <1>7, <3>1 DEF ZPrint, Bounded
        <3>2. CASE command.from = Soap
            <4>1. IInv' /\ command'.from = Soap
                BY <2>1, <3>2, StepInv
            <4>2. Len(connection'.m_printBuffer) = printed'
                BY <4>1 DEF IInv, SoapOutput
            <4>3. connection'.pendingCommands = 0
                BY <4>1 DEF IInv, OneSoapCommand, Under
            <4> QED
                BY <1>0, <2>1, <4>2, <4>3 DEF Typed
        <3> QED
            BY <3>1, <3>2
    <2> QED
        BY <1>0, <2>1, <2>2 DEF Bounded, Typed
<1>8. CASE ConsoleFinished \/ RaFinished
    <2>1. /\ UNCHANGED <<m_stopEvent, cliCmdQueue, asked, soap, connection>>
          /\ command' = NoCommand /\ printed' = 0 /\ crashed' \in BOOLEAN
        BY <1>8 DEF ConsoleFinished, RaFinished, Done, soapVars, PutToDeleted, Reaches, Bounded
    <2> QED
        BY <1>0, <2>1 DEF Bounded
<1>9. CASE SetCommandSuccess
    <2>1. /\ UNCHANGED <<m_stopEvent, cliCmdQueue, command, printed, asked, soap, crashed>>
          /\ \E success \in {"ok", "fault"} :
                connection' = [connection EXCEPT !.m_success = success]
        BY <1>9 DEF SetCommandSuccess
    <2>2. /\ connection'.m_printBuffer = connection.m_printBuffer
          /\ connection'.pendingCommands = connection.pendingCommands
        BY <1>0, <2>1 DEF Typed, SoapCommand
    <2> QED
        BY <2>1, <2>2 DEF Bounded
<1>10. CASE Release
    <2>1. /\ UNCHANGED <<m_stopEvent, cliCmdQueue, asked, soap, crashed>>
          /\ command' = NoCommand /\ printed' = 0 /\ world = "release"
          /\ connection' = [connection EXCEPT !.pendingCommands = @ + 1]
        BY <1>10 DEF Release, Done, WorldStep
    <2>2. connection.pendingCommands = 0
        BY <2>1 DEF IInv, HasCommand, OneSoapCommand, Under
    <2>3. /\ connection'.m_printBuffer = connection.m_printBuffer
          /\ connection'.pendingCommands = 1
        BY <1>0, <2>1, <2>2 DEF Typed, SoapCommand
    <2> QED
        BY <1>0, <2>1, <2>3 DEF Bounded
<1>11. CASE Halt
    <2>1. /\ UNCHANGED <<m_stopEvent, command, printed, asked, soap, connection, crashed>>
          /\ cliCmdQueue' = <<>>
        BY <1>11 DEF Halt, soapVars
    <2> QED
        BY <2>1 DEF Bounded
<1> QED
    BY <1>2, <1>3, <1>4, <1>5, <1>6, <1>7, <1>8, <1>9, <1>10, <1>11 DEF Next, SoapThread, WorldThread
-----------------------------------------------------------------------------
(* The connections. *)

(* The queue of a socket after the first block was taken from it. *)
LEMMA TakenFrom ==
    ASSUME NEW q \in Seq(AnyLine), q # <<>>
    PROVE  /\ Head(q) \in AnyLine /\ Head(q) = q[1] /\ 1 \in DOMAIN q
           /\ Tail(q) \in Seq(AnyLine) /\ Len(Tail(q)) = Len(q) - 1
           /\ Len(q) \in Nat \ {0} /\ DOMAIN q = 1..Len(q)
           /\ \A k \in DOMAIN Tail(q) : /\ k \in Nat \ {0} /\ k + 1 \in DOMAIN q
                                        /\ Tail(q)[k] = q[k + 1]
<1>1. /\ Head(q) \in AnyLine /\ Tail(q) \in Seq(AnyLine)
      /\ Len(Tail(q)) = Len(q) - 1
      /\ \A k \in 1..Len(Tail(q)) : Tail(q)[k] = q[k + 1]
    BY HeadTailProperties
<1>2. /\ Len(q) \in Nat \ {0} /\ DOMAIN q = 1..Len(q)
      /\ DOMAIN Tail(q) = 1..(Len(q) - 1)
    BY <1>1, LenProperties, EmptySeq
<1> QED
    BY <1>1, <1>2

(* After one was added. *)
LEMMA AddedTo ==
    ASSUME NEW q \in Seq(AnyLine), NEW b \in AnyLine
    PROVE  /\ Append(q, b) \in Seq(AnyLine)
           /\ Len(Append(q, b)) = Len(q) + 1 /\ Len(q) \in Nat /\ DOMAIN q = 1..Len(q)
           /\ DOMAIN Append(q, b) = 1..(Len(q) + 1)
           /\ \A k \in DOMAIN q : Append(q, b)[k] = q[k]
           /\ Append(q, b)[Len(q) + 1] = b
<1>1. /\ Append(q, b) \in Seq(AnyLine) /\ Len(Append(q, b)) = Len(q) + 1
      /\ \A k \in 1..Len(q) : Append(q, b)[k] = q[k]
      /\ Append(q, b)[Len(q) + 1] = b
    BY AppendProperties
<1> QED
    BY <1>1, LenProperties

(* A break is no line, and blocks are what their types say. *)
LEMMA Blocks ==
    ASSUME IInv, Bounded, NEW n \in Nat
    PROVE  /\ Break \in AnyLine
           /\ [n |-> n, line |-> printed + 1] \in AnyLine /\ [n |-> n, line |-> printed + 1] # Break
BY DEF Break, AnyLine, IInv, Typed

(* A step that does nothing to a connection and its command. *)
Aside(c) ==
    /\ ra'[c] = ra[c] /\ raQueue'[c] = raQueue[c] /\ received'[c] = received[c]
    /\ asked'[c] = asked[c]
    /\ command'.from = c => command' = command /\ printed' = printed
    /\ \A k \in QueuedBy(c)' : k \in QueuedBy(c) /\ cliCmdQueue'[k] = cliCmdQueue[k]

Fine(c) == OneCommand(c) /\ InOrder(c)

(* Commands of c are under way exactly if they are queued or run. *)
LEMMA UnderBy == \A c : Under(c) <=> (command.from = c \/ QueuedBy(c) # {})
BY DEF Under, QueuedBy

(* It leaves them fine. *)
LEMMA AsideStaysFine ==
    ASSUME NEW c \in RaClient, Fine(c), Aside(c)
    PROVE  Fine(c)'
<1>1. Under(c)' => Under(c)
    BY DEF Aside, Under, QueuedBy
<1>2. \A b : Printed(c, b) => Printed(c, b)'
    BY DEF Printed, Aside
<1>3. QueuedBy(c)' # {} => QueuedBy(c) # {}
    BY DEF Aside
<1>4. OneCommand(c)'
    BY <1>1, <1>3 DEF Fine, OneCommand, Aside
<1>5. InOrder(c)'
    BY <1>1, <1>2 DEF Fine, InOrder, Aside
<1> QED
    BY <1>4, <1>5 DEF Fine

(* The thread of the connection asks, and has nothing left of the last command.*)
LEMMA RaCommandFine ==
    ASSUME IInv, RaTyped, NEW c \in RaClient, Fine(c), RaCommand(c)
    PROVE  Fine(c)'
<1>1. /\ ra[c] = "prompt" /\ ra'[c] = "waiting" /\ c \in Source /\ QueueCliCommand(c)
      /\ UNCHANGED <<command, printed, raQueue, received>>
    BY DEF RaCommand, RaStep, worldVars, Source, RaTyped
<1>2. /\ ~Under(c) /\ raQueue[c] = <<>> /\ received[c] = <<>>
      /\ command.from # c /\ QueuedBy(c) = {}
    BY <1>1, UnderBy DEF Fine, OneCommand
<1>3. \A k \in QueuedBy(c)' : /\ k = Len(cliCmdQueue) + 1
                              /\ cliCmdQueue'[k].n = asked'[c]
    <2>1. \A k \in QueuedBy(c)' : /\ k = Len(cliCmdQueue) + 1
                                  /\ cliCmdQueue'[k] = [from |-> c, n |-> asked'[c]]
        BY <1>1, <1>2, QueuedGrows DEF IInv
    <2> QED
        BY <2>1
<1>4. OneCommand(c)'
    BY <1>1, <1>2, <1>3 DEF OneCommand
<1>5. InOrder(c)'
    BY <1>1, <1>2 DEF InOrder
<1> QED
    BY <1>4, <1>5 DEF Fine

(* It sends what is first in its queue. *)
LEMMA RaSendFine ==
    ASSUME RaTyped, NEW c \in RaClient, Fine(c), RaSend(c)
    PROVE  Fine(c)'
<1> DEFINE q == raQueue[c]
           got == received[c]
<1>1. /\ ra[c] = "waiting" /\ ra'[c] = "waiting" /\ q # <<>> /\ Head(q) # Break
      /\ UNCHANGED <<cliCmdQueue, command, printed, asked>>
      /\ raQueue'[c] = Tail(q) /\ received'[c] = Append(got, Head(q))
    BY DEF RaSend, RaStep, RaOthers, Answered, worldVars, RaTyped
<1>2. q \in Seq(AnyLine) /\ got \in Seq(AnyLine)
    BY DEF RaTyped
<1> DEFINE b == Head(q)
           q2 == Tail(q)
           got2 == Append(got, b)
<1>3. /\ b \in AnyLine /\ b = q[1] /\ 1 \in DOMAIN q /\ b # Break
      /\ \A k \in DOMAIN q2 : k \in Nat \ {0} /\ k + 1 \in DOMAIN q /\ q2[k] = q[k + 1]
      /\ Len(q2) = Len(q) - 1 /\ Len(q) \in Nat
    BY <1>1, <1>2, TakenFrom
<1> HIDE DEF b, q2
<1>4. /\ Len(got) \in Nat /\ DOMAIN got = 1..Len(got) /\ DOMAIN got2 = 1..(Len(got) + 1)
      /\ \A k \in DOMAIN got : got2[k] = got[k]
      /\ got2[Len(got) + 1] = b
    BY <1>2, <1>3, AddedTo
<1>5. raQueue'[c] = q2 /\ received'[c] = got2
    BY <1>1 DEF b, q2
<1> HIDE DEF got2
<1>6. /\ \A k \in DOMAIN got : Printed(c, got[k])
      /\ \A k \in DOMAIN q : (q[k] = Break /\ k = Len(q) /\ ~Under(c)) \/ Printed(c, q[k])
      /\ \A j, k \in DOMAIN got : j < k => got[j].line < got[k].line
      /\ \A j, k \in DOMAIN q : j < k /\ q[k] # Break => q[j].line < q[k].line
      /\ \A j \in DOMAIN got, k \in DOMAIN q : q[k] # Break => got[j].line < q[k].line
    BY DEF Fine, InOrder
<1> HIDE DEF q, got
<1>7. Printed(c, b)
    BY <1>3, <1>6
<1>8. \A k \in DOMAIN got2 : Printed(c, got2[k])
    BY <1>4, <1>6, <1>7
<1>9. \A k \in DOMAIN q2 : (q2[k] = Break /\ k = Len(q2) /\ ~Under(c)) \/ Printed(c, q2[k])
    BY <1>3, <1>6
<1>10. \A j, k \in DOMAIN got2 : j < k => got2[j].line < got2[k].line
    BY <1>3, <1>4, <1>6
<1>11. \A j, k \in DOMAIN q2 : j < k /\ q2[k] # Break => q2[j].line < q2[k].line
    BY <1>3, <1>6
<1>12. \A j \in DOMAIN got2, k \in DOMAIN q2 : q2[k] # Break => got2[j].line < q2[k].line
    <2> SUFFICES ASSUME NEW j \in DOMAIN got2, NEW k \in DOMAIN q2, q2[k] # Break
                 PROVE  got2[j].line < q2[k].line
        OBVIOUS
    <2>1. k + 1 \in DOMAIN q /\ k \in Nat \ {0} /\ q2[k] = q[k + 1]
        BY <1>3
    <2>2. CASE j \in DOMAIN got
        BY <1>4, <1>6, <2>1, <2>2
    <2>3. CASE j = Len(got) + 1
        <3>1. 1 < k + 1
            BY <2>1
        <3>2. q[1].line < q[k + 1].line
            BY <1>3, <1>6, <2>1, <3>1
        <3> QED
            BY <1>3, <1>4, <2>1, <2>3, <3>2
    <2> QED
        BY <1>4, <2>2, <2>3
<1>13. (Under(c)' <=> Under(c)) /\ (\A x : Printed(c, x)' <=> Printed(c, x))
    BY <1>1 DEF Under, Printed
<1>14. InOrder(c)'
    BY <1>5, <1>8, <1>9, <1>10, <1>11, <1>12, <1>13 DEF InOrder
<1>15. QueuedBy(c) = {}
    BY <1>1 DEF Fine, OneCommand, q
<1>16. QueuedBy(c)' = {}
    BY <1>1, <1>15 DEF QueuedBy
<1>17. OneCommand(c)'
    BY <1>1, <1>13, <1>16 DEF Fine, OneCommand
<1> QED
    BY <1>14, <1>17 DEF Fine

(* The other steps of its thread leave nothing queued or received. *)
LEMMA RaEmptyFine ==
    ASSUME RaTyped, NEW c \in RaClient, Fine(c),
           Accept(c) \/ Authenticate(c) \/ RaQuit(c) \/ RaSendFails(c) \/ RaAnswered(c)
    PROVE  Fine(c)'
<1>1. UNCHANGED <<cliCmdQueue, command, printed, asked>>
    BY DEF Accept, RaEnds, Authenticate, RaQuit, RaSendFails, RaAnswered, RaOthers, worldVars
<1>2. /\ raQueue'[c] = <<>> /\ received'[c] = <<>>
      /\ ra'[c] \in {"login", "prompt", "deleted"}
      /\ ra'[c] # "deleted" => ~Under(c)
    <2>1. CASE Accept(c) \/ Authenticate(c) \/ RaQuit(c)
        BY <2>1 DEF Accept, RaEnds, Authenticate, RaQuit, RaStep, RaTyped, Fine, OneCommand
    <2>2. CASE RaSendFails(c)
        BY <2>2 DEF RaSendFails, RaEnds, RaStep, RaTyped
    <2>3. CASE RaAnswered(c)
        <3> DEFINE q == raQueue[c]
        <3>1. q \in Seq(AnyLine) /\ q # <<>> /\ Head(q) = Break
            BY <2>3 DEF RaAnswered, Answered, RaTyped
        <3>2. Head(q) = q[1] /\ 1 \in DOMAIN q /\ Len(Tail(q)) = Len(q) - 1 /\ Tail(q) \in Seq(AnyLine)
            BY <3>1, TakenFrom
        <3>3. Len(q) = 1 /\ ~Under(c)
            <4>1. \/ q[1] = Break /\ 1 = Len(q) /\ ~Under(c)
                  \/ Printed(c, q[1])
                BY <3>2 DEF Fine, InOrder
            <4>2. ~Printed(c, Break)
                BY DEF Printed, Break
            <4> QED
                BY <3>1, <3>2, <4>1, <4>2
        <3>4. Tail(q) = <<>>
            <4> DEFINE q2 == Tail(q)
            <4>1. Len(q2) = 0 /\ q2 \in Seq(AnyLine)
                BY <3>2, <3>3
            <4> HIDE DEF q2
            <4>2. q2 = <<>>
                BY <4>1, EmptySeq
            <4> QED
                BY <4>2 DEF q2
        <3> QED
            BY <2>3, <3>1, <3>3, <3>4 DEF RaAnswered, RaStep, RaTyped
    <2> QED
        BY <2>1, <2>2, <2>3
<1>3. QueuedBy(c)' = QueuedBy(c) /\ (Under(c)' <=> Under(c))
    BY <1>1 DEF QueuedBy, Under
<1>4. OneCommand(c)'
    BY <1>1, <1>2, <1>3 DEF Fine, OneCommand
<1>5. InOrder(c)'
    BY <1>2 DEF InOrder
<1> QED
    BY <1>4, <1>5 DEF Fine

(* The world thread takes a command, of c or of another. *)
LEMMA NextCommandFine ==
    ASSUME IInv, NEW c \in RaClient, Fine(c), NextCommand
    PROVE  Fine(c)'
<1>1. /\ cliCmdQueue # <<>> /\ command' = Head(cliCmdQueue) /\ cliCmdQueue' = Tail(cliCmdQueue)
      /\ UNCHANGED <<asked, ra, raQueue, received>> /\ command = NoCommand
    BY DEF NextCommand, WorldStep, raVars, IInv, HasCommand
<1>2. /\ command' = cliCmdQueue[1]
      /\ \A k \in DOMAIN cliCmdQueue' : k + 1 \in DOMAIN cliCmdQueue /\ cliCmdQueue'[k] = cliCmdQueue[k + 1]
      /\ \A k \in QueuedBy(c)' : k + 1 \in QueuedBy(c) /\ k \in Nat \ {0}
      /\ command'.from = c => 1 \in QueuedBy(c)
    BY <1>1, QueuedShrinks DEF IInv
<1>3. \A k \in QueuedBy(c)' : cliCmdQueue'[k] = cliCmdQueue[k + 1]
    BY <1>2 DEF QueuedBy
<1>4. Under(c)' => Under(c) /\ QueuedBy(c) # {}
    BY <1>2, UnderBy DEF Under, QueuedBy
<1>5. command'.from = c => QueuedBy(c)' = {}
    <2> SUFFICES ASSUME command'.from = c, NEW k \in QueuedBy(c)' PROVE FALSE
        OBVIOUS
    <2>1. k + 1 = 1 /\ k \in Nat \ {0}
        BY <1>2 DEF Fine, OneCommand
    <2> QED
        BY <2>1
<1>6. \A j, k \in QueuedBy(c)' : j = k
    <2> SUFFICES ASSUME NEW j \in QueuedBy(c)', NEW k \in QueuedBy(c)' PROVE j = k
        OBVIOUS
    <2>1. j + 1 = k + 1 /\ j \in Nat /\ k \in Nat
        BY <1>2 DEF Fine, OneCommand
    <2> QED
        BY <2>1
<1>7. OneCommand(c)'
    <2>1. \A k \in QueuedBy(c)' : cliCmdQueue'[k].n = asked'[c] /\ command'.from # c
        BY <1>1, <1>2, <1>3, <1>5 DEF Fine, OneCommand
    <2>2. QueuedBy(c)' # {} => QueuedBy(c) # {}
        BY <1>2
    <2>3. command'.from = c => command'.n = asked'[c]
        BY <1>1, <1>2 DEF Fine, OneCommand
    <2> QED
        BY <1>1, <1>4, <1>6, <2>1, <2>2, <2>3 DEF Fine, OneCommand
<1>8. InOrder(c)'
    <2>1. CASE QueuedBy(c) # {}
        BY <1>1, <2>1 DEF Fine, OneCommand, InOrder
    <2>2. CASE QueuedBy(c) = {}
        <3>1. ~Under(c)' /\ command'.from # c
            BY <1>2, <1>4, <2>2
        <3>2. \A b : Printed(c, b) => Printed(c, b)'
            BY <1>1, <3>1 DEF Printed
        <3> QED
            BY <1>1, <3>1, <3>2 DEF Fine, InOrder
    <2> QED
        BY <2>1, <2>2
<1> QED
    BY <1>7, <1>8 DEF Fine

(* A line is printed for a connection. *)
LEMMA ZPrintFine ==
    ASSUME IInv, Bounded, RaTyped, NEW c \in RaClient, Fine(c), ZPrint, command.from = c
    PROVE  Fine(c)'
<1> DEFINE q == raQueue[c]
           got == received[c]
           text == [n |-> command.n, line |-> printed + 1]
           P(b) == /\ b.n = asked[c] /\ b.n >= 1 /\ b.n <= MaxCommands[c]
                   /\ b.line >= 1 /\ b.line <= MaxOutput /\ b.line <= printed + 1
<1>1. /\ printed < MaxOutput /\ printed' = printed + 1
      /\ UNCHANGED <<cliCmdQueue, command, asked, ra, received>>
      /\ command.from # Console /\ command.from # Soap
    BY RemoteAssumption DEF ZPrint
<1>2. q \in Seq(AnyLine) /\ printed \in Nat /\ MaxOutput \in Nat
    BY RemoteAssumption DEF IInv, Typed, RaTyped
<1>3. /\ command.n = asked[c] /\ command.n \in Nat /\ command.n >= 1
      /\ asked[c] <= MaxCommands[c]
    <2>1. command # NoCommand /\ c \in Source
        BY RemoteAssumption DEF NoCommand, Source
    <2>2. command \in AnyCommand
        BY <2>1 DEF IInv, Typed
    <2> QED
        BY <2>1, <2>2 DEF Bounded, Fine, OneCommand, AnyCommand
<1>4. text \in AnyLine /\ text # Break /\ text.n = command.n /\ text.line = printed + 1
    BY <1>1, <1>2, <1>3 DEF AnyLine, Break
<1>5. raQueue'[c] = q \/ raQueue'[c] = Append(q, text)
    <2>1. raQueue' = raQueue \/ \E d \in RaClient : PutOutput(d, text)
        BY <1>1 DEF ZPrint, PutToDeleted, At
    <2> HIDE DEF text
    <2> QED
        BY <2>1 DEF PutOutput, RaTyped
<1>6. Under(c) /\ QueuedBy(c) = {} /\ ra[c] \in {"waiting", "deleted"}
    BY UnderBy DEF Fine, OneCommand
<1>7. /\ \A k \in DOMAIN got : Printed(c, got[k]) /\ got[k].line <= printed
      /\ \A k \in DOMAIN q : Printed(c, q[k]) /\ q[k].line <= printed
    BY <1>6 DEF Fine, InOrder, Printed
<1>8. \A b : P(b) => Printed(c, b)'
    BY <1>1 DEF Printed
<1>9. /\ \A k \in DOMAIN got : got[k] \in AnyLine
      /\ \A k \in DOMAIN q : q[k] \in AnyLine
    BY ElementOfSeq, LenProperties DEF RaTyped
<1>10. ASSUME NEW b \in AnyLine, Printed(c, b), b.line <= printed
       PROVE  P(b)
    BY <1>2, <1>10 DEF Printed, AnyLine
<1>11. P(text)
    BY <1>1, <1>2, <1>3, <1>4
<1> HIDE DEF text
<1>16. /\ \A k \in DOMAIN got : P(got[k])
       /\ \A k \in DOMAIN q : P(q[k])
    BY <1>7, <1>9, <1>10
<1>17. received'[c] = got
    BY <1>1
<1> HIDE DEF P
<1>12. QueuedBy(c)' = {} /\ (Under(c)' <=> Under(c))
    BY <1>1, <1>6 DEF QueuedBy, Under
<1>13. CASE raQueue'[c] = q
    <2>1. InOrder(c)'
        BY <1>6, <1>8, <1>12, <1>13, <1>16, <1>17 DEF Fine, InOrder
    <2>2. OneCommand(c)'
        BY <1>1, <1>12, <1>13 DEF Fine, OneCommand
    <2> QED
        BY <2>1, <2>2 DEF Fine
<1>14. CASE raQueue'[c] = Append(q, text) /\ ra[c] = "waiting"
    <2> DEFINE q2 == Append(q, text)
    <2>1. /\ Len(q) \in Nat /\ DOMAIN q = 1..Len(q) /\ DOMAIN q2 = 1..(Len(q) + 1)
          /\ \A k \in DOMAIN q : q2[k] = q[k]
          /\ q2[Len(q) + 1] = text
        BY <1>2, <1>4, AddedTo
    <2>2. raQueue'[c] = q2
        BY <1>14
    <2> HIDE DEF q2
    <2>3. /\ \A j, k \in DOMAIN got : j < k => got[j].line < got[k].line
          /\ \A j, k \in DOMAIN q : j < k /\ q[k] # Break => q[j].line < q[k].line
          /\ \A j \in DOMAIN got, k \in DOMAIN q : q[k] # Break => got[j].line < q[k].line
        BY DEF Fine, InOrder
    <2> HIDE DEF q, got
    <2>4. \A k \in DOMAIN q2 : P(q2[k])
        BY <1>11, <1>16, <2>1
    <2>5. \A j, k \in DOMAIN q2 : j < k /\ q2[k] # Break => q2[j].line < q2[k].line
        <3> SUFFICES ASSUME NEW j \in DOMAIN q2, NEW k \in DOMAIN q2, j < k, q2[k] # Break
                     PROVE  q2[j].line < q2[k].line
            OBVIOUS
        <3>1. j \in DOMAIN q /\ q2[j] = q[j]
            BY <2>1
        <3>2. CASE k \in DOMAIN q
            BY <2>1, <2>3, <3>1, <3>2
        <3>3. CASE k = Len(q) + 1
            <4>1. q[j].line <= printed /\ q[j].line \in Nat
                BY <1>7, <1>9, <3>1 DEF AnyLine
            <4> QED
                BY <1>2, <1>4, <2>1, <3>1, <3>3, <4>1
        <3> QED
            BY <2>1, <3>2, <3>3
    <2>6. \A j \in DOMAIN got, k \in DOMAIN q2 : q2[k] # Break => got[j].line < q2[k].line
        <3> SUFFICES ASSUME NEW j \in DOMAIN got, NEW k \in DOMAIN q2, q2[k] # Break
                     PROVE  got[j].line < q2[k].line
            OBVIOUS
        <3>2. CASE k \in DOMAIN q
            BY <2>1, <2>3, <3>2
        <3>3. CASE k = Len(q) + 1
            <4>1. got[j].line <= printed /\ got[j].line \in Nat
                BY <1>7, <1>9 DEF AnyLine
            <4> QED
                BY <1>2, <1>4, <2>1, <3>3, <4>1
        <3> QED
            BY <2>1, <3>2, <3>3
    <2>8. InOrder(c)'
        BY <1>8, <1>16, <1>17, <2>2, <2>3, <2>4, <2>5, <2>6 DEF InOrder
    <2>9. OneCommand(c)'
        BY <1>1, <1>12, <1>14 DEF Fine, OneCommand
    <2> QED
        BY <2>8, <2>9 DEF Fine
<1>15. raQueue'[c] = q \/ ra[c] = "waiting"
    <2>1. \/ raQueue' = raQueue
          \/ \E d \in At(address[c]) : PutOutput(d, text)
        BY <1>1 DEF ZPrint, PutToDeleted, text
    <2>2. c \in At(address[c]) => ra[c] = "waiting"
        BY <1>6 DEF At, Live
    <2> QED
        BY <2>1, <2>2 DEF PutOutput, RaTyped, At
<1> QED
    BY <1>5, <1>13, <1>14, <1>15

(* Its command ends, with a break unless the connection has gone. *)
LEMMA RaFinishedFine ==
    ASSUME RaTyped, NEW c \in RaClient, Fine(c), RaFinished, command.from = c
    PROVE  Fine(c)'
<1> DEFINE q == raQueue[c]
           got == received[c]
<1>1. /\ command' = NoCommand /\ UNCHANGED <<cliCmdQueue, asked, ra, received>>
    BY DEF RaFinished, Done
<1>2. q \in Seq(AnyLine)
    BY DEF RaTyped
<1>3. Under(c) /\ QueuedBy(c) = {} /\ ra[c] \in {"waiting", "deleted"}
    BY UnderBy DEF Fine, OneCommand
<1>4. QueuedBy(c)' = {} /\ command'.from # c /\ ~Under(c)'
    BY <1>1, <1>3, RemoteAssumption DEF QueuedBy, Under, NoCommand, Source
<1>5. \A b : Printed(c, b) => Printed(c, b)'
    BY <1>1, <1>4 DEF Printed
<1>6. /\ \A k \in DOMAIN got : Printed(c, got[k])
      /\ \A k \in DOMAIN q : Printed(c, q[k])
    BY <1>3 DEF Fine, InOrder
<1>9. raQueue'[c] = q \/ (raQueue'[c] = Append(q, Break) /\ ra[c] = "waiting")
    <2>1. \/ raQueue' = raQueue
          \/ \E d \in At(address[c]) : PutBreak(d)
        BY DEF RaFinished, PutToDeleted
    <2>2. c \in At(address[c]) => ra[c] = "waiting"
        BY <1>3 DEF At, Live
    <2> QED
        BY <2>1, <2>2 DEF PutBreak, RaTyped, At
<1>7. CASE raQueue'[c] = q
    <2>1. raQueue'[c] = q
        BY <1>7
    <2>2. InOrder(c)'
        BY <1>1, <1>5, <1>6, <2>1 DEF Fine, InOrder
    <2>3. OneCommand(c)'
        BY <1>1, <1>4, <2>1 DEF Fine, OneCommand
    <2> QED
        BY <2>2, <2>3 DEF Fine
<1>8. CASE raQueue'[c] = Append(q, Break) /\ ra[c] = "waiting"
    <2> DEFINE q2 == Append(q, Break)
    <2>1. /\ Len(q) \in Nat /\ DOMAIN q = 1..Len(q) /\ DOMAIN q2 = 1..(Len(q) + 1)
          /\ \A k \in DOMAIN q : q2[k] = q[k]
          /\ q2[Len(q) + 1] = Break /\ Len(q2) = Len(q) + 1
        <3>1. Break \in AnyLine
            BY DEF Break, AnyLine
        <3> QED
            BY <1>2, <3>1, AddedTo
    <2>2. raQueue'[c] = q2
        BY <1>8
    <2> HIDE DEF q2
    <2>3. /\ \A j, k \in DOMAIN got : j < k => got[j].line < got[k].line
          /\ \A j, k \in DOMAIN q : j < k /\ q[k] # Break => q[j].line < q[k].line
          /\ \A j \in DOMAIN got, k \in DOMAIN q : q[k] # Break => got[j].line < q[k].line
        BY DEF Fine, InOrder
    <2>4. received'[c] = got
        BY <1>1
    <2> HIDE DEF q, got
    <2>5. \A k \in DOMAIN q2 : (q2[k] = Break /\ k = Len(q2)) \/ Printed(c, q2[k])
        BY <1>6, <2>1
    <2>6. \A j, k \in DOMAIN q2 : j < k /\ q2[k] # Break => q2[j].line < q2[k].line
        BY <2>1, <2>3
    <2>7. \A j \in DOMAIN got, k \in DOMAIN q2 : q2[k] # Break => got[j].line < q2[k].line
        BY <2>1, <2>3
    <2>8. InOrder(c)'
        BY <1>4, <1>5, <1>6, <2>2, <2>3, <2>4, <2>5, <2>6, <2>7 DEF InOrder
    <2>9. OneCommand(c)'
        BY <1>1, <1>4, <1>8 DEF Fine, OneCommand
    <2> QED
        BY <2>8, <2>9 DEF Fine
<1> QED
    BY <1>7, <1>8, <1>9

(* A step of other threads leaves a connection and its command aside. *)
LEMMA OthersAside ==
    ASSUME IInv, RaTyped, [Next]_vars, NEW c \in RaClient,
           ~RaThread(c), ~NextCommand, c \notin mixed',
           command.from # c \/ ~(ZPrint \/ RaFinished)
    PROVE  Aside(c)
<1>0. c \in Source /\ c # Soap /\ c # Console
    BY RemoteAssumption DEF Source
<1>1. ASSUME UNCHANGED <<cliCmdQueue, command, printed, asked>>,
             ra'[c] = ra[c], raQueue'[c] = raQueue[c], received'[c] = received[c]
      PROVE  Aside(c)
    BY <1>1 DEF Aside, QueuedBy
<1>2. ASSUME NEW s \in Source, s # c, QueueCliCommand(s), UNCHANGED <<command, printed>>,
             ra'[c] = ra[c], raQueue'[c] = raQueue[c], received'[c] = received[c]
      PROVE  Aside(c)
    <2>1. asked'[c] = asked[c]
        BY <1>0, <1>2 DEF QueueCliCommand, IInv, Typed
    <2>2. \A k \in QueuedBy(c)' : k \in QueuedBy(c) /\ cliCmdQueue'[k] = cliCmdQueue[k]
        BY <1>0, <1>2, QueuedGrows DEF IInv
    <2> QED
        BY <1>2, <2>1, <2>2 DEF Aside
<1>3. CASE UNCHANGED vars \/ StopNow \/ SoapAnswered \/ SoapEnds \/ ProcessCliCommands \/ UpdateEnds
           \/ ParseEnds \/ SetCommandSuccess \/ WorldEnds
    BY <1>1, <1>3 DEF vars, worldVars, raVars, soapVars, StopNow, SoapAnswered, SoapEnds,
        ProcessCliCommands, UpdateEnds, ParseEnds, SetCommandSuccess, WorldEnds
<1>4. CASE ConsoleCommand
    BY <1>0, <1>2, <1>4 DEF ConsoleCommand, worldVars, raVars, Source
<1>5. CASE SoapRequest
    BY <1>0, <1>2, <1>5 DEF SoapRequest, worldVars, raVars, Source
<1>6. ASSUME NEW d \in RaClient, d # c, RaThread(d)
      PROVE  Aside(c)
    <2>1. ra'[c] = ra[c] /\ raQueue'[c] = raQueue[c] /\ received'[c] = received[c]
        BY <1>6 DEF RaThread, Accept, RaEnds, Authenticate, RaCommand, RaQuit, RaSend, RaSendFails,
                    RaAnswered, RaStep, RaTyped
    <2>2. CASE RaCommand(d)
        BY <1>2, <1>6, <2>1, <2>2 DEF RaCommand, worldVars, Source
    <2>3. CASE ~RaCommand(d)
        BY <1>1, <1>6, <2>1, <2>3 DEF RaThread, Accept, RaEnds, Authenticate, RaQuit, RaSend,
                    RaSendFails, RaAnswered, RaOthers, worldVars
    <2> QED
        BY <2>2, <2>3
<1>7. CASE ZPrint
    <2>1. /\ UNCHANGED <<cliCmdQueue, command, asked, ra, received>> /\ command.from # c
        BY <1>7 DEF ZPrint
    <2>2. raQueue'[c] = raQueue[c]
        <3> DEFINE text == [n |-> command.n, line |-> printed + 1]
        <3>1. raQueue' = raQueue \/ \E d \in RaClient : PutOutput(d, text) /\ d # c
            BY <1>7, <2>1 DEF ZPrint, PutToDeleted, Reaches, At
        <3> HIDE DEF text
        <3> QED
            BY <3>1 DEF PutOutput, RaTyped
    <2> QED
        BY <2>1, <2>2 DEF Aside, QueuedBy
<1>8. CASE ConsoleFinished \/ RaFinished \/ Release
    <2>1. /\ UNCHANGED <<cliCmdQueue, asked, ra, received>> /\ command' = NoCommand
        BY <1>8 DEF ConsoleFinished, RaFinished, Release, Done, raVars
    <2>2. command'.from # c
        BY <1>0, <2>1, RemoteAssumption DEF NoCommand
    <2>3. raQueue'[c] = raQueue[c]
        <3>1. RaFinished => command.from # c
            OBVIOUS
        <3>2. raQueue' = raQueue \/ \E d \in RaClient : PutBreak(d) /\ d # c
            BY <1>8, <3>1 DEF ConsoleFinished, RaFinished, Release, raVars, PutToDeleted, Reaches, At
        <3> QED
            BY <3>2 DEF PutBreak, RaTyped
    <2> QED
        BY <2>1, <2>2, <2>3 DEF Aside, QueuedBy
<1>9. CASE Halt
    <2>1. /\ UNCHANGED <<command, printed, asked, ra, raQueue, received>> /\ cliCmdQueue' = <<>>
        BY <1>9 DEF Halt, raVars
    <2> QED
        BY <2>1 DEF Aside, QueuedBy
<1> QED
    BY <1>3, <1>4, <1>5, <1>6, <1>7, <1>8, <1>9 DEF Next, SoapThread, WorldThread

(* Every step leaves a connection fine. *)
LEMMA FineStep ==
    ASSUME IInv, Bounded, RaTyped, [Next]_vars, NEW c \in RaClient, Fine(c), c \notin mixed'
    PROVE  Fine(c)'
<1>1. CASE RaThread(c)
    BY <1>1, RaCommandFine, RaSendFine, RaEmptyFine DEF RaThread
<1>2. CASE NextCommand
    BY <1>2, NextCommandFine
<1>3. CASE ZPrint /\ command.from = c
    BY <1>3, ZPrintFine
<1>4. CASE RaFinished /\ command.from = c
    BY <1>4, RaFinishedFine
<1>5. CASE ~RaThread(c) /\ ~NextCommand /\ (command.from # c \/ ~(ZPrint \/ RaFinished))
    BY <1>5, OthersAside, AsideStaysFine
<1> QED
    BY <1>1, <1>2, <1>3, <1>4, <1>5

(* What a step does to the connections: one of their threads takes it, or the  *)
(* world thread puts a block into a queue.                                     *)
Puts(d, b) == raQueue' = [raQueue EXCEPT ![d] = Append(@, b)]
LEMMA RaMoves ==
    ASSUME IInv, Bounded, [Next]_vars
    PROVE  \/ \E c \in RaClient : RaThread(c)
           \/ UNCHANGED raVars
           \/ /\ UNCHANGED <<ra, address, received>>
              /\ mixed' = mixed \/ \E d \in RaClient : mixed' = mixed \union {d}
              /\ raQueue' = raQueue \/ \E d \in RaClient, b \in RaBlock \intersect AnyLine : Puts(d, b)
<1>1. CASE ZPrint
    <2> DEFINE text == [n |-> command.n, line |-> printed + 1]
    <2>1. UNCHANGED <<ra, address, received>>
        BY <1>1 DEF ZPrint
    <2>2. CASE command.from \notin RaClient
        BY <1>1, <2>1, <2>2 DEF ZPrint, raVars
    <2>3. CASE command.from \in RaClient
        <3>1. /\ command \in AnyCommand /\ command # NoCommand /\ command.from \in Source
              /\ MaxCommands[command.from] \in Nat
            BY <2>3, RemoteAssumption DEF IInv, Typed, NoCommand, Source
        <3>2. command.n \in 1..MaxCommands[command.from] /\ printed + 1 \in 1..MaxOutput
            BY <1>1, <3>1, RemoteAssumption DEF Bounded, AnyCommand, IInv, Typed, ZPrint
        <3>3. text \in LineOf(command.from) /\ text \in AnyLine
            BY <3>2 DEF LineOf, AnyLine
        <3>4. text \in RaBlock \intersect AnyLine
            BY <2>3, <3>3 DEF RaBlock
        <3>5. /\ raQueue' = raQueue \/ \E d \in RaClient : Puts(d, text)
              /\ mixed' = mixed \/ \E d \in RaClient : mixed' = mixed \union {d}
            <4>1. CASE PutToDeleted(command.from)
                BY <4>1 DEF PutToDeleted
            <4>2. ASSUME NEW d \in At(address[command.from]), PutOutput(d, text), Reaches(command.from, d)
                  PROVE  /\ raQueue' = raQueue \/ \E e \in RaClient : Puts(e, text)
                         /\ mixed' = mixed \/ \E e \in RaClient : mixed' = mixed \union {e}
                BY <4>2 DEF PutOutput, Reaches, At, Puts
            <4>3. command.from # Console /\ command.from # Soap
                BY <2>3, RemoteAssumption
            <4> QED
                BY <1>1, <4>1, <4>2, <4>3 DEF ZPrint
        <3> HIDE DEF text
        <3> QED
            BY <2>1, <3>4, <3>5
    <2> QED
        BY <2>2, <2>3
<1>2. CASE RaFinished
    <2>1. UNCHANGED <<ra, address, received>>
        BY <1>2 DEF RaFinished
    <2>2. Break \in RaBlock \intersect AnyLine
        BY DEF Break, AnyLine, RaBlock
    <2>3. CASE PutToDeleted(command.from)
        BY <2>1, <2>3 DEF PutToDeleted
    <2>4. ASSUME NEW d \in At(address[command.from]), PutBreak(d), Reaches(command.from, d)
          PROVE  /\ mixed' = mixed \/ \E e \in RaClient : mixed' = mixed \union {e}
                 /\ d \in RaClient /\ Puts(d, Break)
        BY <2>4 DEF PutBreak, Reaches, At, Puts
    <2> QED
        BY <1>2, <2>1, <2>2, <2>3, <2>4 DEF RaFinished
<1>3. CASE UNCHANGED vars \/ ConsoleCommand \/ StopNow \/ SoapThread \/ Halt
    BY <1>3 DEF vars, ConsoleCommand, StopNow, SoapThread, SoapRequest, SoapAnswered, SoapEnds, Halt,
                raVars
<1>4. CASE WorldThread /\ ~ZPrint /\ ~RaFinished
    BY <1>4 DEF WorldThread, ProcessCliCommands, NextCommand, UpdateEnds, ParseEnds,
                ConsoleFinished, SetCommandSuccess, Release, WorldEnds
<1> QED
    BY <1>1, <1>2, <1>3, <1>4 DEF Next

(* The queue of a connection that takes its first block. *)
LEMMA RaTakes ==
    ASSUME RaTyped, RaBlocks, NEW c \in RaClient, RaSend(c) \/ RaAnswered(c)
    PROVE  LET q == raQueue[c]
           IN  /\ raQueue' = [raQueue EXCEPT ![c] = Tail(q)]
               /\ Tail(q) \in Seq(AnyLine) /\ Head(q) \in AnyLine
               /\ \A k \in DOMAIN Tail(q) : Tail(q)[k] \in RaBlock
<1> DEFINE q == raQueue[c]
<1>1. q \in Seq(AnyLine) /\ q # <<>>
    BY DEF RaSend, RaAnswered, Answered, RaTyped
<1>2. raQueue' = [raQueue EXCEPT ![c] = Tail(q)]
    BY <1>1 DEF RaSend, RaAnswered
<1>3. \A k \in DOMAIN q : q[k] \in RaBlock
    BY DEF RaBlocks
<1> QED
    BY <1>1, <1>2, <1>3, TakenFrom

(* The types of the connections, and what their queues hold. *)
LEMMA RaTypedStep == IInv /\ Bounded /\ RaTyped /\ RaBlocks /\ [Next]_vars => RaTyped' /\ RaBlocks'
<1> SUFFICES ASSUME IInv, Bounded, RaTyped, RaBlocks, [Next]_vars PROVE RaTyped' /\ RaBlocks'
    OBVIOUS
<1>1. CASE UNCHANGED raVars
    BY <1>1 DEF RaTyped, RaBlocks, raVars
<1>0. <<>> \in Seq(AnyLine) /\ DOMAIN <<>> = {}
    BY EmptySeq
<1>2. ASSUME NEW c \in RaClient, RaThread(c)
      PROVE  RaTyped' /\ RaBlocks'
    <2> DEFINE q == raQueue[c]
    <2>1. /\ ra' \in [RaClient -> RaPlace] /\ mixed' = mixed
          /\ address' \in [RaClient -> Address \union {Nowhere}]
        BY <1>2 DEF RaThread, Accept, RaEnds, Authenticate, RaCommand, RaQuit, RaSend, RaSendFails,
                    RaAnswered, RaOthers, RaStep, RaTyped, RaPlace
    <2>2. CASE UNCHANGED <<raQueue, received>>
        BY <2>1, <2>2 DEF RaTyped, RaBlocks
    <2>3. CASE /\ raQueue' = [raQueue EXCEPT ![c] = <<>>]
               /\ received' = [received EXCEPT ![c] = <<>>]
        BY <1>0, <2>1, <2>3 DEF RaTyped, RaBlocks
    <2>4. CASE RaSend(c)
        <3> DEFINE got == Append(received[c], Head(q))
        <3>1. got \in Seq(AnyLine)
            BY <2>4, RaTakes, AppendProperties DEF RaTyped
        <3>2. received' = [received EXCEPT ![c] = got]
            BY <2>4 DEF RaSend
        <3> HIDE DEF got
        <3> QED
            BY <2>1, <2>4, <3>1, <3>2, RaTakes DEF RaTyped, RaBlocks
    <2>5. CASE RaAnswered(c)
        <3>1. received' = [received EXCEPT ![c] = <<>>]
            BY <2>5 DEF RaAnswered
        <3> QED
            BY <1>0, <2>1, <2>5, <3>1, RaTakes DEF RaTyped, RaBlocks
    <2> QED
        BY <1>2, <2>2, <2>3, <2>4, <2>5
        DEF RaThread, Accept, RaEnds, Authenticate, RaCommand, RaQuit, RaSendFails
<1>3. ASSUME UNCHANGED <<ra, address, received>>, mixed' \subseteq RaClient,
             NEW d \in RaClient, NEW b \in RaBlock \intersect AnyLine, Puts(d, b)
      PROVE  RaTyped' /\ RaBlocks'
    <2> DEFINE q == raQueue[d]
               q2 == Append(q, b)
    <2>1. /\ q2 \in Seq(AnyLine) /\ DOMAIN q = 1..Len(q) /\ DOMAIN q2 = 1..(Len(q) + 1)
          /\ \A k \in DOMAIN q : q2[k] = q[k]
          /\ q2[Len(q) + 1] = b /\ Len(q) \in Nat
        BY AddedTo DEF RaTyped
    <2>2. raQueue' = [raQueue EXCEPT ![d] = q2]
        BY <1>3 DEF Puts
    <2> HIDE DEF q2
    <2>3. \A k \in DOMAIN q2 : q2[k] \in RaBlock
        BY <2>1 DEF RaBlocks
    <2> QED
        BY <1>3, <2>1, <2>2, <2>3 DEF RaTyped, RaBlocks
<1>4. mixed \subseteq RaClient
    BY DEF RaTyped
<1>5. ASSUME UNCHANGED <<ra, address, received, raQueue>>, mixed' \subseteq RaClient
      PROVE  RaTyped' /\ RaBlocks'
    BY <1>5 DEF RaTyped, RaBlocks
<1> QED
    BY <1>1, <1>2, <1>3, <1>4, <1>5, RaMoves

(* A new connection lies where no other does. *)
LEMMA OneSocketStep ==
    IInv /\ Bounded /\ RaTyped /\ OneSocketEach /\ [Next]_vars => OneSocketEach'
<1> SUFFICES ASSUME IInv, Bounded, RaTyped, OneSocketEach, [Next]_vars PROVE OneSocketEach'
    OBVIOUS
<1>1. CASE UNCHANGED <<ra, address>>
    BY <1>1 DEF OneSocketEach, Live
<1>2. ASSUME NEW c \in RaClient, RaThread(c)
      PROVE  OneSocketEach'
    <2>1. CASE Accept(c)
        <3>1. PICK a \in Address : At(a) = {} /\ address' = [address EXCEPT ![c] = a]
            BY <2>1 DEF Accept
        <3>2. \A d \in RaClient : Live(d) => address[d] # a
            BY <3>1 DEF At
        <3>3. \A d \in RaClient : d # c => (Live(d)' <=> Live(d)) /\ address'[d] = address[d]
            BY <2>1, <3>1 DEF Accept, RaStep, RaTyped, Live
        <3>4. address'[c] = a
            BY <3>1 DEF RaTyped
        <3> QED
            BY <3>2, <3>3, <3>4 DEF OneSocketEach
    <2>2. CASE ~Accept(c)
        <3>1. address' = address /\ \A d \in RaClient : Live(d)' => Live(d)
            BY <1>2, <2>2 DEF RaThread, RaEnds, Authenticate, RaCommand, RaQuit, RaSend, RaSendFails,
                              RaAnswered, RaStep, RaTyped, Live
        <3> QED
            BY <3>1 DEF OneSocketEach
    <2> QED
        BY <2>1, <2>2
<1> QED
    BY <1>1, <1>2, RaMoves DEF raVars

(* Every step keeps what connections rest on. *)
LEMMA RInvStep == IInv /\ RInv /\ [Next]_vars => RInv'
<1> SUFFICES ASSUME IInv, RInv, [Next]_vars PROVE RInv'
    OBVIOUS
<1>1. Bounded' /\ RaTyped' /\ OneSocketEach' /\ RaBlocks'
    BY BoundedStep, RaTypedStep, OneSocketStep DEF RInv
<1>2. mixed \subseteq mixed'
    <2>1. ASSUME NEW c \in RaClient, RaThread(c) PROVE mixed' = mixed
        BY <2>1 DEF RaThread, Accept, RaEnds, Authenticate, RaCommand, RaQuit, RaSend, RaSendFails,
                    RaAnswered, RaOthers
    <2> QED
        BY <2>1, RaMoves DEF RInv, raVars
<1>3. \A c \in RaClient \ mixed' : Fine(c)'
    BY <1>2, FineStep DEF RInv, Fine
<1> QED
    BY <1>1, <1>3 DEF RInv, Fine

-----------------------------------------------------------------------------
(* The types of the module. *)
LEMMA InvTyped == IInv /\ RInv => TypeOK
<1> SUFFICES ASSUME IInv, RInv PROVE TypeOK
    OBVIOUS
<1>0. Typed /\ Bounded /\ RaTyped /\ MaxOutput \in Nat /\ MaxCommands \in [Source -> Nat]
    BY RemoteAssumption DEF IInv, RInv
<1>1. ASSUME NEW t \in AnyCommand, t.n >= 1, t.n <= asked[t.from]
      PROVE  t \in Command
    <2>1. t.from \in Source /\ t.n \in 1..MaxCommands[t.from]
        BY <1>0, <1>1 DEF AnyCommand, Bounded, Typed
    <2>2. t \in [from : {t.from}, n : 1..MaxCommands[t.from]]
        BY <2>1 DEF AnyCommand
    <2> QED
        BY <2>1, <2>2 DEF Command
<1>2. \A k \in DOMAIN cliCmdQueue : cliCmdQueue[k] \in Command
    <2> SUFFICES ASSUME NEW k \in DOMAIN cliCmdQueue PROVE cliCmdQueue[k] \in Command
        OBVIOUS
    <2>1. cliCmdQueue[k] \in AnyCommand
        BY <1>0, ElementOfSeq, LenProperties DEF Typed
    <2> QED
        BY <1>0, <1>1, <2>1 DEF Bounded
<1>3. command \in Command \union {NoCommand}
    BY <1>0, <1>1 DEF Typed, Bounded
<1>4. ASSUME NEW c \in RaClient
      PROVE  Range(raQueue[c]) \subseteq
                {Break} \union UNION {LineOf(s) : s \in IF c \in mixed THEN RaClient ELSE {c}}
    <2>1. ASSUME NEW k \in DOMAIN raQueue[c], c \notin mixed
          PROVE  raQueue[c][k] \in LineOf(c) \union {Break}
        <3>1. raQueue[c][k] \in AnyLine
            BY <1>0, ElementOfSeq, LenProperties DEF RaTyped
        <3>2. raQueue[c][k] = Break \/ Printed(c, raQueue[c][k])
            BY <2>1 DEF RInv, InOrder
        <3>3. MaxCommands[c] \in Nat
            BY <1>0 DEF Source
        <3> QED
            BY <1>0, <3>1, <3>2, <3>3 DEF Printed, LineOf, AnyLine
    <2>2. CASE c \notin mixed
        BY <2>1, <2>2 DEF Range
    <2>3. CASE c \in mixed
        BY <2>3 DEF RInv, RaBlocks, RaBlock, Range
    <2> QED
        BY <2>2, <2>3
<1>5. Range(connection.m_printBuffer) \subseteq LineOf(Soap)
    <2> SUFFICES ASSUME NEW k \in DOMAIN connection.m_printBuffer
                 PROVE  connection.m_printBuffer[k] \in LineOf(Soap)
        BY DEF Range
    <2>1. connection.m_printBuffer[k] = [n |-> asked[Soap], line |-> k]
        BY DEF IInv, SoapOutput
    <2>2. connection.m_printBuffer \in Seq(AnyLine)
        BY <1>0 DEF Typed, SoapCommand
    <2>3. k \in 1..MaxOutput
        BY <1>0, <2>2, LenProperties DEF Bounded
    <2>4. asked[Soap] \in 1..MaxCommands[Soap]
        <3>1. connection # NewConnection
            BY DEF NewConnection
        <3>2. soap = "acquire"
            BY <3>1 DEF IInv, SoapOutput
        <3> QED
            BY <1>0, <3>2 DEF Bounded, Typed, Source
    <2> QED
        BY <2>1, <2>3, <2>4 DEF LineOf
<1>6. connection.pendingCommands \in 0..1
    BY <1>0 DEF Typed, SoapCommand, Bounded
<1>7. printed \in 0..MaxOutput
    BY <1>0 DEF Typed, Bounded
<1> QED
    BY <1>0, <1>2, <1>3, <1>4, <1>5, <1>6, <1>7 DEF TypeOK, Bounded, Typed, RaTyped, RaPlace

(* Without the break, what is queued are lines. *)
LEMMA UnsentLines ==
    ASSUME RaTyped, NEW c \in RaClient, Fine(c)
    PROVE  /\ Unsent(c) \in Seq(AnyLine)
           /\ \A k \in DOMAIN Unsent(c) :
                 k \in DOMAIN raQueue[c] /\ Unsent(c)[k] = raQueue[c][k] /\ raQueue[c][k] # Break
<1> DEFINE q == raQueue[c]
           n == Len(q) - 1
           u == SubSeq(q, 1, n)
<1>1. q \in Seq(AnyLine) /\ Len(q) \in Nat /\ DOMAIN q = 1..Len(q)
    BY LenProperties DEF RaTyped
<1>2. \A k \in DOMAIN q : q[k] # Break \/ k = Len(q)
    <2>1. ~Printed(c, Break)
        BY DEF Printed, Break
    <2> QED
        BY <2>1 DEF Fine, InOrder
<1>3. CASE q # <<>> /\ q[Len(q)] = Break
    <2>1. Unsent(c) = u
        BY <1>3 DEF Unsent
    <2>2. n \in Nat /\ n <= Len(q)
        BY <1>1, <1>3, EmptySeq
    <2>3. /\ \A k \in 1..n : u[k] = q[k]
          /\ Len(u) = n
          /\ u \in Seq(AnyLine)
        BY <1>1, <2>2, SubSeqProperties
    <2>4. DOMAIN u = 1..n
        BY <2>3, LenProperties
    <2> HIDE DEF u
    <2>5. \A k \in DOMAIN u : k \in DOMAIN q /\ u[k] = q[k] /\ q[k] # Break
        BY <1>1, <1>2, <2>2, <2>3, <2>4
    <2> QED
        BY <2>1, <2>3, <2>5
<1>4. CASE ~(q # <<>> /\ q[Len(q)] = Break)
    <2>1. Unsent(c) = q
        BY <1>4 DEF Unsent
    <2>2. \A k \in DOMAIN q : q[k] # Break
        BY <1>1, <1>2, <1>4
    <2> QED
        BY <1>1, <2>1, <2>2
<1> QED
    BY <1>3, <1>4

(* What a client has got, and then what is queued for it, is in order. *)
LEMMA FineLines ==
    ASSUME RaTyped, NEW c \in RaClient, Fine(c)
    PROVE  LET lines == received[c] \o Unsent(c)
           IN  /\ \A k \in DOMAIN lines : lines[k].n = asked[c]
               /\ \A j, k \in DOMAIN lines : j < k => lines[j].line < lines[k].line
<1> DEFINE got == received[c]
           u == Unsent(c)
           lines == got \o u
<1>1. got \in Seq(AnyLine) /\ u \in Seq(AnyLine)
    BY UnsentLines DEF RaTyped
<1>2. /\ \A k \in DOMAIN got : got[k].n = asked[c]
      /\ \A k \in DOMAIN u : u[k].n = asked[c]
      /\ \A j, k \in DOMAIN got : j < k => got[j].line < got[k].line
      /\ \A j, k \in DOMAIN u : j < k => u[j].line < u[k].line
      /\ \A j \in DOMAIN got, k \in DOMAIN u : got[j].line < u[k].line
    <2>1. \A k \in DOMAIN u : k \in DOMAIN raQueue[c] /\ u[k] = raQueue[c][k] /\ raQueue[c][k] # Break
        BY UnsentLines
    <2> HIDE DEF u
    <2> QED
        BY <2>1 DEF Fine, InOrder, Printed
<1> HIDE DEF got, u
<1>3. /\ lines \in Seq(AnyLine) /\ Len(lines) = Len(got) + Len(u)
      /\ Len(got) \in Nat /\ Len(u) \in Nat
      /\ DOMAIN got = 1..Len(got) /\ DOMAIN u = 1..Len(u) /\ DOMAIN lines = 1..Len(lines)
      /\ \A k \in 1..Len(lines) : lines[k] = IF k <= Len(got) THEN got[k] ELSE u[k - Len(got)]
    BY <1>1, ConcatProperties, LenProperties
<1> HIDE DEF lines
<1>4. ASSUME NEW k \in DOMAIN lines
      PROVE  \/ k \in DOMAIN got /\ lines[k] = got[k]
             \/ k - Len(got) \in DOMAIN u /\ lines[k] = u[k - Len(got)] /\ k > Len(got)
    BY <1>3
<1>5. \A k \in DOMAIN lines : lines[k].n = asked[c]
    BY <1>2, <1>4
<1>6. ASSUME NEW j \in DOMAIN lines, NEW k \in DOMAIN lines, j < k
      PROVE  lines[j].line < lines[k].line
    <2>1. CASE k \in DOMAIN got /\ lines[k] = got[k]
        <3>1. j \in DOMAIN got /\ lines[j] = got[j]
            BY <1>3, <1>6, <2>1
        <3> QED
            BY <1>2, <1>6, <2>1, <3>1
    <2>2. CASE k - Len(got) \in DOMAIN u /\ lines[k] = u[k - Len(got)]
        <3>1. CASE j \in DOMAIN got /\ lines[j] = got[j]
            BY <1>2, <2>2, <3>1
        <3>2. CASE j - Len(got) \in DOMAIN u /\ lines[j] = u[j - Len(got)]
            <4>1. j - Len(got) < k - Len(got)
                BY <1>3, <1>6
            <4> QED
                BY <1>2, <2>2, <3>2, <4>1
        <3> QED
            BY <1>4, <3>1, <3>2
    <2> QED
        BY <1>4, <2>1, <2>2
<1> QED
    BY <1>5, <1>6 DEF lines, got, u

(* What connections rest on holds, for any number of them, any addresses and   *)
(* bounds on blocks and lines, through lost clients, full queues and RASockets *)
(* that are allocated where a deleted one was: an RASocket is that of one      *)
(* connection, and the queue of one that no other's command has used holds     *)
(* lines of its own command.                                                   *)
THEOREM ConnectionInvariant == Spec => []RInv
<1>1. IInv /\ RInv /\ [Next]_vars => RInv'
    BY RInvStep
<1> QED
    BY <1>1, InitRInv, Invariant, PTL DEF Spec

(* A client gets lines of the command it waits for, in the order in which they *)
(* were printed, and is asked for the next when nothing of the last is left,   *)
(* unless its RASocket lies where a deleted one was whose command then ran on. *)
THEOREM AnswersComeInOrder == Spec => []AnswersInOrder
<1>1. ASSUME IInv, RInv PROVE AnswersInOrder
    <2>1. TypeOK /\ OneSocketEach
        BY <1>1, InvTyped DEF RInv
    <2>2. ASSUME NEW c \in RaClient \ mixed
          PROVE  LET lines == received[c] \o Unsent(c)
                 IN  /\ \A k \in DOMAIN lines : lines[k].n = asked[c]
                     /\ \A j, k \in DOMAIN lines : j < k => lines[j].line < lines[k].line
                     /\ ra[c] = "prompt" /\ world # "halted" => ~Under(c) /\ raQueue[c] = <<>>
        <3>1. RaTyped /\ Fine(c)
            BY <1>1 DEF RInv, Fine
        <3>2. ra[c] = "prompt" => ~Under(c) /\ raQueue[c] = <<>>
            BY <3>1 DEF Fine, OneCommand
        <3> QED
            BY <3>1, <3>2, FineLines
    <2> QED
        BY <2>1, <2>2 DEF AnswersInOrder, OneSocketEach
<1> QED
    BY <1>1, Invariant, ConnectionInvariant, PTL

===============================================================================
