----------------------------- MODULE WorldSocket -----------------------------
(* One client connection: a WorldSocket, the network thread that serves it     *)
(* (the loop of ReactorRunnable::svc around its reactor), the acceptor thread  *)
(* that opens it, and the threads of the game that send packets over it and    *)
(* close it through the WorldSession: the world thread, and the map workers    *)
(* while the world thread waits for them (MapUpdater.tla).                     *)
(*                                                                             *)
(* A packet on its way out is a sequence of cells <<p, k>>, the k-th piece of  *)
(* what was encrypted as the p-th packet.                                      *)
EXTENDS Naturals, FiniteSets, Sequences, SequencesExt

CONSTANTS
    World, Worker, Net,     \* the threads that may run CloseSocket
    OutBufferSize,          \* m_OutBufferSize, in cells
    HighWaterMark,          \* of msg_queue, in cells
    PacketSizes,            \* in cells
    MaxPackets,             \* bound: packets encrypted in a behaviour
    MaxSessions             \* bound: sessions of the socket

ASSUME SocketAssumption ==
    /\ World \notin Worker /\ Net \notin Worker \union {World}
    /\ OutBufferSize \in Nat \ {0}
    /\ HighWaterMark \in Nat \ {0}
    /\ PacketSizes \subseteq 1..OutBufferSize
    /\ MaxPackets \in Nat /\ MaxSessions \in Nat

Game   == Worker \union {World}
Closer == Game \union {Net}

Session == 1..MaxSessions   \* in the order of their creation
NoSession == 0

VARIABLES
    open,           \* where WorldSocket::open is
    closing_,
    m_Session,      \* the session the socket points to
    m_OutActive,
    m_OutBuffer,
    msg_queue,
    refs,           \* the reference count; the socket is deleted when it is zero
    registered,     \* with the reactor
    writeMask,      \* the reactor watches for output
    managed,        \* "no", in m_NewSockets ("new"), in m_Sockets ("yes"), "dropped"
    net,            \* where the network thread is with this socket
    caller,         \* of Update or handle_output: "input", "reactor" at first, "loop"
    closer,         \* where each thread is in CloseSocket
    session,        \* the life of each WorldSession
    m_Socket,       \* the sessions whose pointer to the socket is set
    world,          \* the session that the world thread is deleting
    client,
    encrypted,      \* packets encrypted so far
    accepted,       \* history: the cells that SendPacket took
    wire            \* history: the cells that were sent

outVars   == <<m_OutBuffer, msg_queue, encrypted, accepted>>
netVars   == <<net, caller>>
socketVars == <<open, closing_, refs, managed>>
reactorVars == <<registered, writeMask>>
sessionVars == <<session, m_Socket, world>>
vars == <<socketVars, m_Session, m_OutActive, outVars, reactorVars, netVars, closer,
          sessionVars, client, wire>>

Init ==
    /\ open = "start"
    /\ closing_ = FALSE
    /\ m_Session = NoSession
    /\ m_OutActive = FALSE
    /\ m_OutBuffer = <<>>
    /\ msg_queue = <<>>
    /\ refs = 1
    /\ registered = FALSE /\ writeMask = FALSE
    /\ managed = "no"
    /\ net = "reactor" /\ caller = "loop"
    /\ closer = [t \in Closer |-> "idle"]
    /\ session = [s \in Session |-> "none"] /\ m_Socket = {} /\ world = NoSession
    /\ client = "here"
    /\ encrypted = 0 /\ accepted = <<>> /\ wire = <<>>

-----------------------------------------------------------------------------
(* AddReference and RemoveReference. The operators named Mutant... are faulty  *)
(* variants of the definition that follows, for the sensitivity of the checks. *)
TakeReference == refs' = refs + 1

(* The reference is kept. *)
MutantKeepReference == refs' = refs

DropReference == refs' = refs - 1

-----------------------------------------------------------------------------
(* SendPacket, under m_OutBufferLock. *)

Packet(size) == [k \in 1..size |-> <<encrypted + 1, k>>]


(* A packet may overtake those of the queue. *)
MutantOvertakes(size) == Len(m_OutBuffer) + size <= OutBufferSize

FitsBuffer(size) == Len(m_OutBuffer) + size <= OutBufferSize /\ msg_queue = <<>>

(* The queue of ACE counts the blocks at their full size, also one that was    *)
(* sent in part, and is full when it has reached the mark.                     *)
BlockSize(block) == Last(block)[2]
IsFull(queue) == FoldLeft(LAMBDA n, block : n + BlockSize(block), 0, queue) >= HighWaterMark

Refused(size) == ~FitsBuffer(size) /\ IsFull(msg_queue)

(* The packet is encrypted, and then put into the buffer, or the queue, or     *)
(* refused by a full queue. A closed socket takes none.                        *)
SendPacket(size) ==
    /\ ~closing_
    /\ encrypted < MaxPackets
    /\ encrypted' = encrypted + 1
    /\ IF Refused(size)
       THEN UNCHANGED <<m_OutBuffer, msg_queue, accepted>>
       ELSE /\ accepted' = accepted \o Packet(size)
            /\ IF FitsBuffer(size)
               THEN m_OutBuffer' = m_OutBuffer \o Packet(size) /\ UNCHANGED msg_queue
               ELSE msg_queue' = Append(msg_queue, Packet(size)) /\ UNCHANGED m_OutBuffer

-----------------------------------------------------------------------------
(* The acceptor thread: WorldSocket::open. *)

OpenVars == <<m_Session, netVars, closer, sessionVars, client, wire>>

(* No option of the new socket can be set: close takes the only reference. *)
OpenFails ==
    /\ open = "start"
    /\ open' = "failed"
    /\ closing_' = TRUE
    /\ DropReference
    /\ UNCHANGED <<managed, m_OutActive, outVars, reactorVars, OpenVars>>

(* m_OutActive is not set beforehand. *)
MutantNotActive == m_OutActive' = FALSE

(* It keeps the network thread from using the buffer before there is one. *)
HoldUpdates == m_OutActive' = TRUE

(* OnSocketOpen and AddSocket: from here on the network thread knows it. *)
OpenManaged ==
    /\ open = "start"
    /\ open' = "managed"
    /\ HoldUpdates
    /\ managed' = "new"
    /\ TakeReference
    /\ UNCHANGED <<closing_, outVars, reactorVars, OpenVars>>

(* The buffer is allocated and the challenge put into it; the address of a     *)
(* client that has gone cannot be told.                                        *)
OpenReady ==
    /\ open = "managed"
    /\ IF client = "gone"
       THEN /\ open' = "failed"
            /\ closing_' = TRUE
            /\ DropReference
            /\ UNCHANGED outVars
       ELSE /\ open' = "ready"
            /\ \E size \in PacketSizes : SendPacket(size)
            /\ UNCHANGED <<closing_, refs>>
    /\ UNCHANGED <<managed, m_OutActive, reactorVars, OpenVars>>

OpenRegistered ==
    /\ open = "ready"
    /\ open' = "registered"
    /\ registered' = TRUE
    /\ writeMask' = TRUE
    /\ TakeReference
    /\ UNCHANGED <<closing_, managed, m_OutActive, outVars, OpenVars>>

OpenDone ==
    /\ open = "registered"
    /\ open' = "done"
    /\ DropReference
    /\ UNCHANGED <<closing_, managed, m_OutActive, outVars, reactorVars, OpenVars>>

-----------------------------------------------------------------------------
(* CloseSocket: two critical sections, one for each lock. *)

CloseWriter(t) ==
    /\ closer[t] = "first"
    /\ closing_' = TRUE
    /\ closer' = [closer EXCEPT ![t] = IF closing_ THEN "idle" ELSE "second"]
    /\ UNCHANGED <<open, refs, managed, m_Session, m_OutActive, outVars, reactorVars, netVars,
                   sessionVars, client, wire>>

(* The session pointer is left alone. *)
MutantKeepSession(t) ==
    /\ closer[t] = "second"
    /\ closer' = [closer EXCEPT ![t] = "idle"]
    /\ UNCHANGED <<socketVars, m_Session, m_OutActive, outVars, reactorVars, netVars,
                   sessionVars, client, wire>>

ForgetSession(t) ==
    /\ closer[t] = "second"
    /\ m_Session' = NoSession
    /\ closer' = [closer EXCEPT ![t] = "idle"]
    /\ UNCHANGED <<socketVars, m_OutActive, outVars, reactorVars, netVars, sessionVars,
                   client, wire>>

-----------------------------------------------------------------------------
(* The threads of the game. Workers run only while the world thread waits.     *)

Runs(t) ==
    /\ closer[t] = "idle"
    /\ world = NoSession
    /\ IF t = World THEN \A w \in Worker : closer[w] = "idle" ELSE closer[World] = "idle"

GameVars == <<socketVars, m_Session, m_OutActive, reactorVars, netVars, client, wire>>

InGame(s) == session[s] = "active" /\ s \in m_Socket

(* WorldSession::SendPacket closes the socket when it does not take a packet.  *)
SessionSends(t, s) ==
    /\ Runs(t)
    /\ InGame(s)
    /\ net = "pong" => encrypted + 1 < MaxPackets  \* bound: one is left for the pong
    /\ \E size \in PacketSizes :
          /\ SendPacket(size)
          /\ closer' = IF Refused(size) THEN [closer EXCEPT ![t] = "first"] ELSE closer
    /\ UNCHANGED <<GameVars, sessionVars>>

(* WorldSession::KickPlayer; on a closed socket it does nothing. *)
Kick(t, s) ==
    /\ Runs(t)
    /\ InGame(s) /\ ~closing_
    /\ closer' = [closer EXCEPT ![t] = "first"]
    /\ UNCHANGED <<GameVars, outVars, sessionVars>>

(* World::AddSession_. *)
TakeSession(s) ==
    /\ Runs(World)
    /\ session[s] = "queued"
    /\ session' = [session EXCEPT ![s] = "active"]
    /\ UNCHANGED <<GameVars, outVars, closer, m_Socket, world>>

(* It rejects the session, or replaces it by a newer one: kick and delete. *)
DiscardSession(s) ==
    /\ Runs(World)
    /\ session[s] \in {"queued", "active"}
    /\ world' = s
    /\ closer' = [closer EXCEPT ![World] = "first"]
    /\ UNCHANGED <<GameVars, outVars, session, m_Socket>>

(* With its destructor, which drops the reference. *)
DeletesSession(s) ==
    /\ session' = [session EXCEPT ![s] = "deleted"]
    /\ m_Socket' = m_Socket \ {s}
    /\ DropReference
    /\ world' = NoSession
    /\ UNCHANGED <<open, closing_, managed, m_Session, m_OutActive, outVars, reactorVars,
                   netVars, closer, client, wire>>

SessionDiscarded ==
    /\ world # NoSession
    /\ closer[World] = "idle"
    /\ DeletesSession(world)

(* WorldSession::Update finds the socket closed. *)
UpdateSession(s) ==
    /\ Runs(World)
    /\ session[s] = "active"
    /\ closing_
    /\ DeletesSession(s)

-----------------------------------------------------------------------------
(* The network thread: ReactorRunnable::svc. *)

Begins(for, to) == net = "reactor" /\ net' = to /\ caller' = for

NetReaches(to) ==
    /\ net' = to
    /\ caller' = IF to = "reactor" \/ caller = "loop" THEN "loop" ELSE "input"

NetGoes(from, to) == net = from /\ NetReaches(to)

InputVars == <<socketVars, reactorVars, m_OutActive, closer, client, wire>>

(* A whole packet, or a part of one; a client that has gone may have left some *)
(* behind. ProcessIncoming tests closing_ before it takes a lock. A malformed  *)
(* one has a bad header, or is too short for a handler that reads it at once.  *)
Receive ==
    /\ registered /\ ~closing_
    /\ \E to \in {"update", "auth", "packet", "ping", "malformed", "close"} :
          Begins("input", to)
    /\ UNCHANGED <<InputVars, m_Session, outVars, sessionVars>>

(* The error of a malformed packet names the account of m_Session and, for a   *)
(* bad header, its player: the pointer is tested, and then read again and      *)
(* used, without m_SessionLock. One such pair stands for those of the code.    *)
TestSession ==
    /\ NetGoes("malformed", IF m_Session # NoSession THEN "report" ELSE "close")
    /\ UNCHANGED <<InputVars, m_Session, outVars, sessionVars>>

(* What the world thread may delete meanwhile: the session, the player of one  *)
(* that is in the game. A use after that is undefined: all goes well, or the   *)
(* process crashes (the other threads are let go on here).                     *)
MayBeDeleted == m_Session # NoSession => session[m_Session] \in {"active", "deleted"}

Report ==
    /\ \/ NetGoes("report", "close")
       \/ MayBeDeleted /\ NetGoes("report", "crashed")
    /\ UNCHANGED <<InputVars, m_Session, outVars, sessionVars>>

(* handle_input of a socket that is closed already, or whose client has gone. *)
InputFails ==
    /\ registered
    /\ closing_ \/ client = "gone"
    /\ Begins("input", "close")
    /\ UNCHANGED <<InputVars, m_Session, outVars, sessionVars>>

(* HandleAuthSession, for an account that may not play. *)
AuthFails ==
    /\ NetGoes("auth", "close")
    /\ \/ UNCHANGED outVars
       \/ m_Session = NoSession /\ \E size \in PacketSizes : SendPacket(size)
    /\ UNCHANGED <<InputVars, m_Session, sessionVars>>

(* m_Session is tested without its lock, and after closing_: a client that     *)
(* authenticates again while its session is being deleted gets a second one.   *)
(* The constructor takes a reference.                                          *)
AuthSucceeds(s) ==
    /\ NetGoes("auth", "addSession")
    /\ m_Session = NoSession
    /\ s = Cardinality({r \in Session : session[r] # "none"}) + 1
    /\ m_Session' = s
    /\ session' = [session EXCEPT ![s] = "created"]
    /\ m_Socket' = m_Socket \union {s}
    /\ TakeReference
    /\ UNCHANGED <<open, closing_, managed, reactorVars, m_OutActive, closer, client, wire,
                   outVars, world>>

(* The rest of HandleAuthSession, through m_Session. *)
AddSession ==
    /\ NetGoes("addSession", "update")
    /\ session' = [session EXCEPT ![m_Session] = "queued"]
    /\ UNCHANGED <<InputVars, m_Session, outVars, m_Socket, world>>

(* ReadAddonsInfo reads past the end of what the client sent: the catch leaves *)
(* the new session to nobody.                                                  *)
AddonsFail ==
    /\ NetGoes("addSession", "malformed")
    /\ UNCHANGED <<InputVars, m_Session, outVars, sessionVars>>

(* The default of ProcessIncoming: the packet goes to the session, with        *)
(* m_SessionLock held. A buffer that was full means more input at once.        *)
QueuePacket ==
    /\ IF m_Session # NoSession
       THEN \E to \in {"update", "reactor"} : NetGoes("packet", to)
       ELSE NetGoes("packet", "close")
    /\ UNCHANGED <<InputVars, m_Session, outVars, sessionVars>>

(* HandlePing: the session's latency, with the lock held; pings may come too   *)
(* often.                                                                      *)
SetLatency ==
    /\ \/ m_Session # NoSession /\ encrypted < MaxPackets /\ NetGoes("ping", "pong")
       \/ NetGoes("ping", "close")
    /\ UNCHANGED <<InputVars, m_Session, outVars, sessionVars>>

Pong ==
    /\ \/ \E size \in PacketSizes :
             /\ SendPacket(size)
             /\ NetGoes("pong", IF Refused(size) THEN "close" ELSE "update")
       \/ NetGoes("pong", "close") /\ closing_ /\ UNCHANGED outVars
    /\ UNCHANGED <<InputVars, m_Session, sessionVars>>

(* handle_close, its two critical sections; the reactor lets the socket go. *)
HandleClose ==
    /\ NetGoes("close", "unregister")
    /\ closing_' = TRUE
    /\ UNCHANGED <<open, refs, managed, reactorVars, m_OutActive, closer, client, wire,
                   m_Session, outVars, sessionVars>>

Unregister ==
    /\ NetGoes("unregister", "reactor")
    /\ m_Session' = NoSession
    /\ registered' = FALSE
    /\ writeMask' = FALSE
    /\ DropReference
    /\ UNCHANGED <<open, closing_, managed, m_OutActive, closer, client, wire, outVars,
                   sessionVars>>

-----------------------------------------------------------------------------
(* Output: Update, which the loop and handle_input call, and handle_output,    *)
(* which Update and the reactor call.                                          *)

OutputVars == <<socketVars, registered, closer, client, m_Session, encrypted, accepted,
                sessionVars>>

(* The loop goes on as if nothing had happened. *)
MutantIgnored == IF caller = "loop" THEN "reactor" ELSE "close"

Failure == IF caller = "loop" THEN "drop" ELSE "close"

HasNothing == m_OutActive \/ (m_OutBuffer = <<>> /\ msg_queue = <<>>)

Update ==
    /\ NetGoes("update", IF closing_ THEN Failure
                         ELSE IF HasNothing THEN "reactor" ELSE "output")
    /\ UNCHANGED <<OutputVars, m_OutBuffer, msg_queue, m_OutActive, writeMask, wire>>

(* The reactor finds the socket ready for output. *)
ReactorOutput ==
    /\ registered /\ writeMask
    /\ Begins("reactor", "output")
    /\ UNCHANGED <<OutputVars, m_OutBuffer, msg_queue, m_OutActive, writeMask, wire>>

(* schedule_wakeup_output and cancel_wakeup_output. *)
Scheduled == [active |-> TRUE, mask |-> writeMask \/ ~m_OutActive]

(* The flag stays set. *)
MutantNotCancelled == [active |-> m_OutActive, mask |-> FALSE]

Cancelled == [active |-> FALSE, mask |-> writeMask /\ ~m_OutActive]

(* The step sends some cells and leaves these in the buffer and the queue. *)
Sends(cells, buffer, queue, wakeup, to) ==
    /\ wire' = wire \o cells
    /\ m_OutBuffer' = buffer
    /\ msg_queue' = queue
    /\ m_OutActive' = wakeup.active
    /\ writeMask' = wakeup.mask
    /\ NetReaches(to)

(* handle_output_queue, after the cells of the buffer: n cells of the first    *)
(* packet are sent. The rest of it is put back, which fails in a queue that is *)
(* still full, and the packet is lost: an error, but not if nothing was sent.  *)
DrainQueue(cells, least) ==
    IF msg_queue = <<>>
    THEN Sends(cells, <<>>, <<>>, Cancelled, "reactor")
    ELSE LET head == Head(msg_queue)
             rest == Tail(msg_queue)
             Unchanged == [active |-> m_OutActive, mask |-> writeMask]
         IN  \E n \in least..Len(head) :
                LET sent == cells \o SubSeq(head, 1, n)
                IN  CASE n = Len(head) /\ rest = <<>> ->
                           Sends(sent, <<>>, <<>>, Cancelled, "reactor")
                      [] n = Len(head) /\ rest # <<>> ->
                           Sends(sent, <<>>, rest, Unchanged, "output")
                      [] n < Len(head) /\ ~IsFull(rest) ->
                           Sends(sent, <<>>, <<SubSeq(head, n + 1, Len(head))>> \o rest,
                                 Scheduled, "reactor")
                      [] n = 0 /\ IsFull(rest) -> Sends(sent, <<>>, rest, Scheduled, "reactor")
                      [] OTHER -> Sends(sent, <<>>, rest, Unchanged, Failure)

(* handle_output, under m_OutBufferLock. *)
HandleOutput ==
    /\ net = "output"
    /\ ~closing_ /\ client = "here"
    /\ LET least == IF caller = "reactor" THEN 1 ELSE 0
           size  == Len(m_OutBuffer)
       IN  IF size = 0
           THEN DrainQueue(<<>>, least)
           ELSE \/ \E n \in least..(size - 1) :
                      Sends(SubSeq(m_OutBuffer, 1, n), SubSeq(m_OutBuffer, n + 1, size),
                            msg_queue, Scheduled, "reactor")
                \/ DrainQueue(m_OutBuffer, 0)
    /\ UNCHANGED OutputVars

OutputFails ==
    /\ closing_ \/ client = "gone"
    /\ NetGoes("output", Failure)
    /\ UNCHANGED <<OutputVars, m_OutBuffer, msg_queue, m_OutActive, writeMask, wire>>

-----------------------------------------------------------------------------
(* The rest of the loop: AddNewSockets, Update, and a socket that is dropped.  *)

LoopVars == <<open, closing_, reactorVars, m_Session, m_OutActive, outVars, sessionVars,
              client, wire>>

AddNewSockets ==
    /\ CASE managed = "new" /\ closing_ ->
              NetGoes("reactor", "reactor") /\ managed' = "dropped" /\ DropReference
         [] managed = "new" /\ ~closing_ ->
              Begins("loop", "update") /\ managed' = "yes" /\ UNCHANGED refs
         [] managed = "yes" -> Begins("loop", "update") /\ UNCHANGED <<managed, refs>>
         [] OTHER -> FALSE
    /\ UNCHANGED <<LoopVars, closer>>

StartDrop ==
    /\ NetGoes("drop", "dropping")
    /\ closer' = [closer EXCEPT ![Net] = "first"]
    /\ UNCHANGED <<LoopVars, managed, refs>>

Drop ==
    /\ closer[Net] = "idle"
    /\ NetGoes("dropping", "reactor")
    /\ managed' = "dropped"
    /\ DropReference
    /\ UNCHANGED <<LoopVars, closer>>

ClientLeaves ==
    /\ client = "here"
    /\ client' = "gone"
    /\ UNCHANGED <<socketVars, m_Session, m_OutActive, outVars, reactorVars, netVars, closer,
                   sessionVars, wire>>

(* The session that the catch of ProcessIncoming forgot: never queued, it is   *)
(* never deleted and holds its reference to the socket for good.               *)
Forgotten(s) == session[s] = "created" /\ m_Session # s

CanEnd == net # "crashed" /\ ~\E s \in Session : Forgotten(s)

(* The socket is gone and so is its client, or neither will ever be. *)
Gone == ((refs = 0 /\ client = "gone") \/ ~CanEnd) /\ UNCHANGED vars

Open == OpenFails \/ OpenManaged \/ OpenReady \/ OpenRegistered \/ OpenDone

CloseSocket(t) == CloseWriter(t) \/ ForgetSession(t)

(* What the network thread does once it has begun; the rest is its choice.     *)
NetworkWork ==
    \/ TestSession \/ Report
    \/ AuthFails \/ (\E s \in Session : AuthSucceeds(s)) \/ AddSession \/ AddonsFail
    \/ QueuePacket \/ SetLatency \/ Pong
    \/ HandleClose \/ Unregister
    \/ Update \/ HandleOutput \/ OutputFails
    \/ StartDrop \/ Drop

UpdateSessions == \E s \in Session : TakeSession(s) \/ UpdateSession(s)

Next ==
    \/ Open
    \/ \E t \in Closer : CloseSocket(t)
    \/ \E s \in Session :
          \/ \E t \in Game : SessionSends(t, s) \/ Kick(t, s)
          \/ DiscardSession(s)
    \/ UpdateSessions
    \/ SessionDiscarded
    \/ Receive \/ InputFails \/ ReactorOutput \/ AddNewSockets \/ NetworkWork
    \/ ClientLeaves
    \/ Gone

Spec == Init /\ [][Next]_vars

(* Threads run. The loop of the network thread goes round, its reactor serves  *)
(* what is ready, and a client that does not read goes in the end; the world   *)
(* thread updates its sessions while no worker runs. Nobody need send or kick. *)
Fairness ==
    /\ WF_vars(Open)
    /\ \A t \in Closer : WF_vars(CloseSocket(t))
    /\ WF_vars(NetworkWork)
    /\ SF_vars(AddNewSockets)
    /\ SF_vars(ReactorOutput)
    /\ SF_vars(InputFails /\ client = "gone")
    /\ SF_vars(UpdateSessions)
    /\ WF_vars(SessionDiscarded)

FairSpec == Spec /\ Fairness

-----------------------------------------------------------------------------
Cells == (1..MaxPackets) \X (1..OutBufferSize)

(* Types; the buffer is never overfilled, which SendPacket asserts.            *)
TypeOK ==
    /\ open \in {"start", "managed", "ready", "registered", "done", "failed"}
    /\ {closing_, m_OutActive, registered, writeMask} \subseteq BOOLEAN
    /\ m_OutBuffer \in Seq(Cells) /\ Len(m_OutBuffer) <= OutBufferSize
    /\ msg_queue \in Seq(Seq(Cells) \ {<<>>})
    /\ refs \in Nat
    /\ managed \in {"no", "new", "yes", "dropped"}
    /\ net \in {"reactor", "update", "output", "auth", "addSession", "packet", "ping", "pong",
                "malformed", "report", "crashed", "close", "unregister", "drop", "dropping"}
    /\ caller \in {"input", "reactor", "loop"}
    /\ closer \in [Closer -> {"idle", "first", "second"}]
    /\ m_Session \in Session \union {NoSession}
    /\ session \in [Session -> {"none", "created", "queued", "active", "deleted"}]
    /\ m_Socket \subseteq Session
    /\ world \in Session \union {NoSession}
    /\ client \in {"here", "gone"}
    /\ encrypted \in 0..MaxPackets
    /\ accepted \in Seq(Cells) /\ wire \in Seq(Cells)

(* While the connection is up, what was sent, what the buffer holds and what   *)
(* the queue holds is, in this order, all that SendPacket accepted: no packet  *)
(* is lost, doubled, torn or overtaken, whoever sends and whenever the kernel  *)
(* takes a part only (the header cipher of the client would lose its place).   *)
OutputInOrder ==
    ~closing_ /\ net \notin {"close", "drop", "dropping"}
        => wire \o m_OutBuffer \o FlattenSeq(msg_queue) = accepted

(* Where the network thread uses the session with m_SessionLock held, to queue *)
(* a packet or to set the latency, the world thread has not deleted it; and    *)
(* while HandleAuthSession goes through m_Session without the lock, nobody     *)
(* takes the pointer away. The error of a malformed packet is not covered.     *)
LockKeepsSession ==
    /\ net \in {"packet", "ping"} /\ m_Session # NoSession
          => session[m_Session] \in {"queued", "active"}
    /\ net = "addSession" => m_Session # NoSession /\ session[m_Session] = "created"

One(condition) == IF condition THEN 1 ELSE 0

OneOwnerEach ==
    refs = One(open \notin {"done", "failed"}) + One(managed \in {"new", "yes"})
         + One(registered) + Cardinality(m_Socket)

NoUseAfterFree ==
    refs = 0 =>
        /\ net = "reactor"
        /\ \A t \in Closer : closer[t] = "idle"
        /\ open \in {"done", "failed"}
        /\ ~registered /\ m_Socket = {} /\ managed \notin {"new", "yes"}

(* Every reference has one owner: the acceptor, the loop of the network        *)
(* thread, its reactor, each session. When the last one is dropped, and the    *)
(* socket deleted, no thread is in one of its functions, or comes back to it.  *)
RefsExact == TypeOK /\ OneOwnerEach /\ NoUseAfterFree

(* The network thread does not look into the buffer before open has allocated  *)
(* it, although it knows of the socket by then.                                *)
UpdateFindsBuffer ==
    (net = "update" /\ ~closing_ /\ ~m_OutActive) \/ net = "output"
        => open \notin {"start", "managed"}

(* What was accepted is sent in the end, once nobody sends more, unless the    *)
(* connection closes: the wakeup for output is never missing. A process that   *)
(* has crashed sends nothing.                                                  *)
SentOrClosed == []<>(wire = accepted \/ closing_ \/ net = "crashed")

(* The socket of a client that has gone is freed, in whatever state it was,    *)
(* unless the catch of ProcessIncoming has forgotten a session.                *)
GoneClientIsFreed == (client = "gone") ~> (refs = 0 \/ ~CanEnd)
=============================================================================
