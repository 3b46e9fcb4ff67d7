----------------------------- MODULE MapSessions -----------------------------
(* The packets of the sessions between the two threads that may handle them:   *)
(* the world thread in World::UpdateSessions, and the worker that updates the  *)
(* map of the player (MapUpdater.tla); and the transfer of players between     *)
(* maps, which begins in either thread and ends in the world thread alone. No  *)
(* lock protects the players of a map: the packet filters have to.             *)
EXTENDS Naturals, Sequences, FiniteSets

CONSTANTS
    Session,        \* each plays one character at most
    Map,
    Home,           \* the homebind map
    World,          \* the world thread; the worker of a map goes by the map's name
    Kinds,          \* bound: the packets that each client sends
    MaxPackets      \* bound: how many each sends, acknowledgements apart

None == "none"

ASSUME MapSessionsAssumption ==
    /\ Home \in Map /\ World \notin Map
    /\ None \notin Session \union Map \union {World}
    /\ MaxPackets \in [Session -> Nat]

(* opcodeTable: a packet of each processing and status that make a difference. *)
Processing ==
    [login |-> "THREADUNSAFE", ack |-> "THREADUNSAFE", unsafe |-> "THREADUNSAFE",
     logout |-> "THREADUNSAFE", safe |-> "THREADSAFE", inplace |-> "INPLACE"]
Status ==
    [login |-> "AUTHED", ack |-> "TRANSFER", unsafe |-> "LOGGEDIN",
     logout |-> "LOGGEDIN", safe |-> "LOGGEDIN", inplace |-> "LOGGEDIN"]

ASSUME KindsAssumption == \A s \in Session : Kinds[s] \subseteq DOMAIN Processing

Thread == Map \union {World}

VARIABLES
    phase,          \* of World::Update: "sessions", or "maps" behind the barrier
    worldTodo,      \* the sessions that UpdateSessions has yet to come to
    mapTodo,        \* the players that each Map::Update has yet to come to
    mapPass,        \* waiting, in its loop over sessions or players, or done
    inHand,         \* the session whose Update each thread is in
    recvQueue,
    char,           \* the player of each session
    logoutTime,     \* it has asked to be logged out
    closed,         \* its socket is
    gone,           \* it has been deleted
    sent            \* how many packets its client has sent

tickVars == <<phase, worldTodo, mapTodo, mapPass, inHand>>
sessionVars == <<recvQueue, char, logoutTime, closed, gone, sent>>
vars == <<tickVars, sessionVars>>

(* _player is NULL; it is being loaded; it is in the world; it is on its way.  *)
(* map: the list of players its MapReference is in. dest, far, delayed:        *)
(* m_teleport_dest while it is used, m_bSemaphoreTeleport_Far,                 *)
(* m_bHasDelayedTeleport.                                                      *)
NoPlayer == [state |-> "none", map |-> None, dest |-> None, far |-> FALSE, delayed |-> FALSE]
Loading == [NoPlayer EXCEPT !.state = "loading"]
PlayerIn(m) == [NoPlayer EXCEPT !.state = "world", !.map = m]

IsInWorld(s) == char[s].state = "world"
PlayersOf(m) == {s \in Session : char[s].map = m}

Init ==
    /\ phase = "sessions"
    /\ worldTodo = Session
    /\ mapTodo = [m \in Map |-> {}]
    /\ mapPass = [m \in Map |-> "done"]
    /\ inHand = [t \in Thread |-> None]
    /\ recvQueue = [s \in Session |-> <<>>]
    /\ char \in [Session -> {NoPlayer} \union {PlayerIn(m) : m \in Map}]
    /\ logoutTime = [s \in Session |-> FALSE]
    /\ closed = [s \in Session |-> FALSE]
    /\ gone = {}
    /\ sent = [s \in Session |-> 0]

-----------------------------------------------------------------------------
(* WorldSession::QueuePacket, by a network thread. *)
Receive(s, kind) == recvQueue' = [recvQueue EXCEPT ![s] = Append(@, kind)]

ClientSends(s, kind) ==
    /\ ~closed[s] /\ kind \in Kinds[s] /\ sent[s] < MaxPackets[s]
    /\ sent' = [sent EXCEPT ![s] = @ + 1]
    /\ Receive(s, kind)
    /\ UNCHANGED <<tickVars, char, logoutTime, closed, gone>>

(* The client has loaded the new map. *)
ClientArrives(s) ==
    /\ ~closed[s] /\ char[s].state = "transit" /\ char[s].far
    /\ \A k \in DOMAIN recvQueue[s] : recvQueue[s][k] # "ack"
    /\ Receive(s, "ack")
    /\ UNCHANGED <<tickVars, char, logoutTime, closed, gone, sent>>

SocketCloses(s) ==
    /\ ~closed[s]
    /\ closed' = [closed EXCEPT ![s] = TRUE]
    /\ UNCHANGED <<tickVars, recvQueue, char, logoutTime, gone, sent>>

-----------------------------------------------------------------------------
(* MapSessionFilter::Process and WorldSessionFilter::Process. Faulty variants, *)
(* for the sensitivity of the checks, as are all operators named Mutant...: a  *)
(* map handles any packet of a player in the world; the world thread never     *)
(* handles a thread-safe packet.                                               *)
MutantMapTakes(s, kind) == IsInWorld(s)
MapTakes(s, kind) ==
    \/ Processing[kind] = "INPLACE"
    \/ Processing[kind] = "THREADSAFE" /\ IsInWorld(s)

MutantWorldTakes(s, kind) == Processing[kind] # "THREADSAFE"
WorldTakes(s, kind) == Processing[kind] # "THREADSAFE" \/ ~IsInWorld(s)

Takes(t, s) ==
    /\ ~closed[s] /\ recvQueue[s] # <<>>
    /\ IF t = World THEN WorldTakes(s, Head(recvQueue[s])) ELSE MapTakes(s, Head(recvQueue[s]))

(* Player::TeleportTo, of the player c to the map m: every outcome. A teleport *)
(* within the map forgets a transfer, one that the destination refuses changes *)
(* nothing, and one inside Player::Update waits for the end of that.           *)
MutantTeleported(c, m, canDelay) ==
    IF m = c.map THEN {[c EXCEPT !.delayed = canDelay, !.dest = IF canDelay \/ c.far THEN m ELSE None]}
    ELSE {c} \union
         {IF canDelay THEN [c EXCEPT !.far = TRUE, !.delayed = TRUE, !.dest = m]
          ELSE [c EXCEPT !.state = "transit", !.far = TRUE, !.delayed = FALSE, !.dest = m]}
Teleported(c, m, canDelay) ==
    IF m = c.map THEN {[c EXCEPT !.far = FALSE, !.delayed = canDelay, !.dest = IF canDelay THEN m ELSE None]}
    ELSE {c} \union
         {IF canDelay THEN [c EXCEPT !.far = TRUE, !.delayed = TRUE, !.dest = m]
          ELSE [c EXCEPT !.state = "transit", !.far = TRUE, !.delayed = FALSE, !.dest = m]}

(* HandleMoveWorldportAckOpcode: into the destination, or, when that cannot be *)
(* entered any more, a teleport to the homebind map, which never refuses. The  *)
(* player is still in the list of the map that he came from: if that is the    *)
(* homebind map this is a teleport within it, of one who is not in the world.  *)
Arrivals(c) ==
    LET here == [c EXCEPT !.far = FALSE]
    IN  IF ~c.far THEN {c}
        ELSE {PlayerIn(c.dest)}
             \union (IF c.dest = Home THEN {} ELSE Teleported(here, Home, FALSE) \ {here})

(* HandlePlayerLogin: the map where the character was may refuse it.           *)
LoggedIn ==
    {NoPlayer} \union
    UNION {UNION {Teleported(PlayerIn(m), d, FALSE) : d \in Map} : m \in Map}

LogoutPlayer(s) ==
    /\ char' = [char EXCEPT ![s] = NoPlayer]
    /\ logoutTime' = [logoutTime EXCEPT ![s] = FALSE]

(* The handler of a packet in thread t, if the status of the player admits it. *)
StatusAdmits(s, kind) ==
    CASE Status[kind] = "AUTHED"   -> TRUE
      [] Status[kind] = "LOGGEDIN" -> IsInWorld(s)
      [] Status[kind] = "TRANSFER" -> char[s].state = "transit"

(* The players that a handler in thread t may teleport. *)
InReach(t, s) ==
    {q \in Session : IsInWorld(q) /\ (t = World \/ char[q].map = char[s].map)}

Handle(t, s, kind) ==
    \/ /\ ~StatusAdmits(s, kind) \/ kind = "inplace"
       /\ UNCHANGED <<char, logoutTime>>
    \/ /\ kind = "login"
       /\ char' = IF char[s] = NoPlayer THEN [char EXCEPT ![s] = Loading] ELSE char
       /\ UNCHANGED logoutTime
    \/ /\ kind = "ack" /\ StatusAdmits(s, kind)
       /\ \E c \in Arrivals(char[s]) : char' = [char EXCEPT ![s] = c]
       /\ UNCHANGED logoutTime
    \/ /\ kind = "logout" /\ StatusAdmits(s, kind)
       /\ \/ LogoutPlayer(s)
          \/ logoutTime' = [logoutTime EXCEPT ![s] = TRUE] /\ UNCHANGED char
    \/ /\ kind \in {"safe", "unsafe"} /\ StatusAdmits(s, kind)
       /\ \/ UNCHANGED char
          \/ \E q \in InReach(t, s), m \in Map : \E c \in Teleported(char[q], m, FALSE) :
                char' = [char EXCEPT ![q] = c]
       /\ UNCHANGED logoutTime

(* One turn of the loop of WorldSession::Update. *)
HandlePacket(t, s) ==
    /\ inHand[t] = s
    /\ Takes(t, s)
    /\ recvQueue' = [recvQueue EXCEPT ![s] = Tail(@)]
    /\ Handle(t, s, Head(recvQueue[s]))
    /\ UNCHANGED <<tickVars, closed, gone, sent>>

-----------------------------------------------------------------------------
(* World::UpdateSessions. *)
TakeSession(s) ==
    /\ phase = "sessions" /\ inHand[World] = None
    /\ s \in worldTodo
    /\ worldTodo' = worldTodo \ {s}
    /\ inHand' = [inHand EXCEPT ![World] = s]
    /\ UNCHANGED <<phase, mapTodo, mapPass, sessionVars>>

Released(t) == inHand' = [inHand EXCEPT ![t] = None]

(* The rest of Update in the world thread: the login callback, the logout that *)
(* is due, and the deletion of a session without a socket.                     *)
EndSession(s) ==
    /\ inHand[World] = s /\ ~Takes(World, s)
    /\ Released(World)
    /\ \/ /\ closed[s]
          /\ gone' = gone \union {s}
          /\ recvQueue' = [recvQueue EXCEPT ![s] = <<>>]
          /\ LogoutPlayer(s)
       \/ /\ ~closed[s]
          /\ \/ UNCHANGED <<char, logoutTime>>
             \/ /\ char[s] = Loading
                /\ \E c \in LoggedIn : char' = [char EXCEPT ![s] = c]
                /\ UNCHANGED logoutTime
             \/ /\ logoutTime[s] /\ char[s] # Loading
                /\ LogoutPlayer(s)
          /\ UNCHANGED <<recvQueue, gone>>
    /\ UNCHANGED <<phase, worldTodo, mapTodo, mapPass, closed, sent>>
SessionsDone == worldTodo = {} /\ inHand[World] = None

StartMaps ==
    /\ phase = "sessions" /\ SessionsDone
    /\ phase' = "maps"
    /\ mapPass' = [m \in Map |-> "waiting"]
    /\ UNCHANGED <<worldTodo, mapTodo, inHand, sessionVars>>

(* Map::Update: first the sessions of its players, then the players. *)
StartMap(m) ==
    /\ mapPass[m] = "waiting"
    /\ mapPass' = [mapPass EXCEPT ![m] = "sessions"]
    /\ mapTodo' = [mapTodo EXCEPT ![m] = PlayersOf(m)]
    /\ UNCHANGED <<phase, worldTodo, inHand, sessionVars>>

TakeMapSession(m, s) ==
    /\ mapPass[m] = "sessions" /\ inHand[m] = None
    /\ s \in mapTodo[m]
    /\ mapTodo' = [mapTodo EXCEPT ![m] = @ \ {s}]
    /\ inHand' = IF IsInWorld(s) THEN [inHand EXCEPT ![m] = s] ELSE inHand
    /\ UNCHANGED <<phase, worldTodo, mapPass, sessionVars>>

EndMapSession(m) ==
    /\ inHand[m] # None /\ ~Takes(m, inHand[m])
    /\ Released(m)
    /\ UNCHANGED <<phase, worldTodo, mapTodo, mapPass, sessionVars>>

NextPass(m) ==
    /\ inHand[m] = None /\ mapTodo[m] = {}
    /\ \/ /\ mapPass[m] = "sessions"
          /\ mapPass' = [mapPass EXCEPT ![m] = "players"]
          /\ mapTodo' = [mapTodo EXCEPT ![m] = PlayersOf(m)]
       \/ /\ mapPass[m] = "players"
          /\ mapPass' = [mapPass EXCEPT ![m] = "done"]
          /\ UNCHANGED mapTodo
    /\ UNCHANGED <<phase, worldTodo, inHand, sessionVars>>

(* Player::Update: a teleport begun in it is delayed to its end, and stays     *)
(* delayed when the player is dead by then or the destination refuses him.     *)
Updated(c) ==
    LET During == {c} \union UNION {Teleported(c, m, TRUE) : m \in Map}
        AtEnd(d) == IF d.delayed THEN {d} \union Teleported(d, d.dest, FALSE) ELSE {d}
    IN  UNION {AtEnd(d) : d \in During}

UpdatePlayer(m, s) ==
    /\ mapPass[m] = "players"
    /\ s \in mapTodo[m]
    /\ mapTodo' = [mapTodo EXCEPT ![m] = @ \ {s}]
    /\ IF IsInWorld(s)
       THEN \E c \in Updated(char[s]) : char' = [char EXCEPT ![s] = c]
       ELSE UNCHANGED char
    /\ UNCHANGED <<phase, worldTodo, mapPass, inHand, recvQueue, logoutTime, closed, gone, sent>>

(* An object of the map, in its update, teleports a player of the map. *)
ObjectTeleports(m, s) ==
    /\ mapPass[m] = "players"
    /\ IsInWorld(s) /\ char[s].map = m
    /\ \E d \in Map : \E c \in Teleported(char[s], d, FALSE) : char' = [char EXCEPT ![s] = c]
    /\ UNCHANGED <<tickVars, recvQueue, logoutTime, closed, gone, sent>>

(* The barrier opens, and the next tick begins. *)
NextTick ==
    /\ phase = "maps"
    /\ \A m \in Map : mapPass[m] = "done"
    /\ phase' = "sessions"
    /\ worldTodo' = Session \ gone
    /\ UNCHANGED <<mapTodo, mapPass, inHand, sessionVars>>

-----------------------------------------------------------------------------
WorldThread ==
    \/ \E s \in Session : TakeSession(s) \/ HandlePacket(World, s) \/ EndSession(s)
    \/ StartMaps \/ NextTick

MapThread(m) ==
    \/ StartMap(m) \/ EndMapSession(m) \/ NextPass(m)
    \/ \E s \in Session : TakeMapSession(m, s) \/ HandlePacket(m, s) \/ UpdatePlayer(m, s)

Next ==
    \/ \E s \in Session :
          ClientArrives(s) \/ SocketCloses(s) \/ (\E kind \in Kinds[s] : ClientSends(s, kind))
    \/ WorldThread
    \/ \E m \in Map : MapThread(m) \/ \E s \in Session : ObjectTeleports(m, s)

Spec == Init /\ [][Next]_vars

(* Threads run, and a client that is told to change the map says when it has.  *)
FairSpec ==
    /\ Spec
    /\ WF_vars(WorldThread)
    /\ \A m \in Map : WF_vars(MapThread(m))
    /\ \A s \in Session : WF_vars(ClientArrives(s))

-----------------------------------------------------------------------------
Character ==
    {NoPlayer, Loading} \union
    [state : {"world", "transit"}, map : Map, dest : Map \union {None},
     far : BOOLEAN, delayed : BOOLEAN]

(* Every variable has its type. *)
TypeOK ==
    /\ phase \in {"sessions", "maps"}
    /\ worldTodo \subseteq Session /\ gone \subseteq Session
    /\ mapTodo \in [Map -> SUBSET Session]
    /\ mapPass \in [Map -> {"waiting", "sessions", "players", "done"}]
    /\ inHand \in [Thread -> Session \union {None}]
    /\ char \in [Session -> Character]
    /\ recvQueue \in [Session -> Seq(DOMAIN Processing)] /\ sent \in [Session -> Nat]
    /\ logoutTime \in [Session -> BOOLEAN] /\ closed \in [Session -> BOOLEAN]

(* While maps are updated no player enters or leaves the list of any map,      *)
(* though players leave the world there: Map::Update walks its list, and other *)
(* threads look into it, without a lock.                                       *)
ListsFrozen ==
    [][phase = "maps" => \A s \in Session : char'[s].map = char[s].map]_vars

(* A destination refused him, and he was on his way from the homebind map.     *)
Stranded(s) == char[s].state = "transit" /\ ~char[s].far /\ char[s].map = Home

HeldOnce ==
    /\ \A t, u \in Thread : inHand[t] # None /\ inHand[t] = inHand[u] => t = u
    /\ \A t \in Thread : inHand[t] \notin gone

MapHoldsItsOwn ==
    \A m \in Map :
        inHand[m] # None => phase = "maps" /\ char[inHand[m]].map = m

FarIsPending ==
    \A s \in Session :
        /\ IsInWorld(s) /\ char[s].far => char[s].delayed
        /\ char[s].state = "transit" => char[s].far \/ Stranded(s)

(* Sessions, players and lists agree. No two threads are in Update of one      *)
(* session, which takes no lock and would handle its packets out of order, and *)
(* none is in that of a deleted one. A session that a map handles belongs to a *)
(* player in the list of that map. A player in the world that counts as on his *)
(* way to another map is about to be sent there: with the flag and no teleport *)
(* pending he could neither move nor trade, and no acknowledgement would ever  *)
(* clear it. One that is not in the world counts as on his way, or is stranded.*)
PlayersAgree == TypeOK /\ HeldOnce /\ MapHoldsItsOwn /\ FarIsPending

(* Every packet is taken from the queue in the end, though its thread may be   *)
(* either and only the head of the queue is looked at: a packet for one thread *)
(* never holds back for good those behind it.                                  *)
PacketsTaken ==
    \A s \in Session : recvQueue[s] # <<>> ~> recvQueue[s] = <<>>

(* A transfer ends: the player arrives, at home if nowhere else, or logs out,  *)
(* or is stranded, whatever packets stand before the acknowledgement.          *)
TransferEnds ==
    \A s \in Session :
        char[s].state = "transit" ~> (char[s].state # "transit" \/ Stranded(s))

(* MovementHandler.cpp:73 of a player whose destination refuses him: "porting  *)
(* player to homebind". Nobody stays out of the world for good.                *)
PortedToHomebind ==
    \A s \in Session : char[s].state = "transit" ~> char[s].state # "transit"
=============================================================================
