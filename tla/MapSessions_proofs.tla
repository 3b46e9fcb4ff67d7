-------------------------- MODULE MapSessions_proofs --------------------------
(* Theorems about MapSessions.tla, for any sessions, maps and packets.         *)
EXTENDS MapSessions, SequenceTheorems, TLAPS

Placed ==
    [state : {"world", "transit"}, map : Map, dest : Map \union {None},
     far : BOOLEAN, delayed : BOOLEAN]

(* A character in the list of a map that TeleportTo can have left like that.   *)
Sane(c) ==
    /\ c \in Placed
    /\ c.far \/ c.delayed => c.dest \in Map
    /\ c.state = "world" /\ c.far => c.delayed
    /\ c.state = "transit" => c.far \/ c.map = Home

SaneCharacter(c) == c \in {NoPlayer, Loading} \/ Sane(c)

(* The two phases of a tick. *)
OnePhase ==
    /\ phase = "sessions" => \A m \in Map : mapPass[m] = "done"
    /\ phase = "maps" => inHand[World] = None /\ worldTodo = {}

(* What a map has yet to come to are players in its list, and the session that *)
(* it has in hand is another of them.                                          *)
MapsInOrder ==
    \A m \in Map :
        /\ mapPass[m] \in {"waiting", "done"} => mapTodo[m] = {}
        /\ \A s \in mapTodo[m] : char[s].map = m
        /\ inHand[m] # None =>
              /\ mapPass[m] = "sessions"
              /\ char[inHand[m]].map = m
              /\ inHand[m] \notin mapTodo[m]

(* A deleted session is in nobody's hand and on no list. *)
GoneIsGone ==
    /\ inHand[World] \notin worldTodo
    /\ \A s \in gone :
          /\ char[s] = NoPlayer
          /\ s \notin worldTodo
          /\ \A t \in Thread : inHand[t] # s

IInv ==
    /\ TypeOK
    /\ \A s \in Session : SaneCharacter(char[s])
    /\ OnePhase
    /\ MapsInOrder
    /\ GoneIsGone

-----------------------------------------------------------------------------
(* What the invariant is for: its parts are those of PlayersAgree.             *)
LEMMA InvAgrees == IInv => PlayersAgree
<1> SUFFICES ASSUME IInv PROVE PlayersAgree
    OBVIOUS
<1>1. HeldOnce
    <2>1. ASSUME NEW t \in Thread, NEW u \in Thread, inHand[t] # None, inHand[t] = inHand[u]
          PROVE  t = u
        <3>1. CASE t = World \/ u = World
            BY <2>1, <3>1, MapSessionsAssumption
            DEF IInv, TypeOK, OnePhase, MapsInOrder, Thread
        <3>2. CASE t \in Map /\ u \in Map
            BY <2>1, <3>2 DEF IInv, MapsInOrder
        <3> QED
            BY <3>1, <3>2 DEF Thread
    <2>2. \A t \in Thread : inHand[t] \notin gone
        BY DEF IInv, GoneIsGone
    <2> QED
        BY <2>1, <2>2 DEF HeldOnce
<1>2. MapHoldsItsOwn
    BY DEF IInv, TypeOK, OnePhase, MapsInOrder, MapHoldsItsOwn
<1>3. FarIsPending
    BY DEF IInv, SaneCharacter, Sane, FarIsPending, IsInWorld, Stranded, NoPlayer, Loading
<1> QED
    BY <1>1, <1>2, <1>3 DEF PlayersAgree, IInv

(* A character who has just come to a map.                                     *)
LEMMA PlayerInSane ==
    ASSUME NEW m \in Map
    PROVE  Sane(PlayerIn(m)) /\ PlayerIn(m).map = m /\ PlayerIn(m).state = "world"
BY DEF Sane, PlayerIn, NoPlayer, Placed

(* A teleport leaves a character in the list that he is in, and never with a   *)
(* transfer that nothing will end.                                             *)
LEMMA TeleportedSane ==
    ASSUME NEW c, Sane(c), c.state = "world", NEW m \in Map, NEW b \in BOOLEAN,
           NEW d \in Teleported(c, m, b)
    PROVE  Sane(d) /\ d.map = c.map /\ (b => d.state = "world")
<1>1. CASE d = c
    BY <1>1
<1>2. CASE m = c.map /\ b
    <2>1. d = [c EXCEPT !.far = FALSE, !.delayed = TRUE, !.dest = m]
        BY <1>2 DEF Teleported
    <2> QED
        BY <2>1 DEF Sane, Placed
<1>3. CASE m = c.map /\ ~b
    <2>1. d = [c EXCEPT !.far = FALSE, !.delayed = FALSE, !.dest = None]
        BY <1>3 DEF Teleported
    <2> QED
        BY <1>3, <2>1 DEF Sane, Placed
<1>4. CASE m # c.map /\ d # c /\ b
    <2>1. d = [c EXCEPT !.far = TRUE, !.delayed = TRUE, !.dest = m]
        BY <1>4 DEF Teleported
    <2> QED
        BY <2>1 DEF Sane, Placed
<1>5. CASE m # c.map /\ d # c /\ ~b
    <2>1. d = [c EXCEPT !.state = "transit", !.far = TRUE, !.delayed = FALSE, !.dest = m]
        BY <1>5 DEF Teleported
    <2> QED
        BY <1>5, <2>1 DEF Sane, Placed
<1> QED
    BY <1>1, <1>2, <1>3, <1>4, <1>5

(* A player who has said that he loaded the map arrives, or is sent home, or   *)
(* is stranded.                                                                *)
LEMMA ArrivalsSane ==
    ASSUME NEW c, Sane(c), c.state = "transit", NEW d \in Arrivals(c)
    PROVE  Sane(d)
<1>1. CASE ~c.far
    BY <1>1 DEF Arrivals
<1>2. CASE c.far /\ d = PlayerIn(c.dest)
    BY <1>2, PlayerInSane DEF Sane
<1>3. CASE c.far /\ d # PlayerIn(c.dest)
    <2> DEFINE here == [c EXCEPT !.far = FALSE]
    <2>1. d \in Teleported(here, Home, FALSE) /\ d # here
        BY <1>3 DEF Arrivals
    <2>2. here \in Placed /\ here.map = c.map /\ here.state = "transit" /\ here.far = FALSE
        BY DEF Sane, Placed
    <2> HIDE DEF here
    <2>3. CASE Home = here.map
        <3>1. d = [here EXCEPT !.far = FALSE, !.delayed = FALSE, !.dest = None]
            BY <2>1, <2>3 DEF Teleported
        <3>2. /\ d \in Placed /\ d.map = Home
              /\ d.state = "transit" /\ d.far = FALSE /\ d.delayed = FALSE
            BY <2>2, <2>3, <3>1 DEF Placed
        <3> QED
            BY <3>2 DEF Sane
    <2>4. CASE Home # here.map
        <3>1. d = [here EXCEPT !.state = "transit", !.far = TRUE, !.delayed = FALSE, !.dest = Home]
            BY <2>1, <2>4 DEF Teleported
        <3>2. /\ d \in Placed
              /\ d.state = "transit" /\ d.far = TRUE /\ d.delayed = FALSE /\ d.dest = Home
            BY <2>2, <3>1, MapSessionsAssumption DEF Placed
        <3> QED
            BY <3>2, MapSessionsAssumption DEF Sane
    <2> QED
        BY <2>3, <2>4
<1> QED
    BY <1>1, <1>2, <1>3

(* A character that has been loaded.                                           *)
LEMMA LoggedInSane ==
    ASSUME NEW c \in LoggedIn
    PROVE  SaneCharacter(c)
<1>1. CASE c = NoPlayer
    BY <1>1 DEF SaneCharacter
<1>2. CASE c # NoPlayer
    <2>1. PICK m \in Map : c \in UNION {Teleported(PlayerIn(m), d, FALSE) : d \in Map}
        BY <1>2 DEF LoggedIn
    <2>2. PICK d \in Map : c \in Teleported(PlayerIn(m), d, FALSE)
        BY <2>1
    <2> QED
        BY <2>2, PlayerInSane, TeleportedSane DEF SaneCharacter
<1> QED
    BY <1>1, <1>2

(* Player::Update, with a teleport that is delayed to its end.                 *)
LEMMA UpdatedSane ==
    ASSUME NEW c, Sane(c), c.state = "world", NEW d \in Updated(c)
    PROVE  Sane(d) /\ d.map = c.map
<1> DEFINE During == {c} \union UNION {Teleported(c, m, TRUE) : m \in Map}
<1>1. PICK e \in During : d \in IF e.delayed THEN {e} \union Teleported(e, e.dest, FALSE) ELSE {e}
    BY DEF Updated
<1>2. Sane(e) /\ e.map = c.map /\ e.state = "world"
    <2>1. CASE e = c
        BY <2>1
    <2>2. CASE e # c
        <3>1. PICK m \in Map : e \in Teleported(c, m, TRUE)
            BY <2>2
        <3> QED
            BY <3>1, TeleportedSane
    <2> QED
        BY <2>1, <2>2
<1>3. CASE d = e
    BY <1>2, <1>3
<1>4. CASE d # e
    <2>1. e.delayed /\ d \in Teleported(e, e.dest, FALSE)
        BY <1>1, <1>4
    <2>2. e.dest \in Map
        BY <1>2, <2>1 DEF Sane
    <2> QED
        BY <1>2, <2>1, <2>2, TeleportedSane
<1> QED
    BY <1>3, <1>4

-----------------------------------------------------------------------------
(* A step that leaves every character sane, and those of deleted sessions as   *)
(* they are.                                                                   *)
StaySane ==
    /\ char' \in [Session -> Character]
    /\ \A s \in Session : SaneCharacter(char'[s])
    /\ \A s \in gone : char'[s] = char[s]

KeepMaps == \A s \in Session : char'[s].map = char[s].map

(* A step that touches no character leaves all of them sane.                   *)
LEMMA SameStaysSane ==
    ASSUME IInv, UNCHANGED char
    PROVE  StaySane /\ KeepMaps
BY DEF IInv, TypeOK, StaySane, KeepMaps

(* One character changes, to a sane one.                                       *)
LEMMA OneStaysSane ==
    ASSUME IInv, NEW q \in Session, q \notin gone, NEW c, SaneCharacter(c),
           char' = [char EXCEPT ![q] = c]
    PROVE  StaySane /\ (c.map = char[q].map => KeepMaps)
<1>1. c \in Character
    BY DEF SaneCharacter, Sane, Placed, Character
<1> QED
    BY <1>1 DEF IInv, TypeOK, StaySane, KeepMaps

(* A player in the world has a session, and is in the list of a map.           *)
LEMMA InWorldIsSane ==
    ASSUME IInv, NEW q \in Session, IsInWorld(q)
    PROVE  Sane(char[q]) /\ q \notin gone
<1>1. char[q] # NoPlayer /\ char[q] # Loading
    BY DEF IsInWorld, NoPlayer, Loading
<1> QED
    BY <1>1 DEF IInv, SaneCharacter, GoneIsGone

(* The handlers leave every character sane, and those that a map runs leave    *)
(* every player in his list: the packets that take one out are unsafe.         *)
LEMMA HandlersStaySane ==
    ASSUME IInv, NEW t \in Thread, NEW s \in Session, inHand[t] = s,
           NEW kind \in DOMAIN Processing, Handle(t, s, kind)
    PROVE  /\ StaySane /\ logoutTime' \in [Session -> BOOLEAN]
           /\ MapTakes(s, kind) => KeepMaps
<1>1. s \notin gone
    BY DEF IInv, GoneIsGone
<1>2. logoutTime \in [Session -> BOOLEAN]
    BY DEF IInv, TypeOK
<1>3. CASE UNCHANGED <<char, logoutTime>>
    BY <1>2, <1>3, SameStaysSane
<1>4. CASE /\ kind = "login"
           /\ char' = IF char[s] = NoPlayer THEN [char EXCEPT ![s] = Loading] ELSE char
           /\ UNCHANGED logoutTime
    <2>1. StaySane
        <3>1. CASE char[s] = NoPlayer
            <4>1. SaneCharacter(Loading)
                BY DEF SaneCharacter
            <4> QED
                BY <1>1, <1>4, <3>1, <4>1, OneStaysSane
        <3>2. CASE char[s] # NoPlayer
            BY <1>4, <3>2, SameStaysSane
        <3> QED
            BY <3>1, <3>2
    <2> QED
        BY <1>2, <1>4, <2>1 DEF MapTakes, Processing
<1>5. CASE /\ kind = "ack" /\ StatusAdmits(s, kind)
           /\ \E c \in Arrivals(char[s]) : char' = [char EXCEPT ![s] = c]
           /\ UNCHANGED logoutTime
    <2>1. char[s].state = "transit"
        BY <1>5 DEF StatusAdmits, Status
    <2>2. Sane(char[s])
        BY <2>1 DEF IInv, SaneCharacter, NoPlayer, Loading
    <2>3. PICK c \in Arrivals(char[s]) : char' = [char EXCEPT ![s] = c]
        BY <1>5
    <2>4. SaneCharacter(c)
        BY <2>1, <2>2, ArrivalsSane DEF SaneCharacter
    <2> QED
        BY <1>1, <1>2, <1>5, <2>3, <2>4, OneStaysSane DEF MapTakes, Processing
<1>6. CASE /\ kind = "logout" /\ StatusAdmits(s, kind)
           /\ \/ LogoutPlayer(s)
              \/ logoutTime' = [logoutTime EXCEPT ![s] = TRUE] /\ UNCHANGED char
    <2>1. StaySane
        <3>1. CASE char' = [char EXCEPT ![s] = NoPlayer]
            <4>1. SaneCharacter(NoPlayer)
                BY DEF SaneCharacter
            <4> QED
                BY <1>1, <3>1, <4>1, OneStaysSane
        <3>2. CASE UNCHANGED char
            BY <3>2, SameStaysSane
        <3> QED
            BY <1>6, <3>1, <3>2 DEF LogoutPlayer
    <2> QED
        BY <1>2, <1>6, <2>1 DEF LogoutPlayer, MapTakes, Processing
<1>7. CASE /\ UNCHANGED logoutTime
           /\ \E q \in InReach(t, s), m \in Map : \E c \in Teleported(char[q], m, FALSE) :
                 char' = [char EXCEPT ![q] = c]
    <2>1. PICK q \in InReach(t, s), m \in Map :
             \E c \in Teleported(char[q], m, FALSE) : char' = [char EXCEPT ![q] = c]
        BY <1>7
    <2>2. PICK c \in Teleported(char[q], m, FALSE) : char' = [char EXCEPT ![q] = c]
        BY <2>1
    <2>3. q \in Session /\ IsInWorld(q)
        BY DEF InReach
    <2>4. Sane(c) /\ c.map = char[q].map
        BY <2>3, InWorldIsSane, TeleportedSane DEF IsInWorld
    <2>5. SaneCharacter(c)
        BY <2>4 DEF SaneCharacter
    <2> QED
        BY <1>2, <1>7, <2>2, <2>3, <2>4, <2>5, InWorldIsSane, OneStaysSane
<1> QED
    BY <1>3, <1>4, <1>5, <1>6, <1>7 DEF Handle

(* What the head of a queue that a thread looks at is.                         *)
LEMMA HeadIsPacket ==
    ASSUME IInv, NEW t \in Thread, NEW s \in Session, Takes(t, s)
    PROVE  /\ Head(recvQueue[s]) \in DOMAIN Processing
           /\ Tail(recvQueue[s]) \in Seq(DOMAIN Processing)
           /\ t \in Map => MapTakes(s, Head(recvQueue[s]))
<1>1. recvQueue[s] \in Seq(DOMAIN Processing) /\ recvQueue[s] # <<>>
    BY DEF IInv, TypeOK, Takes
<1>2. /\ Head(recvQueue[s]) \in DOMAIN Processing
      /\ Tail(recvQueue[s]) \in Seq(DOMAIN Processing)
    BY <1>1, HeadTailProperties
<1> QED
    BY <1>2, MapSessionsAssumption DEF Takes

-----------------------------------------------------------------------------
(* The invariant holds at the beginning, when everybody is idle.               *)
LEMMA InitInv == Init => IInv
<1> SUFFICES ASSUME Init PROVE IInv
    OBVIOUS
<1>1. \A s \in Session : SaneCharacter(char[s])
    <2> SUFFICES ASSUME NEW s \in Session PROVE SaneCharacter(char[s])
        OBVIOUS
    <2>1. CASE char[s] = NoPlayer
        BY <2>1 DEF SaneCharacter
    <2>2. CASE char[s] # NoPlayer
        <3>1. PICK m \in Map : char[s] = PlayerIn(m)
            BY <2>2 DEF Init
        <3> QED
            BY <3>1, PlayerInSane DEF SaneCharacter
    <2> QED
        BY <2>1, <2>2
<1>2. char \in [Session -> Character]
    <2>1. \A s \in Session : char[s] \in Character
        BY <1>1 DEF SaneCharacter, Sane, Placed, Character
    <2>2. char = [s \in Session |-> char[s]]
        BY DEF Init
    <2> QED
        BY <2>1, <2>2
<1>3. recvQueue \in [Session -> Seq(DOMAIN Processing)]
    BY EmptySeq DEF Init
<1>4. TypeOK
    BY <1>2, <1>3 DEF Init, TypeOK
<1> QED
    BY <1>1, <1>4, MapSessionsAssumption
    DEF Init, IInv, OnePhase, MapsInOrder, GoneIsGone, Thread

(* The network adds to the queues and closes sockets, the rest stays.          *)
LEMMA NetworkStep ==
    ASSUME IInv, UNCHANGED <<tickVars, char, logoutTime, gone>>,
           recvQueue' \in [Session -> Seq(DOMAIN Processing)],
           sent' \in [Session -> Nat], closed' \in [Session -> BOOLEAN]
    PROVE  IInv'
BY DEF IInv, TypeOK, OnePhase, MapsInOrder, GoneIsGone, tickVars

(* A queue that takes a packet is a queue of packets.                          *)
LEMMA ReceiveTyped ==
    ASSUME IInv, NEW s \in Session, NEW kind \in DOMAIN Processing, Receive(s, kind)
    PROVE  recvQueue' \in [Session -> Seq(DOMAIN Processing)]
<1>1. Append(recvQueue[s], kind) \in Seq(DOMAIN Processing)
    BY AppendProperties DEF IInv, TypeOK
<1> QED
    BY <1>1 DEF IInv, TypeOK, Receive

(* A packet is handled in the world thread, while no map is updated.           *)
LEMMA WorldHandles ==
    ASSUME IInv, NEW s \in Session, HandlePacket(World, s)
    PROVE  IInv' /\ phase = "sessions"
<1> DEFINE kind == Head(recvQueue[s])
<1>1. World \in Thread /\ inHand[World] = s /\ Takes(World, s) /\ Handle(World, s, kind)
    BY DEF HandlePacket, Thread
<1>2. kind \in DOMAIN Processing /\ Tail(recvQueue[s]) \in Seq(DOMAIN Processing)
    BY <1>1, HeadIsPacket
<1>3. StaySane /\ logoutTime' \in [Session -> BOOLEAN]
    BY <1>1, <1>2, HandlersStaySane
<1>4. phase = "sessions"
    BY <1>1, MapSessionsAssumption DEF IInv, TypeOK, OnePhase
<1>5. TypeOK'
    BY <1>2, <1>3 DEF IInv, TypeOK, StaySane, HandlePacket, tickVars
<1>6. MapsInOrder'
    BY <1>4 DEF IInv, OnePhase, MapsInOrder, HandlePacket, tickVars
<1>7. OnePhase' /\ GoneIsGone'
    BY <1>3 DEF IInv, StaySane, OnePhase, GoneIsGone, HandlePacket, tickVars
<1> QED
    BY <1>3, <1>4, <1>5, <1>6, <1>7 DEF IInv, StaySane

(* A packet is handled in the worker of a map, and leaves players in the lists.*)
LEMMA MapHandles ==
    ASSUME IInv, NEW m \in Map, NEW s \in Session, HandlePacket(m, s)
    PROVE  IInv' /\ KeepMaps
<1> DEFINE kind == Head(recvQueue[s])
<1>1. m \in Thread /\ inHand[m] = s /\ Takes(m, s) /\ Handle(m, s, kind)
    BY DEF HandlePacket, Thread
<1>2. /\ kind \in DOMAIN Processing /\ Tail(recvQueue[s]) \in Seq(DOMAIN Processing)
      /\ MapTakes(s, kind)
    BY <1>1, HeadIsPacket
<1>3. StaySane /\ logoutTime' \in [Session -> BOOLEAN] /\ KeepMaps
    BY <1>1, <1>2, HandlersStaySane
<1>4. TypeOK'
    BY <1>2, <1>3 DEF IInv, TypeOK, StaySane, HandlePacket, tickVars
<1>5. MapsInOrder'
    <2> SUFFICES ASSUME NEW k \in Map PROVE MapsInOrder!(k)'
        BY DEF MapsInOrder
    <2>1. UNCHANGED <<mapPass, mapTodo, inHand>>
        BY DEF HandlePacket, tickVars
    <2>2. mapTodo[k] \subseteq Session /\ inHand[k] \in Session \union {None}
        BY DEF IInv, TypeOK, Thread
    <2> QED
        BY <1>3, <2>1, <2>2 DEF IInv, MapsInOrder, KeepMaps
<1>6. OnePhase' /\ GoneIsGone'
    BY <1>3 DEF IInv, StaySane, OnePhase, GoneIsGone, HandlePacket, tickVars
<1> QED
    BY <1>3, <1>4, <1>5, <1>6 DEF IInv, StaySane

(* The end of Update in the world thread.                                      *)
LEMMA EndSessionStep ==
    ASSUME IInv, NEW s \in Session, EndSession(s)
    PROVE  IInv' /\ phase = "sessions"
<1>1. inHand[World] = s /\ World \in Thread /\ s \notin gone /\ s \notin worldTodo
    BY DEF EndSession, IInv, GoneIsGone, Thread
<1>2. phase = "sessions"
    BY <1>1, MapSessionsAssumption DEF IInv, TypeOK, OnePhase
<1>3. /\ \A m \in Map : mapPass[m] = "done" /\ mapTodo[m] = {} /\ inHand[m] = None
      /\ UNCHANGED <<phase, worldTodo, mapTodo, mapPass, closed, sent>>
      /\ inHand' = [inHand EXCEPT ![World] = None]
    BY <1>2 DEF IInv, OnePhase, MapsInOrder, EndSession, Released
<1>4. logoutTime' \in [Session -> BOOLEAN]
    BY DEF IInv, TypeOK, EndSession, LogoutPlayer
<1>5. StaySane
    <2>1. CASE char' = [char EXCEPT ![s] = NoPlayer]
        <3>1. SaneCharacter(NoPlayer)
            BY DEF SaneCharacter
        <3> QED
            BY <1>1, <2>1, <3>1, OneStaysSane
    <2>2. CASE UNCHANGED char
        BY <2>2, SameStaysSane
    <2>3. CASE \E c \in LoggedIn : char' = [char EXCEPT ![s] = c]
        BY <1>1, <2>3, LoggedInSane, OneStaysSane
    <2> QED
        BY <2>1, <2>2, <2>3 DEF EndSession, LogoutPlayer
<1>6. recvQueue' \in [Session -> Seq(DOMAIN Processing)]
    <2>1. <<>> \in Seq(DOMAIN Processing)
        BY EmptySeq
    <2> QED
        BY <2>1 DEF IInv, TypeOK, EndSession
<1>7. gone' = gone \/ (gone' = gone \union {s} /\ char'[s] = NoPlayer)
    BY DEF EndSession, LogoutPlayer, IInv, TypeOK
<1>8. TypeOK'
    BY <1>3, <1>4, <1>5, <1>6, <1>7 DEF IInv, TypeOK, StaySane, Thread
<1>9. MapsInOrder' /\ OnePhase'
    BY <1>2, <1>3, MapSessionsAssumption DEF IInv, TypeOK, MapsInOrder, OnePhase, Thread
<1>10. GoneIsGone'
    BY <1>1, <1>3, <1>5, <1>7, MapSessionsAssumption
    DEF IInv, TypeOK, StaySane, GoneIsGone, Thread
<1> QED
    BY <1>2, <1>5, <1>8, <1>9, <1>10 DEF IInv, StaySane

(* The world thread takes a session, which is not deleted.                     *)
LEMMA TakeSessionStep ==
    ASSUME IInv, NEW s \in Session, TakeSession(s)
    PROVE  IInv'
<1>1. /\ s \in worldTodo /\ worldTodo' = worldTodo \ {s}
      /\ inHand' = [inHand EXCEPT ![World] = s]
      /\ phase = "sessions"
      /\ UNCHANGED <<phase, mapTodo, mapPass, sessionVars>>
    BY DEF TakeSession
<1>2. TypeOK'
    BY <1>1 DEF IInv, TypeOK, sessionVars, Thread
<1>3. OnePhase' /\ MapsInOrder'
    BY <1>1, MapSessionsAssumption
    DEF IInv, TypeOK, OnePhase, MapsInOrder, sessionVars, Thread
<1>4. GoneIsGone'
    BY <1>1 DEF IInv, TypeOK, GoneIsGone, sessionVars, Thread
<1> QED
    BY <1>1, <1>2, <1>3, <1>4 DEF IInv, sessionVars

(* The barrier closes behind the sessions, and opens behind the maps.          *)
LEMMA PhaseStep ==
    ASSUME IInv, StartMaps \/ NextTick
    PROVE  IInv'
<1>1. CASE StartMaps
    <2>1. \A m \in Map : mapTodo[m] = {} /\ inHand[m] = None
        BY <1>1 DEF IInv, OnePhase, MapsInOrder, StartMaps
    <2>2. TypeOK'
        BY <1>1 DEF IInv, TypeOK, StartMaps, sessionVars
    <2>3. OnePhase' /\ MapsInOrder'
        BY <1>1, <2>1
        DEF IInv, OnePhase, MapsInOrder, StartMaps, SessionsDone, sessionVars
    <2>4. GoneIsGone'
        BY <1>1 DEF IInv, GoneIsGone, StartMaps, sessionVars
    <2> QED
        BY <1>1, <2>2, <2>3, <2>4 DEF IInv, StartMaps, sessionVars
<1>2. CASE NextTick
    <2>1. \A m \in Map : mapPass[m] = "done"
        BY <1>2 DEF NextTick
    <2>2. inHand[World] = None
        BY <1>2 DEF IInv, OnePhase, NextTick
    <2>3. TypeOK'
        BY <1>2 DEF IInv, TypeOK, NextTick, sessionVars
    <2>4. OnePhase' /\ MapsInOrder'
        BY <1>2, <2>1 DEF IInv, OnePhase, MapsInOrder, NextTick, sessionVars
    <2>5. GoneIsGone'
        BY <1>2, <2>2, MapSessionsAssumption DEF IInv, GoneIsGone, NextTick, sessionVars
    <2> QED
        BY <1>2, <2>3, <2>4, <2>5 DEF IInv, NextTick, sessionVars
<1> QED
    BY <1>1, <1>2

(* A map that is not done is updated behind the barrier.                       *)
LEMMA MapsBehindBarrier ==
    ASSUME IInv, NEW m \in Map, mapPass[m] # "done"
    PROVE  phase = "maps"
BY DEF IInv, TypeOK, OnePhase

(* A map goes through its sessions and then through its players.               *)
LEMMA MapPassStep ==
    ASSUME IInv, NEW m \in Map, StartMap(m) \/ NextPass(m)
    PROVE  IInv'
<1>1. /\ UNCHANGED <<phase, worldTodo, inHand, sessionVars>>
      /\ \/ /\ mapPass[m] = "waiting"
            /\ mapPass' = [mapPass EXCEPT ![m] = "sessions"]
            /\ mapTodo' = [mapTodo EXCEPT ![m] = PlayersOf(m)]
         \/ /\ mapPass[m] = "sessions" /\ inHand[m] = None
            /\ mapPass' = [mapPass EXCEPT ![m] = "players"]
            /\ mapTodo' = [mapTodo EXCEPT ![m] = PlayersOf(m)]
         \/ /\ mapPass[m] = "players" /\ inHand[m] = None /\ mapTodo[m] = {}
            /\ mapPass' = [mapPass EXCEPT ![m] = "done"]
            /\ UNCHANGED mapTodo
    BY DEF StartMap, NextPass
<1>2. phase = "maps"
    BY <1>1, MapsBehindBarrier
<1>3. PlayersOf(m) \subseteq Session /\ \A s \in PlayersOf(m) : char[s].map = m
    BY DEF PlayersOf
<1>4. inHand[m] = None
    BY <1>1 DEF IInv, MapsInOrder
<1>5. TypeOK'
    <2>1. mapPass' \in [Map -> {"waiting", "sessions", "players", "done"}]
        BY <1>1 DEF IInv, TypeOK
    <2>2. mapTodo' \in [Map -> SUBSET Session]
        BY <1>1, <1>3 DEF IInv, TypeOK
    <2> QED
        BY <1>1, <2>1, <2>2 DEF IInv, TypeOK, sessionVars
<1>6. MapsInOrder'
    <2> SUFFICES ASSUME NEW k \in Map PROVE MapsInOrder!(k)'
        BY DEF MapsInOrder
    <2>1. CASE k = m
        BY <1>1, <1>3, <1>4, <2>1 DEF IInv, TypeOK, MapsInOrder, sessionVars
    <2>2. CASE k # m
        <3>1. mapPass'[k] = mapPass[k] /\ mapTodo'[k] = mapTodo[k] /\ inHand'[k] = inHand[k]
            BY <1>1, <2>2 DEF IInv, TypeOK
        <3> QED
            BY <1>1, <3>1 DEF IInv, MapsInOrder, sessionVars
    <2> QED
        BY <2>1, <2>2
<1>7. OnePhase' /\ GoneIsGone'
    BY <1>1, <1>2 DEF IInv, OnePhase, GoneIsGone, sessionVars
<1> QED
    BY <1>1, <1>5, <1>6, <1>7 DEF IInv, sessionVars

(* A map takes the session of a player who is in the world.                    *)
LEMMA TakeMapSessionStep ==
    ASSUME IInv, NEW m \in Map, NEW s \in Session, TakeMapSession(m, s)
    PROVE  IInv'
<1>1. /\ mapPass[m] = "sessions" /\ inHand[m] = None /\ s \in mapTodo[m]
      /\ mapTodo' = [mapTodo EXCEPT ![m] = @ \ {s}]
      /\ UNCHANGED <<phase, worldTodo, mapPass, sessionVars>>
    BY DEF TakeMapSession
<1>2. inHand' = inHand \/ (IsInWorld(s) /\ inHand' = [inHand EXCEPT ![m] = s])
    BY DEF TakeMapSession
<1>3. m \in Thread /\ m # World /\ World \in Thread
    BY MapSessionsAssumption DEF Thread
<1>4. TypeOK'
    BY <1>1, <1>2, <1>3 DEF IInv, TypeOK, sessionVars
<1>5. phase = "maps"
    BY <1>1, MapsBehindBarrier
<1>6. inHand'[World] = inHand[World]
    BY <1>2, <1>3 DEF IInv, TypeOK
<1>7. OnePhase'
    BY <1>1, <1>5, <1>6 DEF IInv, OnePhase, sessionVars
<1>8. MapsInOrder'
    <2> SUFFICES ASSUME NEW k \in Map PROVE MapsInOrder!(k)'
        BY DEF MapsInOrder
    <2>1. CASE k = m
        BY <1>1, <1>2, <1>3, <2>1 DEF IInv, TypeOK, MapsInOrder, sessionVars
    <2>2. CASE k # m
        <3>1. mapTodo'[k] = mapTodo[k] /\ inHand'[k] = inHand[k]
            BY <1>1, <1>2, <1>3, <2>2 DEF IInv, TypeOK, Thread
        <3> QED
            BY <1>1, <3>1 DEF IInv, MapsInOrder, sessionVars
    <2> QED
        BY <2>1, <2>2
<1>9. IsInWorld(s) => s \notin gone
    BY InWorldIsSane
<1>10. GoneIsGone'
    BY <1>1, <1>2, <1>3, <1>6, <1>9 DEF IInv, TypeOK, GoneIsGone, sessionVars
<1> QED
    BY <1>1, <1>4, <1>7, <1>8, <1>10 DEF IInv, sessionVars

(* A map lets the session in its hand go.                                      *)
LEMMA EndMapSessionStep ==
    ASSUME IInv, NEW m \in Map, EndMapSession(m)
    PROVE  IInv'
<1>1. /\ inHand' = [inHand EXCEPT ![m] = None]
      /\ UNCHANGED <<phase, worldTodo, mapTodo, mapPass, sessionVars>>
    BY DEF EndMapSession, Released
<1>2. m \in Thread /\ m # World /\ World \in Thread
    BY MapSessionsAssumption DEF Thread
<1>3. TypeOK'
    BY <1>1, <1>2 DEF IInv, TypeOK, sessionVars
<1>4. OnePhase' /\ MapsInOrder'
    BY <1>1, <1>2 DEF IInv, TypeOK, OnePhase, MapsInOrder, sessionVars, Thread
<1>5. GoneIsGone'
    BY <1>1, <1>2, MapSessionsAssumption DEF IInv, TypeOK, GoneIsGone, sessionVars
<1> QED
    BY <1>1, <1>3, <1>4, <1>5 DEF IInv, sessionVars

(* Objects and Player::Update teleport players, and leave them in the lists.   *)
LEMMA MapTeleports ==
    ASSUME IInv, NEW m \in Map, NEW s \in Session, UpdatePlayer(m, s) \/ ObjectTeleports(m, s)
    PROVE  IInv' /\ KeepMaps
<1>1. /\ mapPass[m] = "players"
      /\ \/ mapTodo' = [mapTodo EXCEPT ![m] = @ \ {s}]
         \/ mapTodo' = mapTodo
      /\ UNCHANGED <<phase, worldTodo, mapPass, inHand, recvQueue, logoutTime, closed, gone, sent>>
    BY DEF UpdatePlayer, ObjectTeleports, tickVars
<1>2. StaySane /\ KeepMaps
    <2>1. CASE UNCHANGED char
        BY <2>1, SameStaysSane
    <2>2. ASSUME IsInWorld(s), NEW c, Sane(c), c.map = char[s].map,
                 char' = [char EXCEPT ![s] = c]
          PROVE  StaySane /\ KeepMaps
        BY <2>2, InWorldIsSane, OneStaysSane DEF SaneCharacter
    <2>3. CASE UpdatePlayer(m, s) /\ IsInWorld(s)
        <3>1. PICK c \in Updated(char[s]) : char' = [char EXCEPT ![s] = c]
            BY <2>3 DEF UpdatePlayer
        <3>2. Sane(c) /\ c.map = char[s].map
            BY <2>3, InWorldIsSane, UpdatedSane DEF IsInWorld
        <3> QED
            BY <2>2, <2>3, <3>1, <3>2
    <2>4. CASE ObjectTeleports(m, s)
        <3>1. IsInWorld(s)
            BY <2>4 DEF ObjectTeleports
        <3>2. PICK d \in Map : \E c \in Teleported(char[s], d, FALSE) : char' = [char EXCEPT ![s] = c]
            BY <2>4 DEF ObjectTeleports
        <3>3. PICK c \in Teleported(char[s], d, FALSE) : char' = [char EXCEPT ![s] = c]
            BY <3>2
        <3>4. Sane(c) /\ c.map = char[s].map
            BY <3>1, InWorldIsSane, TeleportedSane DEF IsInWorld
        <3> QED
            BY <2>2, <3>1, <3>3, <3>4
    <2> QED
        BY <2>1, <2>3, <2>4 DEF UpdatePlayer
<1>3. TypeOK'
    BY <1>1, <1>2 DEF IInv, TypeOK, StaySane
<1>4. MapsInOrder'
    <2> SUFFICES ASSUME NEW k \in Map PROVE MapsInOrder!(k)'
        BY DEF MapsInOrder
    <2>1. mapTodo'[k] \subseteq mapTodo[k]
        BY <1>1 DEF IInv, TypeOK
    <2>2. mapTodo[k] \subseteq Session /\ inHand[k] \in Session \union {None}
        BY DEF IInv, TypeOK, Thread
    <2> QED
        BY <1>1, <1>2, <2>1, <2>2 DEF IInv, MapsInOrder, KeepMaps
<1>5. OnePhase' /\ GoneIsGone'
    BY <1>1, <1>2 DEF IInv, StaySane, OnePhase, GoneIsGone
<1> QED
    BY <1>1, <1>2, <1>3, <1>4, <1>5 DEF IInv, StaySane

-----------------------------------------------------------------------------
(* Every step keeps the invariant, and steps behind the barrier the lists.     *)
LEMMA StepInv == IInv /\ [Next]_vars => IInv' /\ (phase = "maps" => KeepMaps)
<1> SUFFICES ASSUME IInv, [Next]_vars
             PROVE  IInv' /\ (phase = "maps" => KeepMaps)
    OBVIOUS
<1>1. ASSUME UNCHANGED char PROVE KeepMaps
    BY <1>1, SameStaysSane
<1>2. CASE UNCHANGED vars
    BY <1>2 DEF vars, tickVars, sessionVars, IInv, TypeOK, OnePhase, MapsInOrder,
                GoneIsGone, KeepMaps
<1>3. ASSUME NEW s \in Session, ClientArrives(s) PROVE IInv' /\ KeepMaps
    <2>1. "ack" \in DOMAIN Processing
        BY DEF Processing
    <2>2. recvQueue' \in [Session -> Seq(DOMAIN Processing)]
        BY <1>3, <2>1, ReceiveTyped DEF ClientArrives
    <2> QED
        BY <1>1, <1>3, <2>2, NetworkStep DEF ClientArrives, IInv, TypeOK
<1>4. ASSUME NEW s \in Session, SocketCloses(s) PROVE IInv' /\ KeepMaps
    BY <1>1, <1>4, NetworkStep DEF SocketCloses, IInv, TypeOK
<1>5. ASSUME NEW s \in Session, NEW kind \in Kinds[s], ClientSends(s, kind)
      PROVE  IInv' /\ KeepMaps
    <2>1. kind \in DOMAIN Processing
        BY KindsAssumption
    <2>2. recvQueue' \in [Session -> Seq(DOMAIN Processing)]
        BY <1>5, <2>1, ReceiveTyped DEF ClientSends
    <2>3. sent' \in [Session -> Nat]
        <3>1. sent \in [Session -> Nat] /\ sent' = [sent EXCEPT ![s] = @ + 1]
            BY <1>5 DEF ClientSends, IInv, TypeOK
        <3> QED
            BY <3>1
    <2>4. closed' \in [Session -> BOOLEAN] /\ UNCHANGED <<tickVars, char, logoutTime, gone>>
        BY <1>5 DEF ClientSends, IInv, TypeOK
    <2> QED
        BY <1>1, <2>2, <2>3, <2>4, NetworkStep
<1>6. CASE WorldThread
    <2>1. ASSUME NEW s \in Session, TakeSession(s) PROVE IInv' /\ KeepMaps
        BY <1>1, <2>1, TakeSessionStep DEF TakeSession, sessionVars
    <2>2. CASE StartMaps \/ NextTick
        BY <1>1, <2>2, PhaseStep DEF StartMaps, NextTick, sessionVars
    <2> QED
        BY <1>6, <2>1, <2>2, WorldHandles, EndSessionStep DEF WorldThread
<1>7. ASSUME NEW m \in Map, MapThread(m) PROVE IInv' /\ KeepMaps
    <2>1. CASE StartMap(m) \/ NextPass(m)
        BY <1>1, <2>1, MapPassStep DEF StartMap, NextPass, sessionVars
    <2>2. CASE EndMapSession(m)
        BY <1>1, <2>2, EndMapSessionStep DEF EndMapSession, sessionVars
    <2>3. ASSUME NEW s \in Session, TakeMapSession(m, s) PROVE IInv' /\ KeepMaps
        BY <1>1, <2>3, TakeMapSessionStep DEF TakeMapSession, sessionVars
    <2> QED
        BY <1>7, <2>1, <2>2, <2>3, MapHandles, MapTeleports DEF MapThread
<1>8. ASSUME NEW m \in Map, NEW s \in Session, ObjectTeleports(m, s) PROVE IInv' /\ KeepMaps
    BY <1>8, MapTeleports
<1> QED
    BY <1>2, <1>3, <1>4, <1>5, <1>6, <1>7, <1>8 DEF Next

(* The invariant holds, for any sessions, maps and packets.                    *)
THEOREM Invariant == Spec => []IInv
<1>1. IInv /\ [Next]_vars => IInv'
    BY StepInv
<1> QED
    BY InitInv, <1>1, PTL DEF Spec

(* Sessions, players and lists agree: one thread in the Update of a session    *)
(* and none in that of a deleted one, a map in those of its own players only,  *)
(* and a character that counts as on his way to a map is sent there.           *)
THEOREM SessionsAndMapsAgree == Spec => []PlayersAgree
BY Invariant, InvAgrees, PTL

(* While the workers update maps, no player enters or leaves the list of a map.*)
THEOREM ListsStayFrozen == Spec => ListsFrozen
<1>1. IInv /\ [Next]_vars
      => [phase = "maps" => \A s \in Session : char'[s].map = char[s].map]_vars
    BY StepInv DEF KeepMaps
<1> QED
    BY Invariant, <1>1, PTL DEF Spec, ListsFrozen
===============================================================================
