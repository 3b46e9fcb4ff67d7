---------------------------- MODULE WorldSessions ----------------------------
(* The sessions of the world server and its login queue. Network threads       *)
(* authenticate clients, create a session for each and put it into             *)
(* addSessQueue; connections drop at any moment. The world thread runs         *)
(* World::UpdateSessions: it first takes every new session in (AddSession_),   *)
(* which may replace, reject or queue it, then updates each session of         *)
(* m_sessions, and deletes those whose socket is closed. When a session leaves *)
(* the world the one at the front of m_QueuedPlayer may be admitted.           *)
EXTENDS Integers, Sequences, FiniteSets

CONSTANTS
    Account,
    GameMaster,         \* the accounts above SEC_PLAYER
    SessionId,          \* addresses of WorldSession objects; they are reused
    NoSession,
    Free,
    Limits,             \* the values m_playerLimit may take, 0 for no limit
    Tolerance,          \* CONFIG_INTERVAL_DISCONNECT_TOLERANCE
    Never,
    MaxLogins,          \* bound: logins in a behaviour
    MaxTime             \* bound: clock ticks in a behaviour

ASSUME SessionsAssumption ==
    /\ IsFiniteSet(Account)
    /\ GameMaster \subseteq Account
    /\ NoSession \notin SessionId
    /\ Limits \subseteq Nat
    /\ Tolerance \in Nat
    /\ MaxLogins \in Nat
    /\ MaxTime \in Nat
    /\ Never \notin 0..MaxTime

SessionState ==
    [account : Account,
     open    : BOOLEAN,     \* the socket is not closed
     inQueue : BOOLEAN,     \* m_inQueue
     loading : BOOLEAN,     \* m_playerLoading
     result  : BOOLEAN,     \* _charLoginCallback holds a future
     player  : BOOLEAN]     \* _player is set

ASSUME FreeAssumption == Free \notin SessionState

VARIABLES
    session,            \* the object at each address, or Free
    addSessQueue,
    m_sessions,         \* the session of each account
    m_QueuedPlayer,
    m_playerLimit,
    m_disconnects,      \* when each account was last disconnected
    now,
    world,              \* where the world thread is
    toUpdate,           \* accounts the loop of UpdateSessions has yet to reach
    current,            \* the session it is updating
    stopping,           \* the main loop has been left
    logins

vars == <<session, addSessQueue, m_sessions, m_QueuedPlayer, m_playerLimit, m_disconnects,
          now, world, toUpdate, current, stopping, logins>>

queueVars == <<m_sessions, m_QueuedPlayer>>
loopVars  == <<world, toUpdate, current, stopping>>
clockVars == <<m_disconnects, now>>
dataVars  == <<addSessQueue, queueVars, m_playerLimit, clockVars, logins>>

Live == {s \in SessionId : session[s] # Free}

Init ==
    /\ session = [s \in SessionId |-> Free]
    /\ addSessQueue = <<>>
    /\ m_sessions = [a \in Account |-> NoSession]
    /\ m_QueuedPlayer = <<>>
    /\ m_playerLimit \in Limits
    /\ m_disconnects = [a \in Account |-> Never]
    /\ now = 0
    /\ world = "idle"
    /\ toUpdate = {}
    /\ current = NoSession
    /\ stopping = FALSE
    /\ logins = 0

-----------------------------------------------------------------------------
(* The network threads. *)

(* WorldSocket::HandleAuthSession, once every check has passed. *)
Authenticate(a, s) ==
    /\ world # "stopped"
    /\ logins < MaxLogins
    /\ session[s] = Free
    /\ session' = [session EXCEPT ![s] =
                     [account |-> a, open |-> TRUE, inQueue |-> FALSE,
                      loading |-> FALSE, result |-> FALSE, player |-> FALSE]]
    /\ addSessQueue' = Append(addSessQueue, s)
    /\ logins' = logins + 1
    /\ UNCHANGED <<queueVars, m_playerLimit, clockVars, loopVars>>

(* The socket closes: the client is gone, or somebody kicked the session. *)
CloseSocket(s) ==
    /\ session[s] # Free
    /\ session[s].open
    /\ session' = [session EXCEPT ![s].open = FALSE]
    /\ UNCHANGED <<dataVars, loopVars>>

-----------------------------------------------------------------------------
(* The login queue. *)

InMap == {a \in Account : m_sessions[a] # NoSession}
GetActiveAndQueuedSessionCount == Cardinality(InMap)

IsQueued(q, s) == \E k \in DOMAIN q : q[k] = s

Erase(q, s) ==
    LET k == CHOOSE j \in DOMAIN q : q[j] = s
    IN  SubSeq(q, 1, k - 1) \o SubSeq(q, k + 1, Len(q))

(* The active sessions without the one that leaves. *)
ActiveWithout(q, n, found) ==
    LET active == n - Len(q)
    IN  IF ~found /\ active # 0 THEN active - 1 ELSE active

(* Faulty variant of the definition below, for the sensitivity of the checks,  *)
(* as are the other operators named Mutant...: one session too many.           *)
MutantOneTooMany(sessions) == m_playerLimit = 0 \/ sessions <= m_playerLimit

HasRoom(sessions) == m_playerLimit = 0 \/ sessions < m_playerLimit

(* The last of the queue is admitted, *)
MutantLastAdmitted(q) ==
    [queue |-> SubSeq(q, 1, Len(q) - 1), cleared |-> {q[Len(q)]}]

(* or the front stays in it. *)
MutantNotPopped(q) == [queue |-> q, cleared |-> {Head(q)}]

AdmitFront(q) == [queue |-> Tail(q), cleared |-> {Head(q)}]

(* World::RemoveQueuedPlayer(s) on the queue q of a map with n sessions: what  *)
(* it returns, the queue it leaves, and the sessions whose flag it clears.     *)
RemoveQueuedPlayer(q, n, s) ==
    LET found == IsQueued(q, s)
        rest  == IF found THEN Erase(q, s) ELSE q
        after == IF rest # <<>> /\ HasRoom(ActiveWithout(q, n, found))
                 THEN AdmitFront(rest)
                 ELSE [queue |-> rest, cleared |-> {}]
    IN  [found   |-> found,
         queue   |-> after.queue,
         cleared |-> after.cleared \union (IF found THEN {s} ELSE {})]

ClearFlags(S) ==
    [s \in SessionId |-> IF s \in S /\ session[s] # Free
                         THEN [session[s] EXCEPT !.inQueue = FALSE]
                         ELSE session[s]]

(* World::HasRecentlyDisconnected, and the entries its scan drops. The time    *)
(* difference is taken as the entry's time minus now, which is never positive. *)
WithinTolerance(a) == m_disconnects[a] # Never /\ m_disconnects[a] - now < Tolerance

HasRecentlyDisconnected(a) == Tolerance > 0 /\ WithinTolerance(a)

DropStale == [a \in Account |-> IF WithinTolerance(a) THEN m_disconnects[a] ELSE Never]

-----------------------------------------------------------------------------
(* World::AddSession_. *)

(* The object is not deleted. *)
MutantLeak(objects, s) == objects

Delete(objects, s) == [x \in SessionId |-> IF x = s THEN Free ELSE objects[x]]

(* RemoveSession refuses to replace a session whose character is loading: the  *)
(* new session is kicked and deleted.                                          *)
RejectSession ==
    /\ world = "add"
    /\ addSessQueue # <<>>
    /\ LET s   == Head(addSessQueue)
           old == m_sessions[session[s].account]
       IN  /\ old # NoSession
           /\ session[old].loading
           /\ session' = Delete(session, s)
    /\ addSessQueue' = Tail(addSessQueue)
    /\ UNCHANGED <<queueVars, m_playerLimit, clockVars, loopVars, logins>>


(* The old session of the account, if any, leaves the queue. *)
LeaveQueue(old) ==
    IF old = NoSession
    THEN [found |-> FALSE, queue |-> m_QueuedPlayer, cleared |-> {}]
    ELSE RemoveQueuedPlayer(m_QueuedPlayer, Cardinality(InMap), old)

(* Otherwise the old session is deleted, and the new one takes its place, in   *)
(* the world or in the queue.                                                  *)
AddSession ==
    /\ world = "add"
    /\ addSessQueue # <<>>
    /\ LET s        == Head(addSessQueue)
           a        == session[s].account
           old      == m_sessions[a]
           removed  == LeaveQueue(old)
           total    == Cardinality(InMap \union {a})
           sessions == IF removed.found THEN total ELSE total - 1
           full     == ~HasRoom(sessions) /\ a \notin GameMaster
           queued   == full /\ ~HasRecentlyDisconnected(a)
       IN  /\ old # NoSession => ~session[old].loading
           /\ session' = [Delete(ClearFlags(removed.cleared), old)
                             EXCEPT ![s].inQueue = queued]
           /\ m_sessions' = [m_sessions EXCEPT ![a] = s]
           /\ m_QueuedPlayer' = IF queued THEN Append(removed.queue, s) ELSE removed.queue
           /\ m_disconnects' = IF full /\ Tolerance > 0 THEN DropStale ELSE m_disconnects
    /\ addSessQueue' = Tail(addSessQueue)
    /\ UNCHANGED <<m_playerLimit, now, loopVars, logins>>

-----------------------------------------------------------------------------
(* World::UpdateSessions. *)

StartUpdateSessions ==
    /\ world = "idle"
    /\ world' = "add"
    /\ UNCHANGED <<session, dataVars, toUpdate, current, stopping>>

AllAdded ==
    /\ world = "add"
    /\ addSessQueue = <<>>
    /\ world' = "loop"
    /\ toUpdate' = InMap
    /\ UNCHANGED <<session, dataVars, current, stopping>>

(* WorldSession::Update of the session of account a: an idle connection is     *)
(* closed first, unless the session waits in the queue.                        *)
StartUpdate(a) ==
    /\ world = "loop"
    /\ a \in toUpdate
    /\ toUpdate' = toUpdate \ {a}
    /\ current' = m_sessions[a]
    /\ world' = "packets"
    /\ \E idle \in BOOLEAN :
          session' = [session EXCEPT ![m_sessions[a]].open =
                        @ /\ ~(idle /\ ~session[m_sessions[a]].inQueue)]
    /\ UNCHANGED <<dataVars, stopping>>

Handling(c) ==
    /\ world = "packets"
    /\ session[c].open
    /\ UNCHANGED <<dataVars, loopVars>>


(* CMSG_PLAYER_LOGIN, a STATUS_AUTHED opcode, which a queued session may not   *)
(* use: the character may not be used by the account (loading stays set and    *)
(* the client is kicked), the packet is too short (loading stays set), or the  *)
(* queries of the character are handed to the database threads.                *)
PlayerLogin ==
    /\ Handling(current)
    /\ LET c == session[current]
       IN  /\ ~c.inQueue /\ ~c.loading /\ ~c.player
           /\ \/ session' = [session EXCEPT ![current].loading = TRUE, ![current].open = FALSE]
              \/ session' = [session EXCEPT ![current].loading = TRUE]
              \/ session' = [session EXCEPT ![current].loading = TRUE, ![current].result = TRUE]

(* A logout that is granted at once: the player is removed from the world. *)
PlayerLogout ==
    /\ Handling(current)
    /\ session[current].player
    /\ ~session[current].loading
    /\ session' = [session EXCEPT ![current].player = FALSE]

PacketsDone ==
    /\ world = "packets"
    /\ world' = "callbacks"
    /\ UNCHANGED <<session, dataVars, toUpdate, current, stopping>>

(* ProcessQueryCallbacks: when the queries are done HandlePlayerLogin puts the *)
(* player into the world, or kicks the client if it cannot be loaded, whether  *)
(* or not the socket is still open.                                            *)
LoginCallback ==
    /\ world = "callbacks"
    /\ session[current].result
    /\ \E loaded \in BOOLEAN :
          session' = [session EXCEPT
                        ![current].result  = FALSE,
                        ![current].loading = FALSE,
                        ![current].player  = loaded,
                        ![current].open    = @ /\ loaded]
    /\ world' = "finish"
    /\ UNCHANGED <<dataVars, toUpdate, current, stopping>>

NoLoginCallback ==
    /\ world = "callbacks"
    /\ world' = "finish"
    /\ UNCHANGED <<session, dataVars, toUpdate, current, stopping>>

(* A session whose socket is closed stays. *)
MutantKeepClosed == world = "finish"

Stays == world = "finish" /\ session[current].open

(* The end of Update for a session that stays: a delayed logout may be due. *)
KeepSession ==
    /\ Stays
    /\ \E due \in BOOLEAN :
          session' = [session EXCEPT ![current].player =
                        @ /\ ~(due /\ ~session[current].loading)]
    /\ world' = "loop"
    /\ current' = NoSession
    /\ UNCHANGED <<dataVars, toUpdate, stopping>>

(* The deleted session stays in the queue. *)
MutantStaysQueued ==
    /\ world = "finish"
    /\ ~session[current].open
    /\ session' = [session EXCEPT ![current] = Free]
    /\ m_sessions' = [m_sessions EXCEPT ![session[current].account] = NoSession]
    /\ world' = "loop"
    /\ current' = NoSession
    /\ UNCHANGED <<addSessQueue, m_QueuedPlayer, m_playerLimit, clockVars, toUpdate,
                   stopping, logins>>


(* Update returns false for a closed socket. The session is taken out of the   *)
(* queue (twice, the second time as a session that is not queued) while the    *)
(* map still counts it, and is deleted, its player with it.                    *)
RemoveSession ==
    /\ world = "finish"
    /\ ~session[current].open
    /\ LET a      == session[current].account
           n      == Cardinality(InMap)
           first  == RemoveQueuedPlayer(m_QueuedPlayer, n, current)
           second == RemoveQueuedPlayer(first.queue, n, current)
       IN  /\ session' = Delete(ClearFlags(first.cleared \union second.cleared), current)
           /\ m_sessions' = [m_sessions EXCEPT ![a] = NoSession]
           /\ m_QueuedPlayer' = second.queue
           /\ m_disconnects' = IF ~first.found /\ Tolerance > 0
                               THEN [m_disconnects EXCEPT ![a] = now]
                               ELSE m_disconnects
    /\ world' = "loop"
    /\ current' = NoSession
    /\ UNCHANGED <<addSessQueue, m_playerLimit, now, toUpdate, stopping, logins>>

EndUpdateSessions ==
    /\ world = "loop"
    /\ toUpdate = {}
    /\ world' = IF stopping THEN "stopped" ELSE "idle"
    /\ UNCHANGED <<session, dataVars, toUpdate, current, stopping>>

-----------------------------------------------------------------------------
(* The rest of the world thread. *)

(* The command "server plimit". *)
SetPlayerAmountLimit(limit) ==
    /\ world = "idle"
    /\ m_playerLimit' = limit
    /\ UNCHANGED <<session, addSessQueue, queueVars, clockVars, loopVars, logins>>

(* WorldRunnable::run after its loop: KickAll, then a last UpdateSessions. *)
KickAll ==
    /\ world = "idle"
    /\ m_QueuedPlayer' = <<>>
    /\ session' = [s \in SessionId |->
                     IF \E a \in InMap : m_sessions[a] = s
                     THEN [session[s] EXCEPT !.open = FALSE] ELSE session[s]]
    /\ stopping' = TRUE
    /\ world' = "add"
    /\ UNCHANGED <<addSessQueue, m_sessions, m_playerLimit, clockVars, toUpdate, current, logins>>

Tick ==
    /\ now < MaxTime
    /\ now' = now + 1
    /\ UNCHANGED <<session, addSessQueue, queueVars, m_playerLimit, m_disconnects, loopVars, logins>>

Stopped ==
    /\ world = "stopped"
    /\ UNCHANGED vars

-----------------------------------------------------------------------------
Network ==
    \E s \in SessionId : CloseSocket(s) \/ \E a \in Account : Authenticate(a, s)

UpdateSessions ==
    \/ StartUpdateSessions \/ RejectSession \/ AddSession \/ AllAdded
    \/ \E a \in Account : StartUpdate(a)
    \/ PacketsDone \/ LoginCallback \/ NoLoginCallback
    \/ KeepSession \/ RemoveSession \/ EndUpdateSessions

Next ==
    \/ Network
    \/ UpdateSessions
    \/ PlayerLogin \/ PlayerLogout
    \/ \E limit \in Limits : SetPlayerAmountLimit(limit)
    \/ KickAll
    \/ Tick
    \/ Stopped

Spec == Init /\ [][Next]_vars

(* The world thread keeps running its loop; clients owe it nothing. *)
FairSpec == Spec /\ WF_vars(UpdateSessions)

-----------------------------------------------------------------------------
Queued    == {m_QueuedPlayer[k] : k \in DOMAIN m_QueuedPlayer}
Added     == {addSessQueue[k] : k \in DOMAIN addSessQueue}
InWorld   == {m_sessions[a] : a \in InMap}
Active(s) == s \in InWorld \ Queued

(* The active sessions of ordinary players that still have a client. *)
ActivePlayers ==
    {s \in InWorld \ Queued : session[s].open /\ session[s].account \notin GameMaster}

Injective(q) == \A j, k \in DOMAIN q : q[j] = q[k] => j = k

(* Every variable has its type. *)
TypeOK ==
    /\ session \in [SessionId -> SessionState \union {Free}]
    /\ addSessQueue \in Seq(SessionId)
    /\ m_sessions \in [Account -> SessionId \union {NoSession}]
    /\ m_QueuedPlayer \in Seq(SessionId)
    /\ m_playerLimit \in Limits
    /\ m_disconnects \in [Account -> (0..MaxTime) \union {Never}]
    /\ now \in 0..MaxTime
    /\ world \in {"idle", "add", "loop", "packets", "callbacks", "finish", "stopped"}
    /\ toUpdate \subseteq Account
    /\ current \in SessionId \union {NoSession}
    /\ stopping \in BOOLEAN
    /\ logins \in 0..MaxLogins

OneHolderEach ==
    /\ Injective(addSessQueue)
    /\ Added \intersect InWorld = {}
    /\ Added \union InWorld = Live
    /\ \A a \in InMap : session[m_sessions[a]].account = a

QueueConsistent ==
    /\ Injective(m_QueuedPlayer)
    /\ Queued \subseteq InWorld
    /\ \A s \in Queued : session[s].inQueue
    /\ \A s \in InWorld : session[s].open /\ session[s].inQueue => s \in Queued

(* Every session object is in exactly one of addSessQueue and m_sessions, under *)
(* its own account and once, and neither holds a deleted one: no deletion of   *)
(* AddSession_ or UpdateSessions leaks a session or leaves a pointer behind.   *)
(* m_QueuedPlayer holds sessions of the map only, each once, all of them       *)
(* flagged, and a connected session that is flagged has its place there, so it *)
(* is not ignored for ever; the difference taken by GetActiveSessionCount      *)
(* therefore never wraps around.                                               *)
SessionsConsistent == TypeOK /\ OneHolderEach /\ QueueConsistent

(* An account never has two sessions with a character in the world or on its   *)
(* way there, through replaced, rejected and dying sessions: a character is    *)
(* not loaded while another copy of it is still to be saved. A session that    *)
(* waits in the queue has no character and is loading none.                    *)
HasCharacter(s) == session[s].player \/ session[s].loading \/ session[s].result

OneCharacterPerAccount ==
    /\ \A s, t \in Live :
          s # t /\ session[s].account = session[t].account
              => ~(HasCharacter(s) /\ HasCharacter(t))
    /\ \A s \in Queued : ~HasCharacter(s)

LimitRespected == m_playerLimit > 0 => Cardinality(ActivePlayers) <= m_playerLimit

NoIdleSlot ==
    m_QueuedPlayer # <<>> =>
        m_playerLimit > 0 /\ Cardinality(InWorld \ Queued) >= m_playerLimit

(* With a constant limit the places are given out exactly: no replacement,     *)
(* double removal or promotion lets more players than PlayerLimit in, and      *)
(* nobody waits while there is room, so every departure that makes room        *)
(* promotes somebody.                                                          *)
PlacesExact == LimitRespected /\ NoIdleSlot

(* With a constant limit the queue is fair: when an ordinary player is let in  *)
(* while another goes on waiting, it had waited in front of that one.          *)
AdmittedInOrder ==
    \A s, t \in SessionId :
        (/\ s \in Queued /\ s \in Queued'
         /\ ~Active(t) /\ Active(t)'
         /\ session'[t].account \notin GameMaster)
            => \E j, k \in DOMAIN m_QueuedPlayer :
                  m_QueuedPlayer[j] = t /\ m_QueuedPlayer[k] = s /\ j < k

NoOvertaking == [][AdmittedInOrder]_vars

(* A session whose client is gone is deleted in the end, wherever it was, and  *)
(* so frees its place; only the end of the server leaves one behind.           *)
ClosedSessionGoes ==
    \A s \in SessionId :
        (session[s] # Free /\ ~session[s].open) ~> (session[s] = Free \/ world = "stopped")
=============================================================================
