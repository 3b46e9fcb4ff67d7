------------------------ MODULE WorldSessions_proofs ------------------------
(* The sessions of the world server, for any number of accounts, addresses     *)
(* and logins: every session object has one holder, the login queue agrees     *)
(* with the sessions of the map, an account has one character at most, and,    *)
(* with a constant limit, the places are given out exactly and in order.       *)
EXTENDS WorldSessions, FunctionTheorems, FiniteSetTheorems, SequenceTheorems, TLAPS

-----------------------------------------------------------------------------
(* The inductive invariant. *)

(* A session that nobody has taken in yet has no character, *)
NewAreFresh == \A s \in Added : ~HasCharacter(s)

(* nor has one that waits in the queue. *)
QueuedAreIdle == \A s \in Queued : ~HasCharacter(s)

(* The loop of UpdateSessions has accounts of the map before it, and the       *)
(* session in its hands is the one of an account that it has passed.           *)
LoopConsistent ==
    /\ toUpdate \subseteq InMap
    /\ world \in {"packets", "callbacks", "finish"} =>
          current \in InWorld /\ session[current].account \notin toUpdate

IInv == TypeOK /\ OneHolderEach /\ QueueConsistent /\ NewAreFresh /\ QueuedAreIdle /\ LoopConsistent

-----------------------------------------------------------------------------
(* The sequences of addresses. *)

(* What stands in a sequence. *)
Elems(q) == {q[k] : k \in DOMAIN q}

(* q is a sequence of addresses in which each stands once. *)
Line(q) == q \in Seq(SessionId) /\ Injective(q)

(* The empty sequence is one, and nothing stands in it. *)
LEMMA LineEmpty == Line(<<>>) /\ Elems(<<>>) = {}
<1>1. <<>> \in Seq(SessionId) /\ DOMAIN <<>> = {}
    BY EmptySeq
<1> QED
    BY <1>1 DEF Line, Injective, Elems

(* An address that is not there yet may be appended, *)
LEMMA LineAppend ==
    ASSUME NEW q, Line(q), NEW s \in SessionId, s \notin Elems(q)
    PROVE  Line(Append(q, s)) /\ Elems(Append(q, s)) = Elems(q) \union {s}
<1> DEFINE r == Append(q, s)
<1>0. q \in Seq(SessionId) /\ Len(q) \in Nat /\ DOMAIN q = 1..Len(q)
    BY DEF Line
<1>1. r \in Seq(SessionId) /\ Len(r) = Len(q) + 1 /\ DOMAIN r = 1..(Len(q) + 1)
    BY <1>0
<1>2. /\ \A i \in 1..Len(q) : r[i] = q[i]
      /\ r[Len(q) + 1] = s
    BY <1>0
<1> HIDE DEF r
<1>3. \A i \in DOMAIN r : i \in DOMAIN q \/ i = Len(q) + 1
    BY <1>0, <1>1
<1>4. Len(q) + 1 \in DOMAIN r /\ DOMAIN q \subseteq DOMAIN r
    BY <1>0, <1>1
<1>5. Injective(r)
    BY <1>0, <1>2, <1>3 DEF Line, Injective, Elems
<1>6. Elems(r) = Elems(q) \union {s}
    BY <1>0, <1>2, <1>3, <1>4 DEF Elems
<1> QED
    BY <1>1, <1>5, <1>6 DEF Line, r

(* and the front may be taken. *)
LEMMA LineTail ==
    ASSUME NEW q, Line(q), q # <<>>
    PROVE  /\ Line(Tail(q))
           /\ Head(q) \in Elems(q)
           /\ Elems(Tail(q)) = Elems(q) \ {Head(q)}
<1> DEFINE r == Tail(q)
<1>0. q \in Seq(SessionId) /\ Len(q) \in Nat \ {0} /\ DOMAIN q = 1..Len(q)
    BY EmptySeq DEF Line
<1>1. r \in Seq(SessionId) /\ Len(r) = Len(q) - 1 /\ DOMAIN r = 1..(Len(q) - 1)
    BY <1>0
<1>2. \A i \in 1..(Len(q) - 1) : r[i] = q[i + 1]
    BY <1>0
<1>3. Head(q) = q[1] /\ 1 \in DOMAIN q
    BY <1>0
<1> HIDE DEF r
<1>4. \A i \in DOMAIN r : i + 1 \in DOMAIN q /\ i + 1 # 1 /\ r[i] = q[i + 1]
    BY <1>0, <1>1, <1>2
<1>5. \A j \in DOMAIN q : j # 1 => j - 1 \in DOMAIN r /\ r[j - 1] = q[j]
    <2> SUFFICES ASSUME NEW j \in DOMAIN q, j # 1
                 PROVE  j - 1 \in DOMAIN r /\ r[j - 1] = q[j]
        OBVIOUS
    <2>1. j - 1 \in 1..(Len(q) - 1) /\ j - 1 + 1 = j
        BY <1>0
    <2> QED
        BY <2>1, <1>1, <1>2
<1>6. Injective(r)
    <2> SUFFICES ASSUME NEW j \in DOMAIN r, NEW k \in DOMAIN r, r[j] = r[k]
                 PROVE  j = k
        BY DEF Injective
    <2>1. j + 1 = k + 1
        BY <1>4 DEF Line, Injective
    <2> QED
        BY <2>1, <1>1
<1>7. Elems(r) \subseteq Elems(q) \ {Head(q)}
    BY <1>3, <1>4 DEF Elems, Line, Injective
<1>8. Elems(q) \ {Head(q)} \subseteq Elems(r)
    BY <1>3, <1>5 DEF Elems
<1> QED
    BY <1>1, <1>3, <1>6, <1>7, <1>8 DEF Line, Elems, r

(* Where the elements of the sequence are without its element at k. *)
LEMMA EraseAt ==
    ASSUME NEW q, Line(q), NEW s \in Elems(q)
    PROVE  \E k \in DOMAIN q :
              /\ q[k] = s
              /\ Erase(q, s) \in Seq(SessionId)
              /\ DOMAIN Erase(q, s) = 1..(Len(q) - 1)
              /\ \A i \in 1..(Len(q) - 1) :
                    Erase(q, s)[i] = IF i < k THEN q[i] ELSE q[i + 1]
<1> DEFINE k == CHOOSE j \in DOMAIN q : q[j] = s
<1>0. q \in Seq(SessionId) /\ Len(q) \in Nat /\ DOMAIN q = 1..Len(q)
    BY DEF Line
<1>1. k \in DOMAIN q /\ q[k] = s
    BY DEF Elems
<1>2. Erase(q, s) = SubSeq(q, 1, k - 1) \o SubSeq(q, k + 1, Len(q))
    BY DEF Erase
<1> HIDE DEF k
<1> DEFINE a == SubSeq(q, 1, k - 1)
           b == SubSeq(q, k + 1, Len(q))
<1>3. k \in 1..Len(q) /\ k - 1 \in 0..Len(q) /\ k + 1 \in 1..(Len(q) + 1)
    BY <1>0, <1>1
<1>4. a \in Seq(SessionId) /\ Len(a) = k - 1 /\ \A i \in 1..(k - 1) : a[i] = q[i]
    BY <1>0, <1>3
<1>5. b \in Seq(SessionId) /\ Len(b) = Len(q) - k /\ \A i \in 1..(Len(q) - k) : b[i] = q[k + i]
    <2> DEFINE l == k + 1
    <2>1. l \in 1..(Len(q) + 1) /\ Len(q) - l + 1 = Len(q) - k
        BY <1>0, <1>3
    <2>2. \A i \in 1..(Len(q) - k) : l + i - 1 = k + i
        BY <1>0, <1>3
    <2>3. b = SubSeq(q, l, Len(q))
        OBVIOUS
    <2> HIDE DEF l
    <2>4. /\ b \in Seq(SessionId)
          /\ Len(b) = Len(q) - l + 1
          /\ \A i \in 1..(Len(q) - l + 1) : b[i] = q[l + i - 1]
        <3>1. \A i \in l..Len(q) : q[i] \in SessionId
            BY <2>1, <1>0
        <3>2. l \in Int /\ Len(q) \in Int
            BY <2>1, <1>0
        <3>3. b \in Seq(SessionId)
            BY <2>3, <3>1, <3>2, SubSeqProperties
        <3>4. Len(SubSeq(q, l, Len(q))) = Len(q) - l + 1
            BY <2>1, <1>0
        <3>5. \A i \in 1..(Len(q) - l + 1) : SubSeq(q, l, Len(q))[i] = q[l + i - 1]
            BY <2>1, <1>0
        <3> QED
            BY <2>3, <3>3, <3>4, <3>5
    <2> QED
        BY <2>1, <2>2, <2>4
<1>6. Erase(q, s) = a \o b
    BY <1>2
<1> HIDE DEF a, b
<1>7. /\ a \o b \in Seq(SessionId)
      /\ Len(a \o b) = Len(q) - 1
      /\ \A i \in 1..(Len(q) - 1) : (a \o b)[i] = IF i <= k - 1 THEN a[i] ELSE b[i - (k - 1)]
    <2>1. Len(a) + Len(b) = Len(q) - 1
        BY <1>0, <1>3, <1>4, <1>5
    <2>2. /\ a \o b \in Seq(SessionId)
          /\ Len(a \o b) = Len(a) + Len(b)
          /\ \A i \in 1..(Len(a) + Len(b)) :
                (a \o b)[i] = IF i <= Len(a) THEN a[i] ELSE b[i - Len(a)]
        BY <1>4, <1>5, ConcatProperties
    <2> QED
        BY <2>1, <2>2, <1>4
<1>8. DOMAIN (a \o b) = 1..(Len(q) - 1)
    BY <1>7
<1>9. ASSUME NEW i \in 1..(Len(q) - 1)
      PROVE  (a \o b)[i] = IF i < k THEN q[i] ELSE q[i + 1]
    <2>1. CASE i < k
        BY <2>1, <1>0, <1>3, <1>4, <1>7
    <2>2. CASE ~(i < k)
        <3> DEFINE j == i - (k - 1)
        <3>1. j \in 1..(Len(q) - k) /\ k + j = i + 1 /\ ~(i <= k - 1)
            BY <2>2, <1>0, <1>3
        <3>2. (a \o b)[i] = b[j]
            BY <3>1, <1>7
        <3> HIDE DEF j
        <3>3. b[j] = q[i + 1]
            BY <3>1, <1>5
        <3> QED
            BY <3>2, <3>3, <2>2
    <2> QED
        BY <2>1, <2>2
<1> QED
    BY <1>1, <1>6, <1>7, <1>8, <1>9

(* Without one of its elements it is still one, with the others in it. *)
LEMMA LineErase ==
    ASSUME NEW q, Line(q), NEW s \in Elems(q)
    PROVE  Line(Erase(q, s)) /\ Elems(Erase(q, s)) = Elems(q) \ {s}
<1> DEFINE r == Erase(q, s)
<1>0. q \in Seq(SessionId) /\ Len(q) \in Nat /\ DOMAIN q = 1..Len(q)
    BY DEF Line
<1>1. PICK k \in DOMAIN q :
              /\ q[k] = s
              /\ r \in Seq(SessionId)
              /\ DOMAIN r = 1..(Len(q) - 1)
              /\ \A i \in 1..(Len(q) - 1) : r[i] = IF i < k THEN q[i] ELSE q[i + 1]
    BY EraseAt
<1> HIDE DEF r
<1>2. \A i \in DOMAIN r : i < k => i \in DOMAIN q /\ i # k /\ r[i] = q[i]
    BY <1>0, <1>1
<1>3. \A i \in DOMAIN r : ~(i < k) => i + 1 \in DOMAIN q /\ i + 1 # k /\ r[i] = q[i + 1]
    BY <1>0, <1>1
<1>4. \A j \in DOMAIN q : j < k => j \in DOMAIN r /\ r[j] = q[j]
    BY <1>0, <1>1
<1>5. ASSUME NEW j \in DOMAIN q, j > k
      PROVE  j - 1 \in DOMAIN r /\ r[j - 1] = q[j]
    <2>1. j - 1 \in 1..(Len(q) - 1) /\ ~(j - 1 < k) /\ j - 1 + 1 = j
        BY <1>0, <1>1, <1>5
    <2> QED
        BY <2>1, <1>1
<1>6. Injective(r)
    <2> SUFFICES ASSUME NEW i \in DOMAIN r, NEW j \in DOMAIN r, r[i] = r[j]
                 PROVE  i = j
        BY DEF Injective
    <2>0. \A x, y \in DOMAIN q : q[x] = q[y] => x = y
        BY DEF Line, Injective
    <2>1. i \in Nat /\ j \in Nat /\ k \in Nat
        BY <1>0, <1>1
    <2>2. CASE i < k /\ j < k
        BY <2>0, <2>2, <1>2
    <2>3. CASE i < k /\ ~(j < k)
        <3>1. i = j + 1
            BY <2>0, <2>3, <1>2, <1>3
        <3> QED
            BY <3>1, <2>1, <2>3
    <2>4. CASE ~(i < k) /\ j < k
        <3>1. i + 1 = j
            BY <2>0, <2>4, <1>2, <1>3
        <3> QED
            BY <3>1, <2>1, <2>4
    <2>5. CASE ~(i < k) /\ ~(j < k)
        <3>1. i + 1 = j + 1
            BY <2>0, <2>5, <1>3
        <3> QED
            BY <3>1, <2>1
    <2> QED
        BY <2>2, <2>3, <2>4, <2>5
<1>7. Elems(r) \subseteq Elems(q) \ {s}
    BY <1>1, <1>2, <1>3 DEF Elems, Line, Injective
<1>8. ASSUME NEW t \in Elems(q) \ {s}
      PROVE  t \in Elems(r)
    <2>1. PICK j \in DOMAIN q : q[j] = t
        BY DEF Elems
    <2>2. j # k
        BY <2>1, <1>1
    <2>3. j < k \/ j > k
        BY <2>2, <1>0, <1>1
    <2> QED
        BY <2>1, <2>3, <1>4, <1>5 DEF Elems
<1> QED
    BY <1>1, <1>6, <1>7, <1>8 DEF Line, r

-----------------------------------------------------------------------------
(* r.queue and r.cleared are what is left of q, without s, and what went, s    *)
(* among it if it was there.                                                   *)
Splits(q, s, r) ==
    /\ Line(r.queue)
    /\ r.found = (s \in Elems(q))
    /\ Elems(r.queue) \intersect r.cleared = {}
    /\ Elems(r.queue) \union r.cleared = Elems(q)
    /\ s \notin Elems(r.queue)

(* World::RemoveQueuedPlayer: it takes s out of the queue, and the sessions    *)
(* that leave the queue are those whose flag it clears.                        *)
LEMMA RemoveSplits ==
    ASSUME NEW q, Line(q), NEW n, NEW s, NEW r, r = RemoveQueuedPlayer(q, n, s)
    PROVE  Splits(q, s, r)
<1> DEFINE found == IsQueued(q, s)
           rest  == IF found THEN Erase(q, s) ELSE q
           admit == rest # <<>> /\ HasRoom(ActiveWithout(q, n, found))
<1>1. found = (s \in Elems(q))
    <2>1. found <=> s \in Elems(q)
        BY DEF IsQueued, Elems
    <2>2. found \in BOOLEAN /\ (s \in Elems(q)) \in BOOLEAN
        BY DEF IsQueued
    <2> QED
        BY <2>1, <2>2
<1>2. Line(rest) /\ Elems(rest) = Elems(q) \ {s}
    <2>1. CASE found
        BY <2>1, <1>1, LineErase
    <2>2. CASE ~found
        BY <2>2, <1>1
    <2> QED
        BY <2>1, <2>2
<1>3. /\ r.found = found
      /\ r.queue = IF admit THEN Tail(rest) ELSE rest
      /\ r.cleared = (IF admit THEN {Head(rest)} ELSE {}) \union (IF found THEN {s} ELSE {})
    BY DEF RemoveQueuedPlayer, AdmitFront
<1>4. admit => rest # <<>>
    OBVIOUS
<1> HIDE DEF found, rest, admit
<1>5. CASE admit
    <2>1. Line(Tail(rest)) /\ Head(rest) \in Elems(rest) /\ Elems(Tail(rest)) = Elems(rest) \ {Head(rest)}
        BY <1>2, <1>4, <1>5, LineTail
    <2> QED
        BY <2>1, <1>1, <1>2, <1>3, <1>5 DEF Splits
<1>6. CASE ~admit
    BY <1>1, <1>2, <1>3, <1>6 DEF Splits
<1> QED
    BY <1>5, <1>6

-----------------------------------------------------------------------------
(* The invariant of a step that changes no session and no list of them. *)

(* A step that moves nobody between the map and the queue, and opens no closed *)
(* socket.                                                                     *)
Mild ==
    /\ UNCHANGED queueVars
    /\ \A s \in InWorld :
          /\ session'[s].account = session[s].account
          /\ session'[s].open => session[s].open

(* What the invariant says of the objects and of the lists that hold them. *)
Holders ==
    /\ session \in [SessionId -> SessionState \union {Free}]
    /\ addSessQueue \in Seq(SessionId)
    /\ m_sessions \in [Account -> SessionId \union {NoSession}]
    /\ m_QueuedPlayer \in Seq(SessionId)
    /\ OneHolderEach
    /\ QueueConsistent
    /\ NewAreFresh
    /\ QueuedAreIdle

(* What it says of the rest of the state. *)
Others ==
    /\ m_playerLimit \in Limits
    /\ m_disconnects \in [Account -> (0..MaxTime) \union {Never}]
    /\ now \in 0..MaxTime
    /\ world \in {"idle", "add", "loop", "packets", "callbacks", "finish", "stopped"}
    /\ toUpdate \subseteq Account
    /\ current \in SessionId \union {NoSession}
    /\ stopping \in BOOLEAN
    /\ logins \in 0..MaxLogins
    /\ LoopConsistent

(* The two together are the invariant. *)
LEMMA InvariantParts == IInv <=> Holders /\ Others
BY DEF IInv, TypeOK, Holders, Others

(* The sets of sessions in the words of the lists. *)
LEMMA Lists ==
    ASSUME Holders
    PROVE  /\ NoSession \notin SessionId
           /\ Free \notin SessionState
           /\ Line(addSessQueue) /\ Added = Elems(addSessQueue)
           /\ Line(m_QueuedPlayer) /\ Queued = Elems(m_QueuedPlayer)
           /\ Live \subseteq SessionId
           /\ Queued \subseteq InWorld /\ InWorld \subseteq Live /\ Added \subseteq Live
           /\ Added \intersect InWorld = {}
           /\ Live = Added \union InWorld
           /\ \A s \in Live : session[s] \in SessionState
           /\ \A a \in InMap : m_sessions[a] \in InWorld /\ session[m_sessions[a]].account = a
           /\ \A s \in InWorld : session[s].account \in InMap /\ m_sessions[session[s].account] = s
<1>1. NoSession \notin SessionId /\ Free \notin SessionState
    BY SessionsAssumption, FreeAssumption
<1>2. Line(addSessQueue) /\ Added = Elems(addSessQueue)
    BY DEF Holders, OneHolderEach, Line, Added, Elems
<1>3. Line(m_QueuedPlayer) /\ Queued = Elems(m_QueuedPlayer)
    BY DEF Holders, QueueConsistent, Line, Queued, Elems
<1>4. /\ Live \subseteq SessionId
      /\ Queued \subseteq InWorld /\ InWorld \subseteq Live /\ Added \subseteq Live
      /\ Added \intersect InWorld = {}
      /\ Live = Added \union InWorld
    BY DEF Holders, OneHolderEach, QueueConsistent, Live
<1>5. \A s \in Live : session[s] \in SessionState
    BY DEF Holders, Live
<1>6. \A a \in InMap : m_sessions[a] \in InWorld /\ session[m_sessions[a]].account = a
    BY DEF Holders, OneHolderEach, InWorld
<1>7. \A s \in InWorld : session[s].account \in InMap /\ m_sessions[session[s].account] = s
    BY DEF Holders, OneHolderEach, InWorld
<1> QED
    BY <1>1, <1>2, <1>3, <1>4, <1>5, <1>6, <1>7

(* A step that leaves the objects and the lists as they are keeps what the     *)
(* invariant says of them.                                                     *)
LEMMA HoldersKept ==
    ASSUME Holders, UNCHANGED <<session, addSessQueue, queueVars>>
    PROVE  Holders' /\ Mild /\ InMap' = InMap /\ InWorld' = InWorld
<1>1. /\ session' = session /\ addSessQueue' = addSessQueue
      /\ m_sessions' = m_sessions /\ m_QueuedPlayer' = m_QueuedPlayer
    BY DEF queueVars
<1>2. /\ Live' = Live /\ Added' = Added /\ InMap' = InMap /\ InWorld' = InWorld
      /\ Queued' = Queued
    BY <1>1 DEF Live, Added, InMap, InWorld, Queued
<1>3. OneHolderEach'
    BY <1>1, <1>2 DEF OneHolderEach, Injective, Holders
<1>4. QueueConsistent'
    BY <1>1, <1>2 DEF QueueConsistent, Injective, Holders
<1>5. NewAreFresh' /\ QueuedAreIdle'
    BY <1>1, <1>2 DEF NewAreFresh, QueuedAreIdle, HasCharacter, Holders
<1> QED
    BY <1>1, <1>2, <1>3, <1>4, <1>5 DEF Holders, Mild, queueVars

(* So does a step on one object that leaves its account and its flag, opens no *)
(* closed socket, and gives a character only to a session of the map that does *)
(* not wait in the queue.                                                      *)
LEMMA ObjectStep ==
    ASSUME Holders, NEW x \in Live, NEW r \in SessionState,
           session' = [session EXCEPT ![x] = r],
           r.account = session[x].account,
           r.inQueue = session[x].inQueue,
           r.open => session[x].open,
           r.player \/ r.loading \/ r.result => HasCharacter(x) \/ x \in InWorld \ Queued,
           UNCHANGED <<addSessQueue, queueVars>>
    PROVE  /\ Holders' /\ Mild
           /\ InMap' = InMap /\ InWorld' = InWorld
           /\ \A s \in Live : session'[s].account = session[s].account
<1>0. /\ x \in SessionId /\ session \in [SessionId -> SessionState \union {Free}]
      /\ Free \notin SessionState
    BY Lists DEF Holders
<1>1. /\ session' \in [SessionId -> SessionState \union {Free}]
      /\ session'[x] = r
      /\ \A s \in SessionId : s # x => session'[s] = session[s]
    BY <1>0
<1>2. Live' = Live
    BY <1>0, <1>1 DEF Live
<1>3. /\ addSessQueue' = addSessQueue /\ m_sessions' = m_sessions
      /\ m_QueuedPlayer' = m_QueuedPlayer
    BY DEF queueVars
<1>4. Added' = Added /\ InMap' = InMap /\ InWorld' = InWorld /\ Queued' = Queued
    BY <1>3 DEF Added, InMap, InWorld, Queued
<1>5. /\ \A s \in Live : session'[s].account = session[s].account
      /\ \A s \in Live : session'[s].inQueue = session[s].inQueue
      /\ \A s \in Live : session'[s].open => session[s].open
      /\ \A s \in Live : HasCharacter(s)' => HasCharacter(s) \/ s \in InWorld \ Queued
    BY <1>1, Lists DEF HasCharacter
<1>6. OneHolderEach'
    BY <1>2, <1>3, <1>4, <1>5, Lists DEF OneHolderEach, Injective, Holders
<1>7. QueueConsistent'
    BY <1>3, <1>4, <1>5, Lists DEF QueueConsistent, Injective, Holders
<1>8. NewAreFresh' /\ QueuedAreIdle'
    BY <1>4, <1>5, Lists DEF NewAreFresh, QueuedAreIdle, Holders
<1> QED
    <2>1. Mild
        BY <1>5, Lists DEF Mild
    <2> QED
        BY <2>1, <1>1, <1>3, <1>4, <1>5, <1>6, <1>7, <1>8 DEF Holders

(* The session in the hands of the world thread is one of the map. *)
LEMMA CurrentInWorld ==
    ASSUME IInv, world \in {"packets", "callbacks", "finish"}
    PROVE  /\ current \in InWorld /\ current \in Live
           /\ session[current].account \notin toUpdate
           /\ session[current] \in SessionState
           /\ current \in Queued => session[current].inQueue /\ ~HasCharacter(current)
<1>1. Holders /\ LoopConsistent
    BY InvariantParts DEF Others
<1>2. current \in InWorld /\ session[current].account \notin toUpdate
    BY <1>1 DEF LoopConsistent
<1> QED
    BY <1>1, <1>2, Lists DEF Holders, QueueConsistent, QueuedAreIdle

-----------------------------------------------------------------------------
(* The network threads. *)

(* A new session is appended to addSessQueue. *)
LEMMA AuthenticateStep ==
    ASSUME IInv, NEW a \in Account, NEW s \in SessionId, Authenticate(a, s)
    PROVE  IInv' /\ Mild
<1> DEFINE new == [account |-> a, open |-> TRUE, inQueue |-> FALSE,
                   loading |-> FALSE, result |-> FALSE, player |-> FALSE]
<1>0. Holders /\ Others
    BY InvariantParts
<1>1. new \in SessionState
    BY DEF SessionState
<1>2. new.account = a /\ ~new.player /\ ~new.loading /\ ~new.result
    OBVIOUS
<1>3. /\ session[s] = Free /\ session' = [session EXCEPT ![s] = new]
      /\ addSessQueue' = Append(addSessQueue, s)
      /\ m_sessions' = m_sessions /\ m_QueuedPlayer' = m_QueuedPlayer
      /\ logins < MaxLogins /\ logins' = logins + 1
      /\ UNCHANGED <<m_playerLimit, m_disconnects, now, world, toUpdate, current, stopping>>
    BY DEF Authenticate, queueVars, clockVars, loopVars
<1> HIDE DEF new
<1>4. /\ session' \in [SessionId -> SessionState \union {Free}]
      /\ session'[s] = new
      /\ \A x \in SessionId : x # s => session'[x] = session[x]
    BY <1>0, <1>1, <1>3 DEF Holders
<1>5. s \notin Live /\ Live' = Live \union {s}
    BY <1>0, <1>1, <1>3, <1>4, Lists DEF Live
<1>6. /\ Line(addSessQueue') /\ Elems(addSessQueue') = Added \union {s}
    BY <1>0, <1>3, <1>5, Lists, LineAppend
<1>7. Added' = Added \union {s}
    BY <1>6 DEF Added, Elems
<1>8. InMap' = InMap /\ InWorld' = InWorld /\ Queued' = Queued
    BY <1>3 DEF InMap, InWorld, Queued
<1>9. \A x \in Live : session'[x] = session[x] /\ HasCharacter(x)' = HasCharacter(x)
    BY <1>0, <1>4, <1>5, Lists DEF HasCharacter
<1>10. ~HasCharacter(s)'
    BY <1>2, <1>4 DEF HasCharacter
<1>11. OneHolderEach'
    <2>1. Injective(addSessQueue')
        BY <1>6 DEF Line
    <2>2. Added' \intersect InWorld' = {} /\ Added' \union InWorld' = Live'
        BY <1>0, <1>5, <1>7, <1>8, Lists
    <2>3. \A b \in InMap' : session'[m_sessions'[b]].account = b
        BY <1>0, <1>3, <1>8, <1>9, Lists
    <2> QED
        BY <2>1, <2>2, <2>3 DEF OneHolderEach, Injective
<1>12. QueueConsistent'
    BY <1>0, <1>3, <1>8, <1>9, Lists DEF QueueConsistent, Injective, Holders
<1>13. NewAreFresh' /\ QueuedAreIdle'
    BY <1>0, <1>7, <1>8, <1>9, <1>10, Lists DEF NewAreFresh, QueuedAreIdle, Holders
<1>14. Holders'
    BY <1>0, <1>3, <1>4, <1>6, <1>11, <1>12, <1>13 DEF Holders, Line
<1>15. LoopConsistent'
    BY <1>0, <1>3, <1>8, <1>9, Lists DEF LoopConsistent, Others
<1>16. logins' \in 0..MaxLogins
    BY <1>0, <1>3, SessionsAssumption DEF Others
<1>17. Others'
    BY <1>0, <1>3, <1>15, <1>16 DEF Others
<1>18. Mild
    BY <1>0, <1>3, <1>9, Lists DEF Mild, queueVars
<1>19. IInv'
    BY <1>14, <1>17, InvariantParts, PTL
<1> QED
    BY <1>18, <1>19

(* A socket closes. *)
LEMMA CloseSocketStep ==
    ASSUME IInv, NEW s \in SessionId, CloseSocket(s)
    PROVE  IInv' /\ Mild
<1> DEFINE r == [session[s] EXCEPT !.open = FALSE]
<1>0. Holders /\ Others
    BY InvariantParts
<1>1. s \in Live /\ session[s] \in SessionState
    BY <1>0, Lists DEF CloseSocket, Live
<1>2. r \in SessionState
    BY <1>1 DEF SessionState
<1>3. /\ r.account = session[s].account /\ r.inQueue = session[s].inQueue /\ ~r.open
      /\ r.player = session[s].player /\ r.loading = session[s].loading
      /\ r.result = session[s].result
    BY <1>1 DEF SessionState
<1>4. /\ session' = [session EXCEPT ![s] = r]
      /\ UNCHANGED <<addSessQueue, queueVars>>
      /\ UNCHANGED <<m_playerLimit, m_disconnects, now, world, toUpdate, current, stopping,
                     logins>>
    BY DEF CloseSocket, dataVars, clockVars, loopVars
<1> HIDE DEF r
<1>5. /\ Holders' /\ Mild /\ InMap' = InMap /\ InWorld' = InWorld
      /\ \A x \in Live : session'[x].account = session[x].account
    BY <1>0, <1>1, <1>2, <1>3, <1>4, ObjectStep DEF HasCharacter
<1>6. Others'
    BY <1>0, <1>4, <1>5, Lists DEF Others, LoopConsistent
<1>7. IInv'
    BY <1>5, <1>6, InvariantParts, PTL
<1> QED
    BY <1>5, <1>7

-----------------------------------------------------------------------------
(* The steps of the world thread that change no session. *)

(* What they keep. *)
LEMMA QuietStep ==
    ASSUME IInv, UNCHANGED <<session, addSessQueue, queueVars>>, Others'
    PROVE  IInv' /\ Mild
<1>1. Holders
    BY InvariantParts
<1>2. Holders' /\ Mild
    BY <1>1, HoldersKept
<1>3. IInv'
    BY <1>2, InvariantParts, PTL
<1> QED
    BY <1>2, <1>3

(* They all keep the invariant. *)
LEMMA WorldThreadStep ==
    ASSUME IInv,
           \/ StartUpdateSessions \/ AllAdded \/ PacketsDone \/ NoLoginCallback
           \/ EndUpdateSessions \/ Tick \/ Stopped
    PROVE  IInv' /\ Mild
<1>0. Holders /\ Others /\ LoopConsistent
    BY InvariantParts DEF Others
<1>1. UNCHANGED <<session, addSessQueue, queueVars, m_playerLimit, m_disconnects, current,
                  stopping, logins>>
    BY DEF StartUpdateSessions, AllAdded, PacketsDone, NoLoginCallback, EndUpdateSessions,
           Tick, Stopped, dataVars, loopVars, clockVars, vars, queueVars
<1>2. InMap' = InMap /\ InWorld' = InWorld /\ session' = session
    BY <1>0, <1>1, HoldersKept
<1>3. now' \in 0..MaxTime
    BY <1>0, SessionsAssumption
    DEF StartUpdateSessions, AllAdded, PacketsDone, NoLoginCallback, EndUpdateSessions,
        Tick, Stopped, dataVars, clockVars, vars, Others
<1>4. world' \in {"idle", "add", "loop", "packets", "callbacks", "finish", "stopped"}
    BY <1>0
    DEF StartUpdateSessions, AllAdded, PacketsDone, NoLoginCallback, EndUpdateSessions,
        Tick, Stopped, loopVars, vars, Others
<1>5. world' \in {"packets", "callbacks", "finish"} =>
          world \in {"packets", "callbacks", "finish"} /\ toUpdate' = toUpdate
    BY DEF StartUpdateSessions, AllAdded, PacketsDone, NoLoginCallback, EndUpdateSessions,
           Tick, Stopped, loopVars, vars
<1>6. toUpdate' = toUpdate \/ toUpdate' = InMap
    BY DEF StartUpdateSessions, AllAdded, PacketsDone, NoLoginCallback, EndUpdateSessions,
           Tick, Stopped, loopVars, vars
<1>7. InMap \subseteq Account
    BY DEF InMap
<1>8. toUpdate' \subseteq InMap' /\ toUpdate' \subseteq Account
    BY <1>0, <1>2, <1>6, <1>7 DEF LoopConsistent
<1>9. LoopConsistent'
    BY <1>0, <1>1, <1>2, <1>5, <1>8 DEF LoopConsistent
<1>10. Others'
    BY <1>0, <1>1, <1>3, <1>4, <1>8, <1>9 DEF Others
<1> QED
    BY <1>1, <1>10, QuietStep

(* The command "server plimit" keeps it too. *)
LEMMA LimitStep ==
    ASSUME IInv, NEW limit \in Limits, SetPlayerAmountLimit(limit)
    PROVE  IInv' /\ Mild
<1>0. Holders /\ Others
    BY InvariantParts
<1>1. /\ UNCHANGED <<session, addSessQueue, queueVars>>
      /\ UNCHANGED <<m_disconnects, now, world, toUpdate, current, stopping, logins>>
      /\ m_playerLimit' = limit
    BY DEF SetPlayerAmountLimit, clockVars, loopVars
<1>2. InMap' = InMap /\ InWorld' = InWorld /\ session' = session
    BY <1>0, <1>1, HoldersKept
<1>3. Others'
    BY <1>0, <1>1, <1>2 DEF Others, LoopConsistent
<1> QED
    BY <1>1, <1>3, QuietStep

-----------------------------------------------------------------------------
(* WorldSession::Update. *)

(* What a step on the session in the hands of the world thread has to show. *)
LEMMA CurrentStep ==
    ASSUME IInv, world \in {"packets", "callbacks", "finish"},
           NEW r \in SessionState,
           session' = [session EXCEPT ![current] = r],
           r.account = session[current].account,
           r.inQueue = session[current].inQueue,
           r.open => session[current].open,
           r.player \/ r.loading \/ r.result =>
               HasCharacter(current) \/ ~session[current].inQueue,
           UNCHANGED <<dataVars, toUpdate, stopping>>,
           \/ world' \in {"packets", "callbacks", "finish"} /\ current' = current
           \/ world' = "loop" /\ current' = NoSession
    PROVE  IInv' /\ Mild
<1>0. Holders /\ Others /\ LoopConsistent
    BY InvariantParts DEF Others
<1>1. /\ current \in Live /\ current \in InWorld
      /\ current \in Queued => session[current].inQueue
    BY CurrentInWorld
<1>2. /\ UNCHANGED <<addSessQueue, queueVars>>
      /\ UNCHANGED <<m_playerLimit, m_disconnects, now, toUpdate, stopping, logins>>
    BY DEF dataVars, clockVars
<1>3. r.player \/ r.loading \/ r.result => HasCharacter(current) \/ current \in InWorld \ Queued
    BY <1>1
<1>4. /\ Holders' /\ Mild /\ InMap' = InMap /\ InWorld' = InWorld
      /\ \A x \in Live : session'[x].account = session[x].account
    BY <1>0, <1>1, <1>2, <1>3, ObjectStep
<1>5. LoopConsistent'
    BY <1>0, <1>1, <1>2, <1>4 DEF LoopConsistent
<1>6. Others'
    BY <1>0, <1>2, <1>5 DEF Others
<1>7. IInv'
    BY <1>4, <1>6, InvariantParts, PTL
<1> QED
    BY <1>4, <1>7

(* The session of the next account is taken up. *)
LEMMA StartUpdateStep ==
    ASSUME IInv, NEW a \in Account, StartUpdate(a)
    PROVE  IInv' /\ Mild
<1>0. Holders /\ Others /\ LoopConsistent
    BY InvariantParts DEF Others
<1> DEFINE x == m_sessions[a]
<1>1. a \in toUpdate /\ a \in InMap
    BY <1>0 DEF StartUpdate, LoopConsistent
<1>2. x \in InWorld /\ x \in Live /\ session[x] \in SessionState /\ session[x].account = a
      /\ x \in SessionId
    BY <1>0, <1>1, Lists
<1>3. PICK idle \in BOOLEAN :
          session' = [session EXCEPT ![x].open = @ /\ ~(idle /\ ~session[x].inQueue)]
    BY DEF StartUpdate
<1> DEFINE r == [session[x] EXCEPT !.open = session[x].open /\ ~(idle /\ ~session[x].inQueue)]
<1>4. session' = [session EXCEPT ![x] = r]
    BY <1>3
<1>5. /\ UNCHANGED <<addSessQueue, queueVars>>
      /\ UNCHANGED <<m_playerLimit, m_disconnects, now, stopping, logins>>
      /\ toUpdate' = toUpdate \ {a} /\ current' = x /\ world' = "packets"
    BY DEF StartUpdate, dataVars, clockVars
<1> HIDE DEF x
<1>6. r \in SessionState
    BY <1>2 DEF SessionState
<1>7. /\ r.account = session[x].account /\ r.inQueue = session[x].inQueue
      /\ r.open => session[x].open
      /\ r.player = session[x].player /\ r.loading = session[x].loading
      /\ r.result = session[x].result
    BY <1>2 DEF SessionState
<1> HIDE DEF r
<1>8. /\ Holders' /\ Mild /\ InMap' = InMap /\ InWorld' = InWorld
      /\ \A y \in Live : session'[y].account = session[y].account
    BY <1>0, <1>2, <1>4, <1>5, <1>6, <1>7, ObjectStep DEF HasCharacter
<1>9. LoopConsistent'
    BY <1>0, <1>2, <1>5, <1>8 DEF LoopConsistent
<1>10. Others'
    BY <1>0, <1>2, <1>5, <1>9 DEF Others
<1>11. IInv'
    BY <1>8, <1>10, InvariantParts, PTL
<1> QED
    BY <1>8, <1>11

(* A client logs in with a character. *)
LEMMA PlayerLoginStep ==
    ASSUME IInv, PlayerLogin
    PROVE  IInv' /\ Mild
<1> DEFINE c == session[current]
           kicked == [c EXCEPT !.loading = TRUE, !.open = FALSE]
           short  == [c EXCEPT !.loading = TRUE]
           asked  == [c EXCEPT !.loading = TRUE, !.result = TRUE]
<1>0. world = "packets"
    BY DEF PlayerLogin, Handling
<1>1. c \in SessionState /\ current \in SessionId
    BY <1>0, CurrentInWorld, InvariantParts, Lists
<1>2. ~c.inQueue /\ UNCHANGED <<dataVars, loopVars>>
    BY DEF PlayerLogin, Handling
<1>3. PICK r \in {kicked, short, asked} : session' = [session EXCEPT ![current] = r]
    BY DEF PlayerLogin
<1>4. r \in SessionState
    BY <1>1, <1>3 DEF SessionState
<1>5. r.account = c.account /\ r.inQueue = c.inQueue /\ (r.open => c.open)
    BY <1>1, <1>3 DEF SessionState
<1> HIDE DEF kicked, short, asked
<1>6. UNCHANGED <<dataVars, toUpdate, stopping>> /\ world' = "packets" /\ current' = current
    BY <1>0, <1>2 DEF loopVars
<1> QED
    BY <1>0, <1>2, <1>3, <1>4, <1>5, <1>6, CurrentStep

(* A client logs out. *)
LEMMA PlayerLogoutStep ==
    ASSUME IInv, PlayerLogout
    PROVE  IInv' /\ Mild
<1> DEFINE c == session[current]
           r == [c EXCEPT !.player = FALSE]
<1>0. world = "packets"
    BY DEF PlayerLogout, Handling
<1>1. c \in SessionState /\ current \in SessionId
    BY <1>0, CurrentInWorld, InvariantParts, Lists
<1>2. session' = [session EXCEPT ![current] = r]
    BY DEF PlayerLogout
<1>3. r \in SessionState
    BY <1>1 DEF SessionState
<1>4. /\ r.account = c.account /\ r.inQueue = c.inQueue /\ (r.open => c.open)
      /\ (r.player \/ r.loading \/ r.result => c.player \/ c.loading \/ c.result)
    BY <1>1 DEF SessionState
<1> HIDE DEF r
<1>5. UNCHANGED <<dataVars, toUpdate, stopping>> /\ world' = "packets" /\ current' = current
    BY <1>0 DEF PlayerLogout, Handling, loopVars
<1> QED
    BY <1>0, <1>2, <1>3, <1>4, <1>5, CurrentStep DEF HasCharacter

(* The answer of the database threads is used. *)
LEMMA LoginCallbackStep ==
    ASSUME IInv, LoginCallback
    PROVE  IInv' /\ Mild
<1> DEFINE c == session[current]
<1>0. world = "callbacks" /\ c.result
    BY DEF LoginCallback
<1>1. c \in SessionState /\ current \in SessionId /\ session \in [SessionId -> SessionState \union {Free}]
    BY <1>0, CurrentInWorld, InvariantParts, Lists DEF Holders
<1>2. PICK loaded \in BOOLEAN :
          session' = [session EXCEPT
                        ![current].result  = FALSE,
                        ![current].loading = FALSE,
                        ![current].player  = loaded,
                        ![current].open    = @ /\ loaded]
    BY DEF LoginCallback
<1> DEFINE r == [c EXCEPT !.result = FALSE, !.loading = FALSE, !.player = loaded,
                          !.open = c.open /\ loaded]
<1>3. session' = [session EXCEPT ![current] = r]
    BY <1>1, <1>2
<1>4. r \in SessionState
    BY <1>1 DEF SessionState
<1>5. r.account = c.account /\ r.inQueue = c.inQueue /\ (r.open => c.open)
    BY <1>1 DEF SessionState
<1> HIDE DEF r
<1>6. UNCHANGED <<dataVars, toUpdate, stopping>> /\ world' = "finish" /\ current' = current
    BY DEF LoginCallback
<1>7. HasCharacter(current)
    BY <1>0 DEF HasCharacter
<1> QED
    BY <1>0, <1>3, <1>4, <1>5, <1>6, <1>7, CurrentStep

(* The session stays. *)
LEMMA KeepSessionStep ==
    ASSUME IInv, KeepSession
    PROVE  IInv' /\ Mild
<1> DEFINE c == session[current]
<1>0. world = "finish"
    BY DEF KeepSession, Stays
<1>1. c \in SessionState /\ current \in SessionId
    BY <1>0, CurrentInWorld, InvariantParts, Lists
<1>2. PICK due \in BOOLEAN :
          session' = [session EXCEPT ![current].player =
                        @ /\ ~(due /\ ~session[current].loading)]
    BY DEF KeepSession
<1> DEFINE r == [c EXCEPT !.player = c.player /\ ~(due /\ ~c.loading)]
<1>3. session' = [session EXCEPT ![current] = r]
    BY <1>2
<1>4. r \in SessionState
    BY <1>1 DEF SessionState
<1>5. /\ r.account = c.account /\ r.inQueue = c.inQueue /\ (r.open => c.open)
      /\ (r.player \/ r.loading \/ r.result => c.player \/ c.loading \/ c.result)
    BY <1>1 DEF SessionState
<1> HIDE DEF r
<1>6. UNCHANGED <<dataVars, toUpdate, stopping>> /\ world' = "loop" /\ current' = NoSession
    BY DEF KeepSession
<1> QED
    BY <1>0, <1>3, <1>4, <1>5, <1>6, CurrentStep DEF HasCharacter

-----------------------------------------------------------------------------
(* Deleting sessions. *)

(* The objects when the flags of C are cleared and d, if any, is deleted. *)
LEMMA ClearAndDelete ==
    ASSUME Holders, NEW C, NEW d, NEW o, o = Delete(ClearFlags(C), d)
    PROVE  /\ o \in [SessionId -> SessionState \union {Free}]
           /\ \A x \in SessionId : (o[x] = Free) <=> (x = d \/ session[x] = Free)
           /\ \A x \in Live : x # d =>
                 /\ o[x] \in SessionState
                 /\ o[x].account = session[x].account /\ o[x].open = session[x].open
                 /\ o[x].loading = session[x].loading /\ o[x].result = session[x].result
                 /\ o[x].player = session[x].player
                 /\ o[x].inQueue = (session[x].inQueue /\ x \notin C)
<1> DEFINE f(x) == [session[x] EXCEPT !.inQueue = FALSE]
<1>1. o = [x \in SessionId |-> IF x = d THEN Free
                               ELSE IF x \in C /\ session[x] # Free THEN f(x) ELSE session[x]]
    BY DEF Delete, ClearFlags
<1>2. ASSUME NEW x \in Live
      PROVE  /\ x \in SessionId /\ session[x] \in SessionState /\ session[x] # Free
             /\ f(x) \in SessionState
             /\ f(x).account = session[x].account /\ f(x).open = session[x].open
             /\ f(x).loading = session[x].loading /\ f(x).result = session[x].result
             /\ f(x).player = session[x].player /\ f(x).inQueue = FALSE
             /\ session[x].inQueue \in BOOLEAN
    <2>1. x \in SessionId /\ session[x] \in SessionState /\ session[x] # Free
        BY Lists DEF Live
    <2>2. f(x) \in SessionState
        BY <2>1 DEF SessionState
    <2> QED
        BY <2>1, <2>2 DEF SessionState
<1> HIDE DEF f
<1>3. Free \notin SessionState /\ session \in [SessionId -> SessionState \union {Free}]
    BY Lists DEF Holders
<1>4. \A x \in SessionId : session[x] # Free => x \in Live
    BY DEF Live
<1>5. ASSUME NEW x \in SessionId
      PROVE  /\ o[x] \in SessionState \union {Free}
             /\ (o[x] = Free) <=> (x = d \/ session[x] = Free)
    <2>1. CASE x = d \/ session[x] = Free
        <3>1. o[x] = Free
            BY <1>1, <2>1
        <3> QED
            BY <3>1, <2>1
    <2>2. CASE x # d /\ session[x] # Free
        <3>1. o[x] = f(x) \/ o[x] = session[x]
            BY <1>1, <2>2
        <3>2. o[x] \in SessionState
            BY <3>1, <2>2, <1>2, <1>4
        <3> QED
            BY <3>2, <2>2, <1>3
    <2> QED
        BY <2>1, <2>2
<1>6. o \in [SessionId -> SessionState \union {Free}]
    BY <1>1, <1>5
<1>7. ASSUME NEW x \in Live, x # d
      PROVE  /\ o[x] \in SessionState
             /\ o[x].account = session[x].account /\ o[x].open = session[x].open
             /\ o[x].loading = session[x].loading /\ o[x].result = session[x].result
             /\ o[x].player = session[x].player
             /\ o[x].inQueue = (session[x].inQueue /\ x \notin C)
    <2>1. CASE x \in C
        <3>1. o[x] = f(x)
            BY <1>1, <1>2, <1>7, <2>1
        <3> QED
            BY <3>1, <2>1, <1>2
    <2>2. CASE x \notin C
        <3>1. o[x] = session[x]
            BY <1>1, <1>2, <1>7, <2>2
        <3> QED
            BY <3>1, <2>2, <1>2
    <2> QED
        BY <2>1, <2>2
<1> QED
    BY <1>5, <1>6, <1>7

(* The new session is rejected and deleted. *)
LEMMA RejectStep ==
    ASSUME IInv, RejectSession
    PROVE  IInv' /\ Mild
<1> DEFINE s == Head(addSessQueue)
<1>0. Holders /\ Others /\ LoopConsistent
    BY InvariantParts DEF Others
<1>1. /\ addSessQueue # <<>> /\ addSessQueue' = Tail(addSessQueue)
      /\ session' = Delete(session, s)
      /\ m_sessions' = m_sessions /\ m_QueuedPlayer' = m_QueuedPlayer
      /\ UNCHANGED <<m_playerLimit, m_disconnects, now, world, toUpdate, current, stopping,
                     logins>>
    BY DEF RejectSession, queueVars, clockVars, loopVars
<1>2. /\ s \in Added
      /\ Line(addSessQueue') /\ Elems(addSessQueue') = Added \ {s}
    BY <1>0, <1>1, Lists, LineTail
<1> HIDE DEF s
<1>3. Added' = Added \ {s}
    BY <1>2 DEF Added, Elems
<1>4. /\ session' \in [SessionId -> SessionState \union {Free}]
      /\ session'[s] = Free
      /\ \A x \in SessionId : x # s => session'[x] = session[x]
    BY <1>0, <1>1, <1>2, Lists DEF Delete, Holders
<1>5. Live' = Live \ {s}
    BY <1>4 DEF Live
<1>6. InMap' = InMap /\ InWorld' = InWorld /\ Queued' = Queued
    BY <1>1 DEF InMap, InWorld, Queued
<1>7. s \notin InWorld
    BY <1>0, <1>2, Lists
<1>8. \A x \in Live' : session'[x] = session[x] /\ HasCharacter(x)' = HasCharacter(x)
    BY <1>0, <1>4, <1>5, Lists DEF HasCharacter
<1>9. OneHolderEach'
    <2>1. Injective(addSessQueue')
        BY <1>2 DEF Line
    <2>2. Added' \intersect InWorld' = {} /\ Added' \union InWorld' = Live'
        BY <1>0, <1>3, <1>5, <1>6, <1>7, Lists
    <2>3. \A b \in InMap' : session'[m_sessions'[b]].account = b
        BY <1>0, <1>1, <1>5, <1>6, <1>7, <1>8, Lists
    <2> QED
        BY <2>1, <2>2, <2>3 DEF OneHolderEach, Injective
<1>10. QueueConsistent'
    <2>1. InWorld \subseteq Live' /\ Queued \subseteq InWorld
        BY <1>0, <1>5, <1>7, Lists
    <2>2. \A x \in InWorld : session'[x] = session[x]
        BY <2>1, <1>8
    <2> QED
        BY <2>1, <2>2, <1>0, <1>1, <1>6 DEF QueueConsistent, Injective, Holders
<1>11. NewAreFresh' /\ QueuedAreIdle'
    BY <1>0, <1>3, <1>5, <1>6, <1>7, <1>8, Lists DEF NewAreFresh, QueuedAreIdle, Holders
<1>12. Holders'
    BY <1>0, <1>1, <1>2, <1>4, <1>9, <1>10, <1>11 DEF Holders, Line
<1>13. world \in {"packets", "callbacks", "finish"} => current \in Live'
    BY <1>0, <1>5, <1>7, Lists DEF LoopConsistent
<1>14. LoopConsistent'
    BY <1>0, <1>1, <1>6, <1>8, <1>13 DEF LoopConsistent
<1>15. Others'
    BY <1>0, <1>1, <1>14 DEF Others
<1>16. Mild
    BY <1>0, <1>1, <1>4, <1>7, Lists DEF Mild, queueVars
<1>17. IInv'
    BY <1>12, <1>15, InvariantParts, PTL
<1> QED
    BY <1>16, <1>17

(* The old session of the account, if there is one, is taken out of the queue. *)
LEMMA LeaveQueueSplits ==
    ASSUME Holders, NEW old, old = NoSession \/ old \in InWorld, NEW r, r = LeaveQueue(old)
    PROVE  /\ Line(r.queue)
           /\ r.found = (old \in Queued)
           /\ Elems(r.queue) \intersect r.cleared = {}
           /\ Elems(r.queue) \union r.cleared = Queued
           /\ old \notin Elems(r.queue)
<1>1. CASE old = NoSession
    <2>1. old \notin Queued
        BY <1>1, Lists
    <2>2. r = [found |-> FALSE, queue |-> m_QueuedPlayer, cleared |-> {}]
        BY <1>1 DEF LeaveQueue
    <2>3. r.found = FALSE /\ r.queue = m_QueuedPlayer /\ r.cleared = {}
        BY <2>2
    <2>4. r.found = (old \in Queued)
        <3>1. (old \in Queued) = FALSE
            BY <2>1
        <3> QED
            BY <3>1, <2>3
    <2> QED
        BY <2>1, <2>3, <2>4, Lists
<1>2. CASE old # NoSession
    <2>1. r = RemoveQueuedPlayer(m_QueuedPlayer, Cardinality(InMap), old)
        BY <1>2 DEF LeaveQueue
    <2> QED
        BY <2>1, Lists, RemoveSplits DEF Splits
<1> QED
    BY <1>1, <1>2

(* AddSession takes in the session s of account a, in place of old; r is what  *)
(* becomes of the queue, and queued whether s has to wait.                     *)
TakesIn(s, a, old, r, queued) ==
    /\ s = Head(addSessQueue)
    /\ a = session[s].account
    /\ old = m_sessions[a]
    /\ r = LeaveQueue(old)
    /\ queued = (/\ ~HasRoom(IF r.found THEN Cardinality(InMap \union {a})
                                        ELSE Cardinality(InMap \union {a}) - 1)
                 /\ a \notin GameMaster
                 /\ ~HasRecentlyDisconnected(a))

(* There are always such sessions. *)
LEMMA TakesInExists == \E s, a, old, r, queued : TakesIn(s, a, old, r, queued)
BY DEF TakesIn

(* What AddSession does, in the words of the sets of sessions. *)
LEMMA AddSessionFacts ==
    ASSUME Holders, AddSession,
           NEW s, NEW a, NEW old, NEW r, NEW queued, TakesIn(s, a, old, r, queued)
    PROVE  /\ s \in Added /\ a \in Account
           /\ s # old /\ (old = NoSession \/ old \in InWorld)
           /\ queued \in BOOLEAN
           /\ Line(addSessQueue') /\ Added' = Added \ {s}
           /\ session' \in [SessionId -> SessionState \union {Free}]
           /\ Live' = Live \ {old}
           /\ \A x \in Live' :
                 /\ session'[x].account = session[x].account
                 /\ session'[x].open = session[x].open
                 /\ HasCharacter(x)' = HasCharacter(x)
           /\ \A x \in Live' \ {s} :
                 session'[x].inQueue = (session[x].inQueue /\ x \notin r.cleared)
           /\ session'[s].inQueue = queued
           /\ m_sessions' = [m_sessions EXCEPT ![a] = s]
           /\ m_QueuedPlayer' = IF queued THEN Append(r.queue, s) ELSE r.queue
           /\ m_disconnects' \in {m_disconnects, DropStale}
<1> DEFINE objects == Delete(ClearFlags(r.cleared), old)
<1>1. /\ addSessQueue # <<>> /\ addSessQueue' = Tail(addSessQueue)
      /\ session' = [objects EXCEPT ![s].inQueue = queued]
      /\ m_sessions' = [m_sessions EXCEPT ![a] = s]
      /\ m_QueuedPlayer' = IF queued THEN Append(r.queue, s) ELSE r.queue
      /\ m_disconnects' \in {m_disconnects, DropStale}
    BY DEF AddSession, TakesIn
<1>2. a = session[s].account /\ old = m_sessions[a]
    BY DEF TakesIn
<1>3. queued \in BOOLEAN
    BY DEF TakesIn
<1>4. /\ s \in Added
      /\ Line(addSessQueue') /\ Elems(addSessQueue') = Added \ {s}
    BY <1>1, Lists, LineTail DEF TakesIn
<1>5. s \in Live /\ s \notin InWorld /\ s \in SessionId
    BY <1>4, Lists
<1>6. a \in Account
    BY <1>2, <1>5, Lists DEF SessionState
<1>7. old = NoSession \/ old \in InWorld
    BY <1>2, <1>6, Lists DEF InMap
<1>8. s # old
    BY <1>5, <1>7, Lists
<1>9. Added' = Added \ {s}
    BY <1>4 DEF Added, Elems
<1>10. /\ objects \in [SessionId -> SessionState \union {Free}]
       /\ \A x \in SessionId : (objects[x] = Free) <=> (x = old \/ session[x] = Free)
       /\ \A x \in Live : x # old =>
                 /\ objects[x] \in SessionState
                 /\ objects[x].account = session[x].account /\ objects[x].open = session[x].open
                 /\ objects[x].loading = session[x].loading
                 /\ objects[x].result = session[x].result
                 /\ objects[x].player = session[x].player
                 /\ objects[x].inQueue = (session[x].inQueue /\ x \notin r.cleared)
    <2> DEFINE C == r.cleared
    <2>1. objects = Delete(ClearFlags(C), old)
        OBVIOUS
    <2> HIDE DEF objects
    <2> HIDE DEF C
    <2>3. /\ objects \in [SessionId -> SessionState \union {Free}]
       /\ \A x \in SessionId : (objects[x] = Free) <=> (x = old \/ session[x] = Free)
        BY <2>1, ClearAndDelete
    <2>4. \A x \in Live : x # old =>
                 /\ objects[x] \in SessionState
                 /\ objects[x].account = session[x].account /\ objects[x].open = session[x].open
                 /\ objects[x].loading = session[x].loading
                 /\ objects[x].result = session[x].result
                 /\ objects[x].player = session[x].player
                 /\ objects[x].inQueue = (session[x].inQueue /\ x \notin C)
        BY <2>1, ClearAndDelete
    <2> QED
        BY <2>3, <2>4 DEF C
<1> HIDE DEF objects
<1> DEFINE new == [objects[s] EXCEPT !.inQueue = queued]
<1>11. session' = [objects EXCEPT ![s] = new]
    BY <1>1
<1>12. objects[s] \in SessionState
    BY <1>5, <1>8, <1>10
<1>13. /\ new \in SessionState
       /\ new.account = objects[s].account /\ new.open = objects[s].open
       /\ new.loading = objects[s].loading /\ new.result = objects[s].result
       /\ new.player = objects[s].player /\ new.inQueue = queued
    BY <1>3, <1>12 DEF SessionState
<1> HIDE DEF new
<1>14. /\ session' \in [SessionId -> SessionState \union {Free}]
       /\ session'[s] = new
       /\ \A x \in SessionId : x # s => session'[x] = objects[x]
    BY <1>5, <1>10, <1>11, <1>13
<1>15. Live' = Live \ {old}
    <2>1. new # Free
        BY <1>13, Lists
    <2>2. \A x \in SessionId : x \in Live' <=> session'[x] # Free
        BY DEF Live
    <2>3. \A x \in SessionId : x \in Live <=> session[x] # Free
        BY DEF Live
    <2>4. Live' \subseteq SessionId /\ Live \subseteq SessionId
        BY DEF Live
    <2> QED
        BY <2>1, <2>2, <2>3, <2>4, <1>5, <1>8, <1>10, <1>14
<1>16. \A x \in Live' :
          /\ session'[x].account = session[x].account
          /\ session'[x].open = session[x].open
          /\ session'[x].loading = session[x].loading
          /\ session'[x].result = session[x].result
          /\ session'[x].player = session[x].player
    BY <1>5, <1>8, <1>10, <1>13, <1>14, <1>15, Lists
<1>17. \A x \in Live' : HasCharacter(x)' = HasCharacter(x)
    BY <1>16 DEF HasCharacter
<1>18. \A x \in Live' \ {s} :
          session'[x].inQueue = (session[x].inQueue /\ x \notin r.cleared)
    BY <1>10, <1>14, <1>15, Lists
<1>19. session'[s].inQueue = queued
    BY <1>13, <1>14
<1> QED
    BY <1>1, <1>3, <1>4, <1>6, <1>7, <1>8, <1>9, <1>14, <1>15, <1>16, <1>17, <1>18, <1>19

(* The map and the queue after AddSession. *)
LEMMA AddSessionLists ==
    ASSUME Holders, AddSession,
           NEW s, NEW a, NEW old, NEW r, NEW queued, TakesIn(s, a, old, r, queued)
    PROVE  /\ s \in SessionId /\ s \notin InWorld
           /\ (old # NoSession <=> a \in InMap)
           /\ InMap' = InMap \union {a}
           /\ InWorld' = (InWorld \ {old}) \union {s}
           /\ Line(r.queue)
           /\ r.found = (old \in Queued)
           /\ Elems(r.queue) \intersect r.cleared = {}
           /\ Elems(r.queue) \union r.cleared = Queued
           /\ old \notin Elems(r.queue)
           /\ Line(m_QueuedPlayer')
           /\ Queued' = Elems(r.queue) \union (IF queued THEN {s} ELSE {})
<1>1. /\ s \in Added /\ a \in Account
      /\ s # old /\ (old = NoSession \/ old \in InWorld)
      /\ m_sessions' = [m_sessions EXCEPT ![a] = s]
      /\ m_QueuedPlayer' = IF queued THEN Append(r.queue, s) ELSE r.queue
    BY AddSessionFacts
<1>d. a = session[s].account /\ old = m_sessions[a] /\ r = LeaveQueue(old)
    BY DEF TakesIn
<1>2. s \in SessionId /\ s \notin InWorld /\ s # NoSession
    BY <1>1, Lists
<1>3. (old # NoSession <=> a \in InMap)
    BY <1>1, <1>d, Lists DEF InMap
<1>4. /\ m_sessions'[a] = s
      /\ \A b \in Account : b # a => m_sessions'[b] = m_sessions[b]
    BY <1>1 DEF Holders
<1>5. InMap' = InMap \union {a}
    <2>1. \A b \in Account : b \in InMap' <=> b \in InMap \union {a}
        BY <1>1, <1>2, <1>4 DEF InMap
    <2>2. InMap' \subseteq Account /\ InMap \union {a} \subseteq Account
        BY <1>1 DEF InMap
    <2> QED
        BY <2>1, <2>2
<1>6. \A b \in InMap : b # a => m_sessions[b] # old
    <2> SUFFICES ASSUME NEW b \in InMap, b # a, m_sessions[b] = old PROVE FALSE
        OBVIOUS
    <2>1. session[old].account = b
        BY Lists
    <2>2. a \in InMap /\ m_sessions[a] = old
        BY <1>1, <1>d, Lists DEF InMap
    <2> QED
        BY <2>1, <2>2, Lists
<1>7. InWorld' = (InWorld \ {old}) \union {s}
    <2>1. InWorld' = {m_sessions'[b] : b \in InMap \union {a}}
        BY <1>5 DEF InWorld
    <2>2. \A b \in InMap \ {a} : m_sessions'[b] = m_sessions[b] /\ m_sessions[b] # old
        BY <1>4, <1>6 DEF InMap
    <2>3. InWorld = {m_sessions[b] : b \in InMap}
        BY DEF InWorld
    <2>4. \A x \in InWorld : x # old => x \in InWorld'
        BY <1>d, <2>1, <2>2, <2>3
    <2> QED
        BY <1>4, <2>1, <2>2, <2>3, <2>4
<1>8. /\ Line(r.queue)
      /\ r.found = (old \in Queued)
      /\ Elems(r.queue) \intersect r.cleared = {}
      /\ Elems(r.queue) \union r.cleared = Queued
      /\ old \notin Elems(r.queue)
    BY <1>1, <1>d, LeaveQueueSplits
<1>9. s \notin Elems(r.queue)
    BY <1>2, <1>8, Lists
<1>10. Line(m_QueuedPlayer') /\ Elems(m_QueuedPlayer') = Elems(r.queue) \union (IF queued THEN {s} ELSE {})
    <2> DEFINE q == r.queue
    <2>0. /\ Line(q) /\ s \notin Elems(q)
          /\ m_QueuedPlayer' = IF queued THEN Append(q, s) ELSE q
        BY <1>1, <1>8, <1>9
    <2>3. Elems(q) = Elems(r.queue)
        OBVIOUS
    <2> HIDE DEF q
    <2>1. CASE queued
        BY <2>0, <2>1, <2>3, <1>2, LineAppend
    <2>2. CASE ~queued
        BY <2>0, <2>2, <2>3
    <2> QED
        BY <2>1, <2>2
<1>11. Queued' = Elems(m_QueuedPlayer')
    BY DEF Queued, Elems
<1> QED
    BY <1>2, <1>3, <1>5, <1>7, <1>8, <1>10, <1>11

(* The new session is taken in. *)
LEMMA AddSessionStep ==
    ASSUME IInv, AddSession
    PROVE  IInv'
<1>0. Holders /\ Others /\ LoopConsistent
    BY InvariantParts DEF Others
<1>d. PICK s, a, old, r, queued : TakesIn(s, a, old, r, queued)
    BY TakesInExists
<1>e. a = session[s].account
    BY <1>d DEF TakesIn
<1>1. /\ s \in Added /\ a \in Account
      /\ s # old /\ (old = NoSession \/ old \in InWorld)
      /\ queued \in BOOLEAN
      /\ Line(addSessQueue') /\ Added' = Added \ {s}
      /\ session' \in [SessionId -> SessionState \union {Free}]
      /\ Live' = Live \ {old}
      /\ \A x \in Live' :
            /\ session'[x].account = session[x].account
            /\ session'[x].open = session[x].open
            /\ HasCharacter(x)' = HasCharacter(x)
      /\ \A x \in Live' \ {s} :
            session'[x].inQueue = (session[x].inQueue /\ x \notin r.cleared)
      /\ session'[s].inQueue = queued
      /\ m_sessions' = [m_sessions EXCEPT ![a] = s]
      /\ m_disconnects' \in {m_disconnects, DropStale}
    BY <1>0, <1>d, AddSessionFacts
<1>2. /\ s \in SessionId /\ s \notin InWorld
      /\ InMap' = InMap \union {a}
      /\ InWorld' = (InWorld \ {old}) \union {s}
      /\ Elems(r.queue) \intersect r.cleared = {}
      /\ Elems(r.queue) \union r.cleared = Queued
      /\ old \notin Elems(r.queue)
      /\ Line(m_QueuedPlayer')
      /\ Queued' = Elems(r.queue) \union (IF queued THEN {s} ELSE {})
    BY <1>0, <1>d, AddSessionLists
<1>3. /\ UNCHANGED <<m_playerLimit, now, toUpdate, current, stopping, logins>>
      /\ world = "add" /\ world' = "add"
    BY DEF AddSession, loopVars
<1>4. s \in Live'
    BY <1>0, <1>1, Lists
<1>5. OneHolderEach'
    <2>1. Injective(addSessQueue')
        BY <1>1 DEF Line
    <2>2. Added' \intersect InWorld' = {} /\ Added' \union InWorld' = Live'
        BY <1>0, <1>1, <1>2, Lists
    <2>3. ASSUME NEW b \in InMap' PROVE session'[m_sessions'[b]].account = b
        <3>1. CASE b = a
            BY <3>1, <1>0, <1>1, <1>4, <1>e DEF Holders
        <3>2. CASE b # a
            <4>1. b \in InMap /\ m_sessions'[b] = m_sessions[b]
                BY <3>2, <1>0, <1>1, <1>2 DEF Holders, InMap
            <4>2. m_sessions[b] \in InWorld'
                BY <4>1, <2>3 DEF InWorld
            <4>3. m_sessions[b] \in Live'
                BY <4>2, <2>2
            <4> QED
                BY <4>1, <4>3, <1>0, <1>1, Lists
        <3> QED
            BY <3>1, <3>2
    <2> QED
        BY <2>1, <2>2, <2>3 DEF OneHolderEach, Injective
<1>6. QueueConsistent'
    <2>1. Queued' \subseteq InWorld'
        BY <1>0, <1>2, Lists
    <2>2. \A x \in Queued' : session'[x].inQueue
        <3> SUFFICES ASSUME NEW x \in Queued' PROVE session'[x].inQueue
            OBVIOUS
        <3>1. CASE x = s
            <4>1. s \notin Elems(r.queue)
                BY <1>0, <1>2, Lists
            <4> QED
                BY <4>1, <3>1, <1>1, <1>2
        <3>2. CASE x # s
            <4>1. x \in Queued /\ x \notin r.cleared /\ x # old
                BY <3>2, <1>2
            <4>2. x \in Live' /\ session[x].inQueue
                BY <4>1, <1>0, <1>1, Lists DEF Holders, QueueConsistent
            <4> QED
                BY <4>1, <4>2, <3>2, <1>1
        <3> QED
            BY <3>1, <3>2
    <2>3. ASSUME NEW x \in InWorld', session'[x].open /\ session'[x].inQueue
          PROVE  x \in Queued'
        <3>1. CASE x = s
            BY <3>1, <2>3, <1>1, <1>2
        <3>2. CASE x # s
            <4>1. x \in InWorld /\ x \in Live'
                BY <3>2, <1>0, <1>1, <1>2, Lists
            <4>2. session[x].open /\ session[x].inQueue /\ x \notin r.cleared
                BY <4>1, <3>2, <2>3, <1>1
            <4>3. x \in Queued
                BY <4>1, <4>2, <1>0 DEF Holders, QueueConsistent
            <4> QED
                BY <4>2, <4>3, <1>2
        <3> QED
            BY <3>1, <3>2
    <2>4. Injective(m_QueuedPlayer')
        BY <1>2 DEF Line
    <2> QED
        BY <2>1, <2>2, <2>3, <2>4 DEF QueueConsistent, Injective
<1>7. NewAreFresh'
    BY <1>0, <1>1, <1>5, Lists DEF NewAreFresh, Holders, OneHolderEach
<1>8. QueuedAreIdle'
    <2> SUFFICES ASSUME NEW x \in Queued' PROVE ~HasCharacter(x)'
        BY DEF QueuedAreIdle
    <2>1. x = s \/ x \in Queued
        BY <1>2
    <2>2. x \in Live'
        BY <2>1, <1>0, <1>1, <1>2, <1>4, Lists
    <2>3. ~HasCharacter(x)
        BY <2>1, <1>0, <1>1 DEF Holders, NewAreFresh, QueuedAreIdle
    <2> QED
        BY <2>2, <2>3, <1>1
<1>9. m_sessions' \in [Account -> SessionId \union {NoSession}]
    BY <1>0, <1>1, <1>2 DEF Holders
<1>10. Holders'
    BY <1>1, <1>2, <1>5, <1>6, <1>7, <1>8, <1>9 DEF Holders, Line
<1>11. LoopConsistent'
    BY <1>0, <1>2, <1>3 DEF LoopConsistent
<1>12. m_disconnects' \in [Account -> (0..MaxTime) \union {Never}]
    BY <1>0, <1>1 DEF Others, DropStale
<1>13. Others'
    BY <1>0, <1>3, <1>11, <1>12 DEF Others
<1> QED
    BY <1>10, <1>13, InvariantParts, PTL

-----------------------------------------------------------------------------
(* A session whose socket is closed goes. *)

(* RemoveSession deletes the session of account a; first and second are what   *)
(* becomes of the queue.                                                       *)
TakesOut(a, first, second) ==
    /\ a = session[current].account
    /\ first = RemoveQueuedPlayer(m_QueuedPlayer, Cardinality(InMap), current)
    /\ second = RemoveQueuedPlayer(first.queue, Cardinality(InMap), current)

(* There is always such an account. *)
LEMMA TakesOutExists == \E a, first, second : TakesOut(a, first, second)
BY DEF TakesOut

(* What RemoveSession does, in the words of the sets of sessions. *)
LEMMA RemoveSessionFacts ==
    ASSUME IInv, RemoveSession, NEW a, NEW first, NEW second, TakesOut(a, first, second)
    PROVE  /\ a \in InMap /\ m_sessions[a] = current /\ a \notin toUpdate
           /\ current \in InWorld /\ current \in SessionId
           /\ Line(first.queue)
           /\ first.found = (current \in Queued)
           /\ Elems(first.queue) \intersect first.cleared = {}
           /\ Elems(first.queue) \union first.cleared = Queued
           /\ current \notin Elems(first.queue)
           /\ Line(second.queue)
           /\ ~second.found
           /\ Elems(second.queue) \intersect second.cleared = {}
           /\ Elems(second.queue) \union second.cleared = Elems(first.queue)
           /\ session' \in [SessionId -> SessionState \union {Free}]
           /\ Live' = Live \ {current}
           /\ \A x \in Live' :
                 /\ session'[x].account = session[x].account
                 /\ session'[x].open = session[x].open
                 /\ HasCharacter(x)' = HasCharacter(x)
                 /\ session'[x].inQueue =
                       (session[x].inQueue /\ x \notin first.cleared \union second.cleared)
           /\ m_sessions' = [m_sessions EXCEPT ![a] = NoSession]
           /\ InMap' = InMap \ {a}
           /\ InWorld' = InWorld \ {current}
           /\ m_QueuedPlayer' = second.queue
           /\ Queued' = Elems(second.queue)
           /\ UNCHANGED <<addSessQueue, Added>>
<1>0. Holders /\ Others
    BY InvariantParts
<1>1. /\ a = session[current].account
      /\ first = RemoveQueuedPlayer(m_QueuedPlayer, Cardinality(InMap), current)
      /\ second = RemoveQueuedPlayer(first.queue, Cardinality(InMap), current)
    BY DEF TakesOut
<1>2. /\ session' = Delete(ClearFlags(first.cleared \union second.cleared), current)
      /\ m_sessions' = [m_sessions EXCEPT ![a] = NoSession]
      /\ m_QueuedPlayer' = second.queue
      /\ addSessQueue' = addSessQueue
      /\ world = "finish"
    BY DEF RemoveSession, TakesOut
<1>3. /\ current \in InWorld /\ current \in Live /\ a \notin toUpdate
      /\ current \in SessionId /\ a \in InMap /\ m_sessions[a] = current
    BY <1>0, <1>1, <1>2, CurrentInWorld, Lists
<1>4. /\ Line(first.queue)
      /\ first.found = (current \in Queued)
      /\ Elems(first.queue) \intersect first.cleared = {}
      /\ Elems(first.queue) \union first.cleared = Queued
      /\ current \notin Elems(first.queue)
    BY <1>0, <1>1, Lists, RemoveSplits DEF Splits
<1> DEFINE q == first.queue
<1>5. Line(q) /\ current \notin Elems(q)
      /\ second = RemoveQueuedPlayer(q, Cardinality(InMap), current)
    BY <1>1, <1>4
<1> HIDE DEF q
<1>6. /\ Line(second.queue)
      /\ second.found = (current \in Elems(q))
      /\ Elems(second.queue) \intersect second.cleared = {}
      /\ Elems(second.queue) \union second.cleared = Elems(q)
    <2>1. Splits(q, current, second)
        BY <1>5, RemoveSplits
    <2> QED
        BY <2>1 DEF Splits
<1>7. ~second.found
    BY <1>5, <1>6
<1> DEFINE C == first.cleared \union second.cleared
<1>8. session' = Delete(ClearFlags(C), current)
    BY <1>2
<1> HIDE DEF C
<1>9. /\ session' \in [SessionId -> SessionState \union {Free}]
      /\ \A x \in SessionId : (session'[x] = Free) <=> (x = current \/ session[x] = Free)
    BY <1>0, <1>8, ClearAndDelete
<1>10. \A x \in Live : x # current =>
                 /\ session'[x] \in SessionState
                 /\ session'[x].account = session[x].account
                 /\ session'[x].open = session[x].open
                 /\ session'[x].loading = session[x].loading
                 /\ session'[x].result = session[x].result
                 /\ session'[x].player = session[x].player
                 /\ session'[x].inQueue = (session[x].inQueue /\ x \notin C)
    BY <1>0, <1>8, ClearAndDelete
<1>11. Live' = Live \ {current}
    <2>1. \A x \in SessionId : x \in Live' <=> session'[x] # Free
        BY DEF Live
    <2>2. \A x \in SessionId : x \in Live <=> session[x] # Free
        BY DEF Live
    <2>3. Live' \subseteq SessionId /\ Live \subseteq SessionId
        BY DEF Live
    <2> QED
        BY <2>1, <2>2, <2>3, <1>9
<1>12. \A x \in Live' :
          /\ session'[x].account = session[x].account
          /\ session'[x].open = session[x].open
          /\ HasCharacter(x)' = HasCharacter(x)
          /\ session'[x].inQueue = (session[x].inQueue /\ x \notin C)
    BY <1>10, <1>11 DEF HasCharacter
<1>13. a \in Account
    BY <1>3 DEF InMap
<1>14. /\ m_sessions'[a] = NoSession
       /\ \A b \in Account : b # a => m_sessions'[b] = m_sessions[b]
    BY <1>0, <1>2, <1>13 DEF Holders
<1>15. InMap' = InMap \ {a}
    BY <1>13, <1>14 DEF InMap
<1>16. \A b \in InMap : b # a => m_sessions[b] # current
    BY <1>0, <1>1, Lists
<1>17. InWorld' = InWorld \ {current}
    <2>1. InWorld' = {m_sessions'[b] : b \in InMap \ {a}}
        BY <1>15 DEF InWorld
    <2>2. \A b \in InMap \ {a} : m_sessions'[b] = m_sessions[b] /\ m_sessions[b] # current
        BY <1>14, <1>16 DEF InMap
    <2>3. InWorld = {m_sessions[b] : b \in InMap}
        BY DEF InWorld
    <2>4. \A x \in InWorld : x # current => x \in InWorld'
        BY <1>3, <2>1, <2>2, <2>3
    <2> QED
        BY <2>1, <2>2, <2>3, <2>4
<1>18. Queued' = Elems(second.queue)
    BY <1>2 DEF Queued, Elems
<1>19. UNCHANGED <<addSessQueue, Added>>
    BY <1>2 DEF Added
<1> QED
    BY <1>2, <1>3, <1>4, <1>6, <1>7, <1>9, <1>11, <1>12, <1>15, <1>17, <1>18, <1>19 DEF q, C

(* It keeps the invariant. *)
LEMMA RemoveSessionStep ==
    ASSUME IInv, RemoveSession
    PROVE  IInv'
<1>0. Holders /\ Others /\ LoopConsistent
    BY InvariantParts DEF Others
<1>d. PICK a, first, second : TakesOut(a, first, second)
    BY TakesOutExists
<1> DEFINE C == first.cleared \union second.cleared
<1>1. /\ a \in InMap /\ m_sessions[a] = current /\ a \notin toUpdate
      /\ current \in InWorld /\ current \in SessionId
      /\ Elems(first.queue) \intersect first.cleared = {}
      /\ Elems(first.queue) \union first.cleared = Queued
      /\ current \notin Elems(first.queue)
      /\ Line(second.queue)
      /\ Elems(second.queue) \intersect second.cleared = {}
      /\ Elems(second.queue) \union second.cleared = Elems(first.queue)
      /\ session' \in [SessionId -> SessionState \union {Free}]
      /\ Live' = Live \ {current}
      /\ \A x \in Live' :
            /\ session'[x].account = session[x].account
            /\ session'[x].open = session[x].open
            /\ HasCharacter(x)' = HasCharacter(x)
            /\ session'[x].inQueue = (session[x].inQueue /\ x \notin C)
      /\ m_sessions' = [m_sessions EXCEPT ![a] = NoSession]
      /\ InMap' = InMap \ {a}
      /\ InWorld' = InWorld \ {current}
      /\ m_QueuedPlayer' = second.queue
      /\ Queued' = Elems(second.queue)
      /\ addSessQueue' = addSessQueue /\ Added' = Added
    BY <1>d, RemoveSessionFacts
<1>2. Queued' \intersect C = {} /\ Queued' \union C = Queued /\ current \notin Queued'
    BY <1>1
<1>3. /\ UNCHANGED <<m_playerLimit, now, toUpdate, stopping, logins>>
      /\ world' = "loop" /\ current' = NoSession
      /\ m_disconnects' \in {m_disconnects, [m_disconnects EXCEPT ![a] = now]}
    BY <1>d DEF RemoveSession, TakesOut
<1> HIDE DEF C
<1>4. Line(m_QueuedPlayer')
    BY <1>1
<1>5. OneHolderEach'
    <2>1. Injective(addSessQueue')
        BY <1>0, <1>1 DEF Holders, OneHolderEach
    <2>2. Added' \intersect InWorld' = {} /\ Added' \union InWorld' = Live'
        BY <1>0, <1>1, Lists
    <2>3. ASSUME NEW b \in InMap' PROVE session'[m_sessions'[b]].account = b
        <3>1. b \in InMap /\ m_sessions'[b] = m_sessions[b]
            BY <1>0, <1>1 DEF Holders, InMap
        <3>2. m_sessions'[b] \in InWorld'
            BY <2>3 DEF InWorld
        <3>3. m_sessions[b] \in Live'
            BY <3>1, <3>2, <2>2
        <3> QED
            BY <3>1, <3>3, <1>0, <1>1, Lists
    <2> QED
        BY <2>1, <2>2, <2>3 DEF OneHolderEach, Injective
<1>6. InWorld' \subseteq Live' /\ Queued' \subseteq InWorld' /\ Queued' \subseteq Queued
    BY <1>0, <1>1, <1>2, Lists
<1>7. QueueConsistent'
    <2>1. \A x \in Queued' : session'[x].inQueue
        BY <1>0, <1>1, <1>2, <1>6 DEF Holders, QueueConsistent
    <2>2. \A x \in InWorld' : session'[x].open /\ session'[x].inQueue => x \in Queued'
        BY <1>0, <1>1, <1>2, <1>6 DEF Holders, QueueConsistent
    <2>3. Injective(m_QueuedPlayer')
        BY <1>4 DEF Line
    <2> QED
        BY <1>6, <2>1, <2>2, <2>3 DEF QueueConsistent, Injective
<1>8. NewAreFresh' /\ QueuedAreIdle'
    BY <1>0, <1>1, <1>5, <1>6 DEF NewAreFresh, QueuedAreIdle, Holders, OneHolderEach
<1>9. m_sessions' \in [Account -> SessionId \union {NoSession}]
    BY <1>0, <1>1 DEF Holders
<1>10. Holders'
    BY <1>0, <1>1, <1>4, <1>5, <1>7, <1>8, <1>9 DEF Holders, Line
<1>11. LoopConsistent'
    BY <1>0, <1>1, <1>3 DEF LoopConsistent
<1>12. m_disconnects' \in [Account -> (0..MaxTime) \union {Never}]
    BY <1>0, <1>3 DEF Others
<1>13. Others'
    BY <1>0, <1>3, <1>11, <1>12 DEF Others
<1> QED
    BY <1>10, <1>13, InvariantParts, PTL

(* The server stops: every session of the map is kicked, nobody is queued. *)
LEMMA KickAllStep ==
    ASSUME IInv, KickAll
    PROVE  IInv'
<1> DEFINE f(s) == [session[s] EXCEPT !.open = FALSE]
<1>0. Holders /\ Others /\ LoopConsistent
    BY InvariantParts DEF Others
<1>1. session' = [s \in SessionId |-> IF s \in InWorld THEN f(s) ELSE session[s]]
    <2>1. \A s : (\E a \in InMap : m_sessions[a] = s) <=> s \in InWorld
        BY DEF InWorld
    <2> QED
        BY <2>1 DEF KickAll
<1>2. /\ addSessQueue' = addSessQueue /\ m_sessions' = m_sessions /\ m_QueuedPlayer' = <<>>
      /\ UNCHANGED <<m_playerLimit, m_disconnects, now, toUpdate, current, logins>>
      /\ world' = "add" /\ stopping' = TRUE
    BY DEF KickAll, clockVars
<1>3. ASSUME NEW s \in Live
      PROVE  /\ f(s) \in SessionState /\ f(s).account = session[s].account
             /\ ~f(s).open /\ f(s).player = session[s].player
             /\ f(s).loading = session[s].loading /\ f(s).result = session[s].result
    <2>1. s \in SessionId /\ session[s] \in SessionState
        BY <1>0, Lists
    <2>2. f(s) \in SessionState
        BY <2>1 DEF SessionState
    <2> QED
        BY <2>1, <2>2 DEF SessionState
<1> HIDE DEF f
<1>4. ASSUME NEW s \in SessionId
      PROVE  /\ session'[s] \in SessionState \union {Free}
             /\ session'[s] = Free <=> session[s] = Free
    <2>1. CASE s \in InWorld
        <3>1. session'[s] = f(s) /\ s \in Live
            BY <2>1, <1>0, <1>1, Lists
        <3> QED
            BY <3>1, <1>0, <1>3, Lists DEF Live
    <2>2. CASE s \notin InWorld
        BY <2>2, <1>0, <1>1 DEF Holders
    <2> QED
        BY <2>1, <2>2
<1>5. session' \in [SessionId -> SessionState \union {Free}]
    BY <1>1, <1>4
<1>6. Live' = Live
    BY <1>4 DEF Live
<1>7. Added' = Added /\ InMap' = InMap /\ InWorld' = InWorld
    BY <1>2 DEF Added, InMap, InWorld
<1>8. /\ \A s \in Live : session'[s].account = session[s].account
      /\ \A s \in Live : HasCharacter(s)' = HasCharacter(s)
      /\ \A s \in InWorld : ~session'[s].open
    BY <1>0, <1>1, <1>3, Lists DEF HasCharacter
<1>9. OneHolderEach'
    BY <1>0, <1>2, <1>6, <1>7, <1>8, Lists DEF OneHolderEach, Injective, Holders
<1>10. Line(m_QueuedPlayer') /\ Elems(m_QueuedPlayer') = {}
    BY <1>2, LineEmpty
<1>11. Queued' = {}
    BY <1>10 DEF Queued, Elems
<1>12. QueueConsistent'
    BY <1>7, <1>8, <1>10, <1>11 DEF QueueConsistent, Line, Injective
<1>13. NewAreFresh' /\ QueuedAreIdle'
    BY <1>0, <1>7, <1>8, <1>11, Lists DEF NewAreFresh, QueuedAreIdle, Holders
<1>14. Holders'
    BY <1>0, <1>2, <1>5, <1>9, <1>10, <1>12, <1>13 DEF Holders, Line
<1>15. Others'
    BY <1>0, <1>2, <1>7 DEF Others, LoopConsistent
<1> QED
    BY <1>14, <1>15, InvariantParts, PTL

-----------------------------------------------------------------------------
(* The invariant. *)

(* It holds when the server starts, *)
LEMMA InitInvariant == Init => IInv
<1> SUFFICES ASSUME Init PROVE IInv
    OBVIOUS
<1>1. /\ session \in [SessionId -> SessionState \union {Free}]
      /\ m_sessions \in [Account -> SessionId \union {NoSession}]
      /\ m_disconnects \in [Account -> (0..MaxTime) \union {Never}]
      /\ 0 \in 0..MaxTime /\ 0 \in 0..MaxLogins
    BY SessionsAssumption DEF Init
<1>2. /\ Line(addSessQueue) /\ Elems(addSessQueue) = {}
      /\ Line(m_QueuedPlayer) /\ Elems(m_QueuedPlayer) = {}
    BY LineEmpty DEF Init
<1>3. Added = {} /\ Queued = {} /\ InMap = {} /\ InWorld = {} /\ Live = {}
    BY <1>2 DEF Init, Added, Queued, Elems, InMap, InWorld, Live
<1>4. Holders
    BY <1>1, <1>2, <1>3 DEF Holders, Line, OneHolderEach, QueueConsistent, NewAreFresh, QueuedAreIdle
<1>5. Others
    BY <1>1, <1>3 DEF Init, Others, LoopConsistent
<1> QED
    BY <1>4, <1>5, InvariantParts

(* The steps that move somebody between the map and the queue are three. *)
LEMMA OtherStep ==
    ASSUME IInv, [Next]_vars
    PROVE  AddSession \/ RemoveSession \/ KickAll \/ (IInv' /\ Mild)
<1>1. CASE \E s \in SessionId : CloseSocket(s)
    BY <1>1, CloseSocketStep
<1>2. CASE \E s \in SessionId, a \in Account : Authenticate(a, s)
    BY <1>2, AuthenticateStep
<1>3. CASE \/ StartUpdateSessions \/ AllAdded \/ PacketsDone \/ NoLoginCallback
           \/ EndUpdateSessions \/ Tick \/ Stopped
    BY <1>3, WorldThreadStep
<1>4. CASE \E limit \in Limits : SetPlayerAmountLimit(limit)
    BY <1>4, LimitStep
<1>5. CASE \E a \in Account : StartUpdate(a)
    BY <1>5, StartUpdateStep
<1>6. CASE RejectSession
    BY <1>6, RejectStep
<1>7. CASE AddSession
    BY <1>7
<1>8. CASE LoginCallback
    BY <1>8, LoginCallbackStep
<1>9. CASE KeepSession
    BY <1>9, KeepSessionStep
<1>10. CASE RemoveSession
    BY <1>10
<1>11. CASE PlayerLogin
    BY <1>11, PlayerLoginStep
<1>12. CASE PlayerLogout
    BY <1>12, PlayerLogoutStep
<1>13. CASE KickAll
    BY <1>13
<1>14. CASE UNCHANGED vars
    <2>1. Holders /\ Others
        BY InvariantParts
    <2>2. UNCHANGED <<session, addSessQueue, queueVars>> /\ InMap' = InMap /\ InWorld' = InWorld
        BY <1>14, <2>1, HoldersKept DEF vars, queueVars
    <2>3. Others'
        BY <1>14, <2>1, <2>2 DEF vars, Others, LoopConsistent
    <2> QED
        BY <2>2, <2>3, QuietStep
<1> QED
    BY <1>1, <1>2, <1>3, <1>4, <1>5, <1>6, <1>7, <1>8, <1>9, <1>10, <1>11, <1>12, <1>13, <1>14
    DEF Next, Network, UpdateSessions

(* Every step keeps it. *)
LEMMA NextInvariant == IInv /\ [Next]_vars => IInv'
BY OtherStep, AddSessionStep, RemoveSessionStep, KickAllStep

-----------------------------------------------------------------------------
(* The number of sessions, active and waiting. *)

(* A line has as many elements as places. *)
LEMMA LineCount ==
    ASSUME NEW q, Line(q)
    PROVE  /\ IsFiniteSet(Elems(q))
           /\ Len(q) \in Nat /\ Cardinality(Elems(q)) = Len(q)
           /\ q = <<>> <=> Elems(q) = {}
<1>1. q \in Seq(SessionId) /\ Len(q) \in Nat /\ DOMAIN q = 1..Len(q)
    BY DEF Line
<1>2. q \in [1..Len(q) -> Elems(q)]
    BY <1>1 DEF Elems
<1>3. \A i, j \in 1..Len(q) : q[i] = q[j] => i = j
    BY <1>1 DEF Line, Injective
<1>4. \A x \in Elems(q) : \E i \in 1..Len(q) : q[i] = x
    BY <1>1 DEF Elems
<1>5. ExistsBijection(1..Len(q), Elems(q))
    BY <1>2, <1>3, <1>4, Fun_IsBij DEF ExistsBijection
<1>6. Cardinality(Elems(q)) = Len(q)
    BY <1>1, <1>5, FS_CountingElements
<1>7. IsFiniteSet(Elems(q))
    BY <1>1, <1>5, FS_NatBijection
<1>8. q = <<>> <=> Elems(q) = {}
    <2>1. q = <<>> <=> Len(q) = 0
        BY <1>1, EmptySeq
    <2> QED
        BY <2>1, <1>6, <1>7, FS_EmptySet
<1> QED
    BY <1>1, <1>6, <1>7, <1>8

(* The sessions that are in the world and do not wait. *)
ActiveSessions == InWorld \ Queued

(* GetActiveSessionCount counts them. *)
LEMMA SessionCounts ==
    ASSUME Holders
    PROVE  /\ IsFiniteSet(InMap) /\ Cardinality(InMap) \in Nat
           /\ IsFiniteSet(ActiveSessions) /\ Cardinality(ActiveSessions) \in Nat
           /\ Len(m_QueuedPlayer) \in Nat
           /\ Cardinality(InMap) = Cardinality(ActiveSessions) + Len(m_QueuedPlayer)
           /\ m_QueuedPlayer = <<>> <=> Queued = {}
<1>1. IsFiniteSet(InMap) /\ Cardinality(InMap) \in Nat
    <2>1. InMap \in SUBSET Account
        BY DEF InMap
    <2> QED
        BY <2>1, SessionsAssumption, FS_Subset, FS_CardinalityType
<1> DEFINE f == [a \in InMap |-> m_sessions[a]]
<1>2. f \in [InMap -> InWorld]
    BY DEF InWorld
<1>3. \A a, b \in InMap : f[a] = f[b] => a = b
    BY Lists
<1>4. \A s \in InWorld : \E a \in InMap : f[a] = s
    BY DEF InWorld
<1> HIDE DEF f
<1>5. ExistsBijection(InMap, InWorld)
    BY <1>2, <1>3, <1>4, Fun_IsBij DEF ExistsBijection
<1>6. IsFiniteSet(InWorld) /\ Cardinality(InWorld) = Cardinality(InMap)
    BY <1>1, <1>5, FS_Bijection
<1>7. /\ Len(m_QueuedPlayer) \in Nat /\ Cardinality(Queued) = Len(m_QueuedPlayer)
      /\ m_QueuedPlayer = <<>> <=> Queued = {}
    BY Lists, LineCount
<1>8. InWorld \intersect Queued = Queued
    BY Lists
<1>9. /\ IsFiniteSet(ActiveSessions)
      /\ Cardinality(ActiveSessions) = Cardinality(InWorld) - Cardinality(Queued)
    BY <1>6, <1>8, FS_Difference DEF ActiveSessions
<1>10. Cardinality(ActiveSessions) \in Nat
    BY <1>9, FS_CardinalityType
<1>11. Cardinality(InMap) = Cardinality(ActiveSessions) + Len(m_QueuedPlayer)
    BY <1>1, <1>6, <1>7, <1>9
<1> QED
    BY <1>1, <1>7, <1>9, <1>10, <1>11

(* What RemoveQueuedPlayer(s) does to the queue q: s leaves it and nobody is   *)
(* admitted, nothing happens, or the front is admitted.                        *)
OnlyErased(q, s, r) ==
    s \in Elems(q) /\ Elems(r.queue) = Elems(q) \ {s} /\ r.cleared = {s} /\ r.found

Unmoved(q, s, r) ==
    s \notin Elems(q) /\ r.queue = q /\ r.cleared = {} /\ ~r.found

FrontAdmitted(q, s, r) ==
    /\ s \notin Elems(q) /\ q # <<>> /\ ~r.found
    /\ r.queue = Tail(q) /\ Elems(r.queue) = Elems(q) \ {Head(q)}
    /\ r.cleared = {Head(q)} /\ Head(q) \in Elems(q)

(* When nobody waits while there is room it admits the front just when an      *)
(* active session leaves a world that is exactly full.                         *)
LEMMA RemoveCases ==
    ASSUME NEW q, Line(q), NEW n \in Nat, NEW s, NEW r, r = RemoveQueuedPlayer(q, n, s),
           NEW active \in Nat, n = active + Len(q), m_playerLimit \in Nat,
           q # <<>> => m_playerLimit > 0 /\ active >= m_playerLimit
    PROVE  \/ OnlyErased(q, s, r)
           \/ Unmoved(q, s, r) /\ (q # <<>> => active > m_playerLimit)
           \/ FrontAdmitted(q, s, r) /\ active = m_playerLimit
<1> DEFINE found == IsQueued(q, s)
           rest  == IF found THEN Erase(q, s) ELSE q
           admit == rest # <<>> /\ HasRoom(ActiveWithout(q, n, found))
<1>1. found <=> s \in Elems(q)
    BY DEF IsQueued, Elems
<1>2. /\ found => rest = Erase(q, s)
      /\ ~found => rest = q
    OBVIOUS
<1>3. /\ r.found = found
      /\ r.queue = IF admit THEN Tail(rest) ELSE rest
      /\ r.cleared = (IF admit THEN {Head(rest)} ELSE {}) \union (IF found THEN {s} ELSE {})
    BY DEF RemoveQueuedPlayer, AdmitFront
<1>4. Len(q) \in Nat /\ n - Len(q) = active
    BY LineCount
<1>5. q # <<>> => active # 0
    BY <1>4
<1>6. CASE found
    <2>1. q # <<>>
        BY <1>1, <1>6, LineCount
    <2>2. ActiveWithout(q, n, found) = active
        BY <1>4, <1>6 DEF ActiveWithout
    <2>3. ~HasRoom(active)
        BY <2>1, <1>4 DEF HasRoom
    <2>4. ~admit
        BY <2>2, <2>3
    <2>5. Elems(Erase(q, s)) = Elems(q) \ {s}
        BY <1>1, <1>6, LineErase
    <2> HIDE DEF found, rest, admit
    <2>6. r.queue = Erase(q, s) /\ r.cleared = {s} /\ r.found
        BY <2>4, <1>2, <1>3, <1>6
    <2> QED
        BY <2>5, <2>6, <1>1, <1>6 DEF OnlyErased
<1>7. CASE ~found
    <2>1. admit <=> q # <<>> /\ HasRoom(ActiveWithout(q, n, FALSE))
        <3>1. found = FALSE
            BY <1>7 DEF IsQueued
        <3>2. rest = q
            BY <1>7
        <3> HIDE DEF found, rest
        <3>3. admit <=> rest # <<>> /\ HasRoom(ActiveWithout(q, n, found))
            OBVIOUS
        <3> HIDE DEF admit
        <3> QED
            BY <3>1, <3>2, <3>3
    <2>2. q # <<>> => ActiveWithout(q, n, FALSE) = active - 1
        BY <1>4, <1>5 DEF ActiveWithout
    <2>3. q # <<>> => (HasRoom(active - 1) <=> active = m_playerLimit)
        BY <1>4 DEF HasRoom
    <2>4. admit <=> q # <<>> /\ active = m_playerLimit
        BY <2>1, <2>2, <2>3
    <2> HIDE DEF found, rest, admit
    <2>5. CASE admit
        <3>1. /\ Head(q) \in Elems(q)
              /\ Elems(Tail(q)) = Elems(q) \ {Head(q)}
            BY <2>4, <2>5, LineTail
        <3>2. r.queue = Tail(q) /\ r.cleared = {Head(q)} /\ ~r.found
            BY <2>5, <1>2, <1>3, <1>7
        <3> QED
            BY <3>1, <3>2, <2>4, <2>5, <1>1, <1>7 DEF FrontAdmitted
    <2>6. CASE ~admit
        <3>1. r.queue = q /\ r.cleared = {} /\ ~r.found
            BY <2>6, <1>2, <1>3, <1>7
        <3>2. q # <<>> => active > m_playerLimit
            BY <2>4, <2>6
        <3> QED
            BY <3>1, <3>2, <1>1, <1>7 DEF Unmoved
    <2> QED
        BY <2>5, <2>6
<1> QED
    BY <1>6, <1>7

(* What is left to show of a step for the places to be exact after it. *)
LEMMA PlacesAfter ==
    ASSUME Holders, Holders', PlacesExact, m_playerLimit \in Nat, m_playerLimit' = m_playerLimit,
           Queued' # {} =>
               m_playerLimit > 0 /\ Cardinality(ActiveSessions') >= m_playerLimit,
           m_playerLimit > 0 =>
               \/ ActivePlayers' \subseteq ActivePlayers
               \/ Cardinality(ActiveSessions') <= m_playerLimit
               \/ /\ \E s \in ActiveSessions' : session'[s].account \in GameMaster
                  /\ Cardinality(ActiveSessions') <= m_playerLimit + 1
    PROVE  PlacesExact'
<1>1. ActivePlayers' \in SUBSET (ActiveSessions') /\ ActivePlayers \in SUBSET ActiveSessions
    BY DEF ActivePlayers, ActiveSessions
<1>2. IsFiniteSet(ActiveSessions)
    BY SessionCounts
<1>3. /\ IsFiniteSet(ActiveSessions') /\ Cardinality(ActiveSessions') \in Nat
      /\ m_QueuedPlayer' = <<>> <=> Queued' = {}
    <2>1. (Holders => /\ IsFiniteSet(ActiveSessions) /\ Cardinality(ActiveSessions) \in Nat
                      /\ m_QueuedPlayer = <<>> <=> Queued = {})'
        BY SessionCounts, PTL
    <2> QED
        BY <2>1
<1>4. NoIdleSlot'
    BY <1>3 DEF NoIdleSlot, ActiveSessions
<1>5. ASSUME m_playerLimit > 0 PROVE Cardinality(ActivePlayers') <= m_playerLimit
    <2>1. IsFiniteSet(ActivePlayers) /\ IsFiniteSet(ActivePlayers')
        BY <1>1, <1>2, <1>3, FS_Subset
    <2>2. Cardinality(ActivePlayers) \in Nat /\ Cardinality(ActivePlayers') \in Nat
        BY <2>1, FS_CardinalityType
    <2>3. CASE ActivePlayers' \subseteq ActivePlayers
        <3>1. Cardinality(ActivePlayers') <= Cardinality(ActivePlayers)
            BY <2>1, <2>3, FS_Subset
        <3> QED
            BY <3>1, <2>2, <1>5 DEF PlacesExact, LimitRespected
    <2>4. CASE Cardinality(ActiveSessions') <= m_playerLimit
        <3>1. Cardinality(ActivePlayers') <= Cardinality(ActiveSessions')
            BY <1>1, <1>3, FS_Subset
        <3> QED
            BY <3>1, <2>2, <2>4, <1>3
    <2>5. CASE /\ \E s \in ActiveSessions' : session'[s].account \in GameMaster
               /\ Cardinality(ActiveSessions') <= m_playerLimit + 1
        <3>1. PICK s \in ActiveSessions' : session'[s].account \in GameMaster
            BY <2>5
        <3>2. ActivePlayers' \in SUBSET (ActiveSessions' \ {s})
            BY <1>1, <3>1 DEF ActivePlayers
        <3>3. /\ IsFiniteSet(ActiveSessions' \ {s})
              /\ Cardinality(ActiveSessions' \ {s}) = Cardinality(ActiveSessions') - 1
            BY <1>3, <3>1, FS_RemoveElement
        <3>4. Cardinality(ActivePlayers') <= Cardinality(ActiveSessions' \ {s})
            BY <3>2, <3>3, FS_Subset
        <3> QED
            BY <3>3, <3>4, <2>2, <2>5, <1>3
    <2> QED
        BY <1>5, <2>3, <2>4, <2>5
<1>6. LimitRespected'
    BY <1>5 DEF LimitRespected
<1> QED
    BY <1>4, <1>6 DEF PlacesExact

(* What the invariant and exact places say of RemoveQueuedPlayer. *)
LEMMA QueueCases ==
    ASSUME IInv, PlacesExact, NEW s, NEW r,
           r = RemoveQueuedPlayer(m_QueuedPlayer, Cardinality(InMap), s)
    PROVE  \/ OnlyErased(m_QueuedPlayer, s, r)
           \/ /\ Unmoved(m_QueuedPlayer, s, r)
              /\ Queued # {} => Cardinality(ActiveSessions) > m_playerLimit
           \/ /\ FrontAdmitted(m_QueuedPlayer, s, r)
              /\ Cardinality(ActiveSessions) = m_playerLimit
<1>1. Holders /\ m_playerLimit \in Nat
    BY InvariantParts, SessionsAssumption DEF Others
<1>2. m_QueuedPlayer # <<>> => m_playerLimit > 0 /\ Cardinality(ActiveSessions) >= m_playerLimit
    BY DEF PlacesExact, NoIdleSlot, ActiveSessions
<1>3. Line(m_QueuedPlayer)
    BY <1>1, Lists
<1>4. /\ Cardinality(InMap) \in Nat /\ Cardinality(ActiveSessions) \in Nat
      /\ Cardinality(InMap) = Cardinality(ActiveSessions) + Len(m_QueuedPlayer)
      /\ m_QueuedPlayer = <<>> <=> Queued = {}
    BY <1>1, SessionCounts
<1> DEFINE n == Cardinality(InMap)
           active == Cardinality(ActiveSessions)
<1>5. n \in Nat /\ active \in Nat /\ n = active + Len(m_QueuedPlayer)
    BY <1>4
<1>6. r = RemoveQueuedPlayer(m_QueuedPlayer, n, s)
    OBVIOUS
<1>7. m_QueuedPlayer # <<>> => m_playerLimit > 0 /\ active >= m_playerLimit
    BY <1>2
<1> HIDE DEF n, active
<1>8. \/ OnlyErased(m_QueuedPlayer, s, r)
      \/ Unmoved(m_QueuedPlayer, s, r) /\ (m_QueuedPlayer # <<>> => active > m_playerLimit)
      \/ FrontAdmitted(m_QueuedPlayer, s, r) /\ active = m_playerLimit
    BY <1>1, <1>3, <1>5, <1>6, <1>7, RemoveCases
<1> QED
    BY <1>4, <1>8 DEF active

(* A session that leaves the queue for the world, while another stays in it,   *)
(* stood in front.                                                             *)
LEMMA FrontFirst ==
    ASSUME Holders, NEW s \in Queued, NEW t, m_QueuedPlayer # <<>>,
           t = Head(m_QueuedPlayer), s # t
    PROVE  \E j, k \in DOMAIN m_QueuedPlayer :
              m_QueuedPlayer[j] = t /\ m_QueuedPlayer[k] = s /\ j < k
<1>1. m_QueuedPlayer \in Seq(SessionId)
    BY DEF Holders
<1>2. PICK k \in DOMAIN m_QueuedPlayer : m_QueuedPlayer[k] = s
    BY DEF Queued
<1>3. Len(m_QueuedPlayer) \in Nat \ {0} /\ DOMAIN m_QueuedPlayer = 1..Len(m_QueuedPlayer)
    BY <1>1, EmptySeq
<1>4. m_QueuedPlayer[1] = t /\ 1 \in DOMAIN m_QueuedPlayer
    BY <1>1, <1>3
<1>5. k # 1 /\ k \in 1..Len(m_QueuedPlayer)
    BY <1>2, <1>3, <1>4
<1>6. 1 < k
    BY <1>3, <1>5
<1> QED
    BY <1>2, <1>4, <1>6

(* Who waits or is active is the same after a mild step. *)
LEMMA MildPlaces ==
    ASSUME IInv, IInv', Mild, PlacesExact, m_playerLimit' = m_playerLimit
    PROVE  PlacesExact' /\ AdmittedInOrder
<1>1. Holders /\ Holders' /\ m_playerLimit \in Nat
    <2>1. Holders /\ m_playerLimit \in Nat
        BY InvariantParts, SessionsAssumption DEF Others
    <2>2. (IInv => Holders)'
        BY InvariantParts, PTL
    <2> QED
        BY <2>1, <2>2
<1>2. InMap' = InMap /\ InWorld' = InWorld /\ Queued' = Queued /\ ActiveSessions' = ActiveSessions
    BY DEF Mild, queueVars, InMap, InWorld, Queued, ActiveSessions
<1>3. ActivePlayers' \subseteq ActivePlayers
    BY <1>2 DEF ActivePlayers, Mild
<1>4. Queued' # {} => m_playerLimit > 0 /\ Cardinality(ActiveSessions') >= m_playerLimit
    BY <1>1, <1>2, SessionCounts DEF PlacesExact, NoIdleSlot, ActiveSessions
<1>5. PlacesExact'
    BY <1>1, <1>3, <1>4, PlacesAfter
<1>6. AdmittedInOrder
    BY <1>2 DEF AdmittedInOrder, Active
<1> QED
    BY <1>5, <1>6

(* At the end of the server nobody waits, and nobody has a client. *)
LEMMA KickAllPlaces ==
    ASSUME IInv, IInv', KickAll, PlacesExact
    PROVE  PlacesExact' /\ AdmittedInOrder
<1>1. Holders /\ Holders' /\ m_playerLimit \in Nat
    <2>1. Holders /\ m_playerLimit \in Nat
        BY InvariantParts, SessionsAssumption DEF Others
    <2>2. (IInv => Holders)'
        BY InvariantParts, PTL
    <2> QED
        BY <2>1, <2>2
<1>2. m_playerLimit' = m_playerLimit /\ m_QueuedPlayer' = <<>> /\ m_sessions' = m_sessions
    BY DEF KickAll
<1>3. Elems(m_QueuedPlayer') = {}
    BY <1>2, LineEmpty
<1>4. Queued' = {} /\ InWorld' = InWorld /\ InMap' = InMap
    BY <1>2, <1>3 DEF Queued, Elems, InWorld, InMap
<1>5. \A s \in InWorld : ~session'[s].open
    <2> SUFFICES ASSUME NEW s \in InWorld PROVE ~session'[s].open
        OBVIOUS
    <2>1. s \in SessionId /\ session[s] \in SessionState /\ \E a \in InMap : m_sessions[a] = s
        BY <1>1, Lists DEF InWorld
    <2>2. session'[s] = [session[s] EXCEPT !.open = FALSE]
        BY <2>1 DEF KickAll
    <2> QED
        BY <2>1, <2>2 DEF SessionState
<1>6. ActivePlayers' = {}
    BY <1>4, <1>5 DEF ActivePlayers
<1>7. PlacesExact'
    BY <1>1, <1>2, <1>4, <1>6, PlacesAfter
<1>8. AdmittedInOrder
    BY <1>4 DEF AdmittedInOrder
<1> QED
    BY <1>7, <1>8

(* A session that goes makes room for the front of the queue, if it was active *)
(* and the world exactly full.                                                 *)
LEMMA RemoveSessionPlaces ==
    ASSUME IInv, IInv', RemoveSession, PlacesExact
    PROVE  PlacesExact' /\ AdmittedInOrder
<1>1. Holders /\ Holders' /\ m_playerLimit \in Nat
    <2>1. Holders /\ m_playerLimit \in Nat
        BY InvariantParts, SessionsAssumption DEF Others
    <2>2. (IInv => Holders)'
        BY InvariantParts, PTL
    <2> QED
        BY <2>1, <2>2
<1>2. PICK a, first, second : TakesOut(a, first, second)
    BY TakesOutExists
<1>3. /\ a \in InMap
      /\ current \in InWorld
      /\ Line(first.queue) /\ current \notin Elems(first.queue)
      /\ Live' = Live \ {current}
      /\ \A x \in Live' :
            /\ session'[x].account = session[x].account
            /\ session'[x].open = session[x].open
      /\ InWorld' = InWorld \ {current}
      /\ Queued' = Elems(second.queue)
    BY <1>2, RemoveSessionFacts
<1>4. m_playerLimit' = m_playerLimit
    BY DEF RemoveSession
<1> DEFINE n      == Cardinality(InMap)
           active == Cardinality(ActiveSessions)
           q      == m_QueuedPlayer
           rest   == first.queue
<1>5. /\ n \in Nat /\ active \in Nat /\ Len(q) \in Nat /\ n = active + Len(q)
      /\ q = <<>> <=> Queued = {}
      /\ IsFiniteSet(ActiveSessions)
    BY <1>1, SessionCounts
<1>6. Line(q) /\ Queued = Elems(q) /\ Queued \subseteq InWorld
    BY <1>1, Lists
<1>7. Queued # {} => m_playerLimit > 0 /\ active >= m_playerLimit
    BY <1>5 DEF PlacesExact, NoIdleSlot, ActiveSessions
<1>8. /\ first = RemoveQueuedPlayer(q, n, current)
      /\ second = RemoveQueuedPlayer(rest, n, current)
    BY <1>2 DEF TakesOut
<1>9. \/ OnlyErased(q, current, first)
      \/ Unmoved(q, current, first) /\ (Queued # {} => active > m_playerLimit)
      \/ FrontAdmitted(q, current, first) /\ active = m_playerLimit
    BY <1>8, QueueCases
<1>10. /\ Line(rest) /\ current \notin Elems(rest)
       /\ Len(rest) \in Nat /\ Cardinality(Elems(rest)) = Len(rest)
       /\ IsFiniteSet(Elems(q)) /\ Cardinality(Elems(q)) = Len(q)
       /\ rest = <<>> <=> Elems(rest) = {}
    BY <1>3, <1>6, LineCount
<1>11. \A x \in ActiveSessions' : x \in Live' /\ x \in InWorld
    BY <1>1, <1>3, Lists DEF ActiveSessions
<1>12. \A x \in ActivePlayers' : x \in ActiveSessions => x \in ActivePlayers
    BY <1>3, <1>11 DEF ActivePlayers, ActiveSessions
<1> HIDE DEF n, active, q, rest
<1>13. CASE OnlyErased(q, current, first)
    <2>1. /\ current \in Queued /\ Elems(rest) = Queued \ {current}
        BY <1>6, <1>13 DEF OnlyErased, rest
    <2>2. Len(rest) = Len(q) - 1 /\ n = (active + 1) + Len(rest)
        <3>1. Cardinality(Elems(q) \ {current}) = Cardinality(Elems(q)) - 1
            BY <2>1, <1>6, <1>10, FS_RemoveElement
        <3> QED
            BY <3>1, <2>1, <1>5, <1>6, <1>10
    <2>3. m_playerLimit > 0 /\ active >= m_playerLimit
        BY <2>1, <1>7
    <2>4. active + 1 \in Nat /\ active + 1 > m_playerLimit
        BY <2>3, <1>1, <1>5
    <2>5. Unmoved(rest, current, second)
        <3> DEFINE more == active + 1
        <3>1. more \in Nat /\ more >= m_playerLimit /\ more # m_playerLimit /\ n = more + Len(rest)
            BY <2>2, <2>4, <1>1
        <3> HIDE DEF more
        <3>2. \/ OnlyErased(rest, current, second)
              \/ Unmoved(rest, current, second)
              \/ FrontAdmitted(rest, current, second) /\ more = m_playerLimit
            BY <3>1, <2>3, <1>1, <1>5, <1>8, <1>10, RemoveCases
        <3> QED
            BY <3>1, <3>2, <1>10 DEF OnlyErased
    <2>6. Queued' = Queued \ {current}
        BY <2>1, <2>5, <1>3 DEF Unmoved
    <2>7. ActiveSessions' = ActiveSessions
        BY <2>1, <2>6, <1>3 DEF ActiveSessions
    <2>8. PlacesExact'
        <3>1. ActivePlayers' \subseteq ActivePlayers
            BY <2>7, <1>12 DEF ActivePlayers, ActiveSessions
        <3>2. Cardinality(ActiveSessions') >= m_playerLimit
            BY <2>3, <2>7 DEF active
        <3> QED
            BY <3>1, <3>2, <2>3, <1>1, <1>4, PlacesAfter
    <2>9. AdmittedInOrder
        BY <2>7 DEF AdmittedInOrder, Active, ActiveSessions
    <2> QED
        BY <2>8, <2>9
<1>14. CASE Unmoved(q, current, first) /\ (Queued # {} => active > m_playerLimit)
    <2>1. rest = q /\ current \notin Queued /\ current \in ActiveSessions
        BY <1>3, <1>6, <1>14 DEF Unmoved, rest, ActiveSessions
    <2>2. second = first
        BY <2>1, <1>8
    <2>3. Queued' = Queued
        BY <2>1, <2>2, <1>3, <1>6 DEF rest
    <2>4. ActiveSessions' = ActiveSessions \ {current}
        BY <2>3, <1>3 DEF ActiveSessions
    <2>5. Cardinality(ActiveSessions') = active - 1
        BY <2>1, <2>4, <1>5, FS_RemoveElement DEF active
    <2>6. PlacesExact'
        <3>1. ActivePlayers' \subseteq ActivePlayers
            BY <2>4, <1>12 DEF ActivePlayers, ActiveSessions
        <3>2. Queued' # {} => m_playerLimit > 0 /\ Cardinality(ActiveSessions') >= m_playerLimit
            BY <2>3, <2>5, <1>1, <1>5, <1>7, <1>14
        <3> QED
            BY <3>1, <3>2, <1>1, <1>4, PlacesAfter
    <2>7. AdmittedInOrder
        BY <2>4 DEF AdmittedInOrder, Active, ActiveSessions
    <2> QED
        BY <2>6, <2>7
<1>15. CASE FrontAdmitted(q, current, first) /\ active = m_playerLimit
    <2> DEFINE h == Head(q)
    <2>1. /\ current \notin Queued /\ h \in Queued /\ Elems(rest) = Queued \ {h} /\ q # <<>>
          /\ current \in ActiveSessions
        BY <1>3, <1>6, <1>15 DEF FrontAdmitted, rest, ActiveSessions
    <2> HIDE DEF h
    <2>2. Len(rest) = Len(q) - 1 /\ n = (active + 1) + Len(rest)
        <3>1. Cardinality(Elems(q) \ {h}) = Cardinality(Elems(q)) - 1
            BY <2>1, <1>6, <1>10, FS_RemoveElement
        <3> QED
            BY <3>1, <2>1, <1>5, <1>6, <1>10
    <2>3. m_playerLimit > 0 /\ active >= m_playerLimit
        BY <2>1, <1>7
    <2>4. active + 1 \in Nat /\ active + 1 > m_playerLimit
        BY <2>3, <1>1, <1>5
    <2>5. Unmoved(rest, current, second)
        <3> DEFINE more == active + 1
        <3>1. more \in Nat /\ more >= m_playerLimit /\ more # m_playerLimit /\ n = more + Len(rest)
            BY <2>2, <2>4, <1>1
        <3> HIDE DEF more
        <3>2. \/ OnlyErased(rest, current, second)
              \/ Unmoved(rest, current, second)
              \/ FrontAdmitted(rest, current, second) /\ more = m_playerLimit
            BY <3>1, <2>3, <1>1, <1>5, <1>8, <1>10, RemoveCases
        <3> QED
            BY <3>1, <3>2, <1>10 DEF OnlyErased
    <2>6. Queued' = Queued \ {h}
        BY <2>1, <2>5, <1>3 DEF Unmoved
    <2>7. ActiveSessions' = (ActiveSessions \ {current}) \union {h}
        BY <2>1, <2>6, <1>3, <1>6 DEF ActiveSessions
    <2>8. Cardinality(ActiveSessions') = active
        <3>1. /\ IsFiniteSet(ActiveSessions \ {current})
              /\ Cardinality(ActiveSessions \ {current}) = active - 1
            BY <2>1, <1>5, FS_RemoveElement DEF active
        <3>2. h \notin ActiveSessions \ {current}
            BY <2>1 DEF ActiveSessions
        <3>3. Cardinality(ActiveSessions') = Cardinality(ActiveSessions \ {current}) + 1
            BY <2>7, <3>1, <3>2, FS_AddElement
        <3> QED
            BY <3>1, <3>3, <1>5
    <2>9. PlacesExact'
        <3>1. Cardinality(ActiveSessions') <= m_playerLimit /\ Cardinality(ActiveSessions') >= m_playerLimit
            BY <2>8, <1>1, <1>5, <1>15
        <3> QED
            BY <3>1, <2>3, <1>1, <1>4, PlacesAfter
    <2>10. AdmittedInOrder
        <3> SUFFICES ASSUME NEW s \in SessionId, NEW t \in SessionId,
                            s \in Queued, s \in Queued', ~Active(t), Active(t)'
                     PROVE  \E j, k \in DOMAIN m_QueuedPlayer :
                               m_QueuedPlayer[j] = t /\ m_QueuedPlayer[k] = s /\ j < k
            BY DEF AdmittedInOrder
        <3>1. t = h
            BY <2>7 DEF Active, ActiveSessions
        <3>2. s # t
            BY <3>1, <2>6
        <3> QED
            BY <3>1, <3>2, <2>1, <1>1, FrontFirst DEF h, q
    <2> QED
        BY <2>9, <2>10
<1> QED
    BY <1>9, <1>13, <1>14, <1>15

(* Whether the new session of account a has to wait. *)
LEMMA QueuedWhenFull ==
    ASSUME IInv, Tolerance = 0, NEW s, NEW a, NEW old, NEW r, NEW queued,
           TakesIn(s, a, old, r, queued), a \in InMap <=> old # NoSession,
           NEW n, n = Cardinality(InMap)
    PROVE  /\ queued => m_playerLimit > 0 /\ a \notin GameMaster
           /\ m_playerLimit > 0 /\ a \notin GameMaster =>
                 (queued <=> (IF old = NoSession \/ r.found THEN n ELSE n - 1) >= m_playerLimit)
<1>1. Holders /\ m_playerLimit \in Nat
    BY InvariantParts, SessionsAssumption DEF Others
<1>2. n \in Nat /\ IsFiniteSet(InMap)
    BY <1>1, SessionCounts
<1> DEFINE c == Cardinality(InMap \union {a})
<1>3. c = IF old = NoSession THEN n + 1 ELSE n
    BY <1>2, FS_AddElement
<1>4. old = NoSession => ~r.found
    BY DEF TakesIn, LeaveQueue
<1>5. ~HasRecentlyDisconnected(a)
    BY DEF HasRecentlyDisconnected
<1>6. queued <=> ~HasRoom(IF r.found THEN c ELSE c - 1) /\ a \notin GameMaster
    BY <1>5 DEF TakesIn
<1> HIDE DEF c
<1> DEFINE m == IF r.found THEN c ELSE c - 1
<1>7. m = IF old = NoSession \/ r.found THEN n ELSE n - 1
    BY <1>2, <1>3, <1>4
<1>8. m \in Int
    BY <1>2, <1>7
<1>9. queued <=> ~HasRoom(m) /\ a \notin GameMaster
    BY <1>6
<1> HIDE DEF m
<1>10. HasRoom(m) <=> m_playerLimit = 0 \/ m < m_playerLimit
    BY DEF HasRoom
<1>11. queued <=> m_playerLimit > 0 /\ m >= m_playerLimit /\ a \notin GameMaster
    BY <1>1, <1>8, <1>9, <1>10
<1> QED
    BY <1>7, <1>11

(* A new session goes into the world just when there is room, or its account   *)
(* is a game master's; its predecessor may have made room for the front of the *)
(* queue.                                                                      *)
LEMMA AddSessionPlaces ==
    ASSUME IInv, IInv', AddSession, PlacesExact, Tolerance = 0
    PROVE  PlacesExact' /\ AdmittedInOrder
<1>1. Holders /\ Holders' /\ m_playerLimit \in Nat
    <2>1. Holders /\ m_playerLimit \in Nat
        BY InvariantParts, SessionsAssumption DEF Others
    <2>2. (IInv => Holders)'
        BY InvariantParts, PTL
    <2> QED
        BY <2>1, <2>2
<1>2. PICK s, a, old, r, queued : TakesIn(s, a, old, r, queued)
    BY TakesInExists
<1>3. /\ s \in Added /\ s # old /\ (old = NoSession \/ old \in InWorld)
      /\ queued \in BOOLEAN
      /\ Live' = Live \ {old}
      /\ \A x \in Live' :
            /\ session'[x].account = session[x].account
            /\ session'[x].open = session[x].open
    BY <1>1, <1>2, AddSessionFacts
<1>4. /\ s \in SessionId /\ s \notin InWorld
      /\ old # NoSession <=> a \in InMap
      /\ InWorld' = (InWorld \ {old}) \union {s}
      /\ r.found = (old \in Queued)
      /\ Queued' = Elems(r.queue) \union (IF queued THEN {s} ELSE {})
    BY <1>1, <1>2, AddSessionLists
<1>5. a = session[s].account /\ r = LeaveQueue(old)
    BY <1>2 DEF TakesIn
<1>6. m_playerLimit' = m_playerLimit
    BY DEF AddSession
<1> DEFINE n      == Cardinality(InMap)
           active == Cardinality(ActiveSessions)
           q      == m_QueuedPlayer
<1>7. /\ n \in Nat /\ active \in Nat /\ Len(q) \in Nat /\ n = active + Len(q)
      /\ q = <<>> <=> Queued = {}
      /\ IsFiniteSet(ActiveSessions)
    BY <1>1, SessionCounts
<1>8. /\ Line(q) /\ Queued = Elems(q) /\ Queued \subseteq InWorld /\ NoSession \notin InWorld
      /\ (Len(q) = 0 <=> Queued = {})
    BY <1>1, <1>7, Lists, LineCount, EmptySeq
<1>9. Queued # {} => m_playerLimit > 0 /\ active >= m_playerLimit
    BY <1>7 DEF PlacesExact, NoIdleSlot, ActiveSessions
<1>10. /\ queued => m_playerLimit > 0 /\ a \notin GameMaster
       /\ m_playerLimit > 0 /\ a \notin GameMaster =>
             (queued <=> (IF old = NoSession \/ r.found THEN n ELSE n - 1) >= m_playerLimit)
    BY <1>2, <1>4, QueuedWhenFull
<1>11. \A x \in ActiveSessions' : x = s \/ (x \in Live' /\ x \in InWorld)
    BY <1>1, <1>3, <1>4, Lists DEF ActiveSessions
<1>12. \A x \in ActivePlayers' : x \in ActiveSessions => x \in ActivePlayers
    BY <1>3, <1>4, <1>11 DEF ActivePlayers, ActiveSessions
<1>13. s \in Live' /\ session'[s].account = a
    BY <1>1, <1>3, <1>5, Lists
<1>14. s \notin ActiveSessions /\ s \notin Queued
    BY <1>4, <1>8 DEF ActiveSessions
<1> HIDE DEF n, active, q
<1>15. a \in GameMaster => s \notin ActivePlayers'
    BY <1>13 DEF ActivePlayers
(* Nobody but s, or the old session's successor, goes into the world. *)
<1>16. CASE Elems(r.queue) = Queued \ {old} /\ (old \in Queued \/ old = NoSession)
    <2>0. (IF old = NoSession \/ r.found THEN n ELSE n - 1) = n
        BY <1>4, <1>16
    <2>1. CASE queued
        <3>1. ActiveSessions' = ActiveSessions
            BY <2>1, <1>4, <1>8, <1>14, <1>16 DEF ActiveSessions
        <3>2. ActivePlayers' \subseteq ActivePlayers
            BY <3>1, <1>12 DEF ActivePlayers, ActiveSessions
        <3>3. m_playerLimit > 0 /\ n >= m_playerLimit
            BY <2>0, <2>1, <1>10
        <3>4. active >= m_playerLimit
            BY <3>3, <1>7, <1>8, <1>9
        <3>5. PlacesExact'
            BY <3>1, <3>2, <3>3, <3>4, <1>1, <1>6, PlacesAfter DEF active
        <3>6. AdmittedInOrder
            BY <3>1 DEF AdmittedInOrder, Active, ActiveSessions
        <3> QED
            BY <3>5, <3>6
    <2>2. CASE ~queued
        <3>1. ActiveSessions' = ActiveSessions \union {s} /\ Queued' = Queued \ {old}
            BY <2>2, <1>4, <1>8, <1>14, <1>16 DEF ActiveSessions
        <3>2. Cardinality(ActiveSessions') = active + 1
            BY <3>1, <1>7, <1>14, FS_AddElement DEF active
        <3>3. Queued' # {} => m_playerLimit > 0 /\ Cardinality(ActiveSessions') >= m_playerLimit
            BY <3>1, <3>2, <1>1, <1>7, <1>9
        <3>4. CASE a \in GameMaster
            <4>1. ActivePlayers' \subseteq ActivePlayers
                BY <3>1, <3>4, <1>12, <1>15 DEF ActivePlayers, ActiveSessions
            <4>2. PlacesExact'
                BY <3>3, <4>1, <1>1, <1>6, PlacesAfter
            <4>3. AdmittedInOrder
                <5> SUFFICES ASSUME NEW x \in SessionId, ~Active(x), Active(x)'
                             PROVE  session'[x].account \in GameMaster
                    BY DEF AdmittedInOrder
                <5>1. x = s
                    BY <3>1 DEF Active, ActiveSessions
                <5> QED
                    BY <5>1, <3>4, <1>13
            <4> QED
                BY <4>2, <4>3
        <3>5. CASE a \notin GameMaster
            <4>1. m_playerLimit > 0 => n < m_playerLimit
                BY <2>0, <2>2, <3>5, <1>1, <1>7, <1>10
            <4>2. Queued = {} /\ Len(q) = 0
                BY <4>1, <1>1, <1>7, <1>8, <1>9
            <4>3. m_playerLimit > 0 => Cardinality(ActiveSessions') <= m_playerLimit
                BY <3>2, <4>1, <4>2, <1>1, <1>7
            <4>4. PlacesExact'
                BY <3>3, <4>3, <1>1, <1>6, PlacesAfter
            <4>5. AdmittedInOrder
                BY <4>2 DEF AdmittedInOrder
            <4> QED
                BY <4>4, <4>5
        <3> QED
            BY <3>4, <3>5
    <2> QED
        BY <2>1, <2>2
(* An active session is replaced, and nobody else moves. *)
<1>17. CASE /\ old \in ActiveSessions /\ Elems(r.queue) = Queued /\ ~r.found
            /\ Queued # {} => active > m_playerLimit
    <2>0. (IF old = NoSession \/ r.found THEN n ELSE n - 1) = n - 1
        BY <1>8, <1>17 DEF ActiveSessions
    <2>1. CASE queued
        <3>1. ActiveSessions' = ActiveSessions \ {old}
            BY <2>1, <1>4, <1>8, <1>14, <1>17 DEF ActiveSessions
        <3>2. ActivePlayers' \subseteq ActivePlayers
            BY <3>1, <1>12 DEF ActivePlayers, ActiveSessions
        <3>3. m_playerLimit > 0 /\ n - 1 >= m_playerLimit
            BY <2>0, <2>1, <1>10
        <3>4. Cardinality(ActiveSessions') = active - 1
            BY <3>1, <1>7, <1>17, FS_RemoveElement DEF active
        <3>5. Cardinality(ActiveSessions') >= m_playerLimit
            <4>1. CASE Queued = {}
                BY <4>1, <3>3, <3>4, <1>1, <1>7, <1>8
            <4>2. CASE Queued # {}
                BY <4>2, <3>4, <1>1, <1>7, <1>17
            <4> QED
                BY <4>1, <4>2
        <3>6. PlacesExact'
            BY <3>2, <3>3, <3>5, <1>1, <1>6, PlacesAfter
        <3>7. AdmittedInOrder
            BY <3>1 DEF AdmittedInOrder, Active, ActiveSessions
        <3> QED
            BY <3>6, <3>7
    <2>2. CASE ~queued
        <3>1. ActiveSessions' = (ActiveSessions \ {old}) \union {s} /\ Queued' = Queued
            BY <2>2, <1>4, <1>8, <1>14, <1>17 DEF ActiveSessions
        <3>2. Cardinality(ActiveSessions') = active
            <4>1. /\ IsFiniteSet(ActiveSessions \ {old})
                  /\ Cardinality(ActiveSessions \ {old}) = active - 1
                BY <1>7, <1>17, FS_RemoveElement DEF active
            <4>2. Cardinality(ActiveSessions') = Cardinality(ActiveSessions \ {old}) + 1
                BY <3>1, <4>1, <1>14, FS_AddElement
            <4> QED
                BY <4>1, <4>2, <1>7
        <3>3. Queued' # {} => m_playerLimit > 0 /\ Cardinality(ActiveSessions') >= m_playerLimit
            BY <3>1, <3>2, <1>9
        <3>4. CASE a \in GameMaster
            <4>1. ActivePlayers' \subseteq ActivePlayers
                BY <3>1, <3>4, <1>12, <1>15 DEF ActivePlayers, ActiveSessions
            <4>2. PlacesExact'
                BY <3>3, <4>1, <1>1, <1>6, PlacesAfter
            <4>3. AdmittedInOrder
                <5> SUFFICES ASSUME NEW x \in SessionId, ~Active(x), Active(x)'
                             PROVE  session'[x].account \in GameMaster
                    BY DEF AdmittedInOrder
                <5>1. x = s
                    BY <3>1 DEF Active, ActiveSessions
                <5> QED
                    BY <5>1, <3>4, <1>13
            <4> QED
                BY <4>2, <4>3
        <3>5. CASE a \notin GameMaster
            <4>1. m_playerLimit > 0 => n - 1 < m_playerLimit
                BY <2>0, <2>2, <3>5, <1>1, <1>7, <1>10
            <4>2. Queued = {} /\ Len(q) = 0
                <5> SUFFICES ASSUME Queued # {} PROVE FALSE
                    BY <1>8
                <5>1. m_playerLimit > 0 /\ active > m_playerLimit
                    BY <1>9, <1>17
                <5> QED
                    BY <5>1, <4>1, <1>1, <1>7
            <4>3. m_playerLimit > 0 => Cardinality(ActiveSessions') <= m_playerLimit
                BY <3>2, <4>1, <4>2, <1>1, <1>7
            <4>4. PlacesExact'
                BY <3>3, <4>3, <1>1, <1>6, PlacesAfter
            <4>5. AdmittedInOrder
                BY <4>2 DEF AdmittedInOrder
            <4> QED
                BY <4>4, <4>5
        <3> QED
            BY <3>4, <3>5
    <2> QED
        BY <2>1, <2>2
(* An active session is replaced, and the front of the queue takes its place. *)
<1>18. CASE old \in ActiveSessions /\ FrontAdmitted(q, old, r) /\ active = m_playerLimit
    <2> DEFINE h == Head(q)
    <2>1. /\ h \in Queued /\ Elems(r.queue) = Queued \ {h} /\ q # <<>> /\ ~r.found
          /\ Len(q) >= 1
        BY <1>7, <1>8, <1>18 DEF FrontAdmitted
    <2> HIDE DEF h
    <2>2. m_playerLimit > 0
        BY <2>1, <1>9
    <2>3. a \notin GameMaster => queued
        <3>1. (IF old = NoSession \/ r.found THEN n ELSE n - 1) = n - 1
            BY <2>1, <1>8, <1>18 DEF ActiveSessions
        <3>2. n - 1 >= m_playerLimit
            BY <2>1, <1>1, <1>7, <1>18
        <3> QED
            BY <2>2, <3>1, <3>2, <1>10
    <2> DEFINE base == (ActiveSessions \ {old}) \union {h}
    <2>4. IsFiniteSet(base) /\ Cardinality(base) = active /\ s \notin base
        <3>1. /\ IsFiniteSet(ActiveSessions \ {old})
              /\ Cardinality(ActiveSessions \ {old}) = active - 1
            BY <1>7, <1>18, FS_RemoveElement DEF active
        <3>2. h \notin ActiveSessions \ {old}
            BY <2>1 DEF ActiveSessions
        <3>3. IsFiniteSet(base) /\ Cardinality(base) = Cardinality(ActiveSessions \ {old}) + 1
            BY <3>1, <3>2, FS_AddElement
        <3> QED
            BY <2>1, <3>1, <3>3, <1>7, <1>14
    <2>5. ActiveSessions' = IF queued THEN base ELSE base \union {s}
        <3>1. h # old /\ h # s /\ h \in InWorld /\ old \notin Queued
            BY <2>1, <1>8, <1>14, <1>18 DEF ActiveSessions
        <3> QED
            BY <2>1, <3>1, <1>4, <1>8, <1>14 DEF ActiveSessions
    <2> HIDE DEF base
    <2>6. Cardinality(ActiveSessions') = IF queued THEN active ELSE active + 1
        BY <2>4, <2>5, FS_AddElement
    <2>7. Cardinality(ActiveSessions') >= m_playerLimit /\ Cardinality(ActiveSessions') <= m_playerLimit + 1
        BY <2>6, <1>1, <1>7, <1>18
    <2>8. PlacesExact'
        <3>1. CASE queued
            <4>1. Cardinality(ActiveSessions') <= m_playerLimit
                BY <3>1, <2>6, <1>1, <1>7, <1>18
            <4> QED
                BY <4>1, <2>2, <2>7, <1>1, <1>6, PlacesAfter
        <3>2. CASE ~queued
            <4>1. s \in ActiveSessions' /\ session'[s].account \in GameMaster
                BY <3>2, <2>3, <2>5, <1>13
            <4> QED
                BY <4>1, <2>2, <2>7, <1>1, <1>6, PlacesAfter
        <3> QED
            BY <3>1, <3>2
    <2>9. AdmittedInOrder
        <3> SUFFICES ASSUME NEW x \in SessionId, NEW t \in SessionId,
                            x \in Queued, x \in Queued', ~Active(t), Active(t)',
                            session'[t].account \notin GameMaster
                     PROVE  \E j, k \in DOMAIN m_QueuedPlayer :
                               m_QueuedPlayer[j] = t /\ m_QueuedPlayer[k] = x /\ j < k
            BY DEF AdmittedInOrder
        <3>1. t \in ActiveSessions' /\ t \notin ActiveSessions
            BY DEF Active, ActiveSessions
        <3>2. t = h
            BY <3>1, <2>3, <2>5, <1>13 DEF base
        <3>3. x # t
            BY <3>2, <2>1, <1>4, <1>14
        <3> QED
            BY <3>2, <3>3, <2>1, <1>1, FrontFirst DEF h, q
    <2> QED
        BY <2>8, <2>9
<1>19. CASE old = NoSession
    <2>1. r = [found |-> FALSE, queue |-> q, cleared |-> {}]
        BY <1>5, <1>19 DEF LeaveQueue, q
    <2>2. r.queue = q /\ NoSession \notin Queued
        BY <2>1, <1>8
    <2>3. Elems(r.queue) = Queued \ {old}
        BY <2>2, <1>8, <1>19
    <2> QED
        BY <2>3, <1>16, <1>19
<1>20. CASE old # NoSession
    <2>1. r = RemoveQueuedPlayer(m_QueuedPlayer, Cardinality(InMap), old)
        BY <1>5, <1>20 DEF LeaveQueue
    <2>2. \/ OnlyErased(q, old, r)
          \/ Unmoved(q, old, r) /\ (Queued # {} => active > m_playerLimit)
          \/ FrontAdmitted(q, old, r) /\ active = m_playerLimit
        BY <2>1, QueueCases DEF q, active
    <2>3. CASE OnlyErased(q, old, r)
        BY <2>3, <1>8, <1>16 DEF OnlyErased
    <2>4. CASE Unmoved(q, old, r) /\ (Queued # {} => active > m_playerLimit)
        <3>1. old \in ActiveSessions /\ Elems(r.queue) = Queued /\ ~r.found
            BY <2>4, <1>3, <1>8, <1>20 DEF Unmoved, ActiveSessions
        <3> QED
            BY <3>1, <2>4, <1>17
    <2>5. CASE FrontAdmitted(q, old, r) /\ active = m_playerLimit
        <3>1. old \in ActiveSessions
            BY <2>5, <1>3, <1>8, <1>20 DEF FrontAdmitted, ActiveSessions
        <3> QED
            BY <3>1, <2>5, <1>18
    <2> QED
        BY <2>2, <2>3, <2>4, <2>5
<1> QED
    BY <1>19, <1>20

-----------------------------------------------------------------------------
(* The theorems. *)

(* The inductive invariant holds in every reachable state. *)
THEOREM SessionInvariant == Spec => []IInv
<1>1. IInv /\ [Next]_vars => IInv'
    BY NextInvariant
<1> QED
    BY <1>1, InitInvariant, PTL DEF Spec

(* For any number of accounts, addresses and logins, every session object has  *)
(* one holder, under its own account, and the login queue agrees with the      *)
(* flags of the sessions of the map, whatever AddSession_ and UpdateSessions   *)
(* replace, reject, remove and promote.                                        *)
THEOREM OneHolder == Spec => []SessionsConsistent
<1>1. IInv => SessionsConsistent
    BY DEF IInv, SessionsConsistent
<1> QED
    BY <1>1, SessionInvariant, PTL

(* No account ever has two sessions with a character, and none that waits in   *)
(* the queue has one.                                                          *)
THEOREM OneCharacter == Spec => []OneCharacterPerAccount
<1>1. ASSUME IInv PROVE OneCharacterPerAccount
    <2>0. Holders
        BY <1>1, InvariantParts
    <2>1. ASSUME NEW s \in Live, NEW t \in Live, s # t,
                 session[s].account = session[t].account
          PROVE  ~(HasCharacter(s) /\ HasCharacter(t))
        <3>1. s \in Added \/ t \in Added
            BY <2>0, <2>1, Lists
        <3> QED
            BY <3>1, <2>0 DEF Holders, NewAreFresh
    <2>2. \A s \in Queued : ~HasCharacter(s)
        BY <2>0 DEF Holders, QueuedAreIdle
    <2> QED
        BY <2>1, <2>2 DEF OneCharacterPerAccount
<1> QED
    BY <1>1, SessionInvariant, PTL

(* With a constant limit and no tolerance for disconnected players: *)
LEMMA PlacesStep ==
    ASSUME NEW limit, Limits = {limit}, Tolerance = 0,
           IInv, PlacesExact, [Next]_vars
    PROVE  PlacesExact' /\ AdmittedInOrder
<1>1. IInv'
    BY NextInvariant
<1>2. m_playerLimit = limit /\ m_playerLimit' = limit
    <2>1. (IInv => m_playerLimit \in Limits)'
        BY InvariantParts, PTL DEF Others
    <2> QED
        BY <2>1, <1>1, InvariantParts DEF Others
<1>3. CASE Mild
    BY <1>1, <1>2, <1>3, MildPlaces
<1>4. CASE AddSession
    BY <1>1, <1>4, AddSessionPlaces
<1>5. CASE RemoveSession
    BY <1>1, <1>5, RemoveSessionPlaces
<1>6. CASE KickAll
    BY <1>1, <1>6, KickAllPlaces
<1> QED
    BY <1>3, <1>4, <1>5, <1>6, OtherStep

(* the places are exact when the server starts. *)
LEMMA PlacesInit == Init => PlacesExact
<1> SUFFICES ASSUME Init PROVE PlacesExact
    OBVIOUS
<1>1. InWorld = {} /\ m_QueuedPlayer = <<>> /\ m_playerLimit \in Nat
    BY SessionsAssumption DEF Init, InWorld, InMap
<1>2. ActivePlayers = {}
    BY <1>1 DEF ActivePlayers
<1>3. Cardinality(ActivePlayers) = 0
    BY <1>2, FS_EmptySet
<1> QED
    BY <1>1, <1>3 DEF PlacesExact, LimitRespected, NoIdleSlot

(* The places are given out exactly: no more ordinary players than the limit   *)
(* are active, and nobody waits while a place is free.                         *)
THEOREM PlacesGivenOutExactly ==
    ASSUME NEW limit, Limits = {limit}, Tolerance = 0
    PROVE  Spec => []PlacesExact
<1>1. IInv /\ PlacesExact /\ [Next]_vars => PlacesExact'
    BY PlacesStep
<1> QED
    BY <1>1, PlacesInit, SessionInvariant, PTL DEF Spec

(* Nobody who waits is overtaken by another ordinary player. *)
THEOREM QueueIsFair ==
    ASSUME NEW limit, Limits = {limit}, Tolerance = 0
    PROVE  Spec => NoOvertaking
<1>1. IInv /\ PlacesExact /\ [Next]_vars => [AdmittedInOrder]_vars
    BY PlacesStep
<1>2. Spec => []PlacesExact
    BY PlacesGivenOutExactly
<1> QED
    BY <1>1, <1>2, SessionInvariant, PTL DEF Spec, NoOvertaking
=============================================================================
