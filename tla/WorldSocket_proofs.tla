------------------------- MODULE WorldSocket_proofs -------------------------
(* Theorems about WorldSocket.tla, for any number of worker threads, sessions  *)
(* and packets and any sizes of the buffers.                                   *)
EXTENDS WorldSocket, SequencesExt, FiniteSetTheorems, SequenceTheorems,
        WellFoundedInduction, TLAPS

-----------------------------------------------------------------------------
(* The frames that are joined: FlattenSeq. Induction is over the set of the    *)
(* numbers for which a formula holds.                                          *)

(* A set of natural numbers that is not empty has a least element. *)
LEMMA LeastElement ==
    ASSUME NEW T \in SUBSET Nat, T # {}
    PROVE  \E n \in T : \A m \in T : n <= m
<1> DEFINE R == OpToRel(<, Nat)
<1>1. IsWellFoundedOn(R, Nat)
    BY NatLessThanWellFounded
<1>2. \A x, y \in Nat : x < y => <<x, y>> \in R
    BY DEF OpToRel
<1> HIDE DEF R
<1>3. PICK x \in T : \A y \in T : ~ (<<y, x>> \in R)
    BY <1>1, WFMin
<1>4. \A y \in T : x \in Nat /\ y \in Nat /\ ~(y < x)
    BY <1>2, <1>3
<1>5. \A y \in T : x <= y
    BY <1>4
<1> QED
    BY <1>5

(* Induction over the natural numbers. *)
LEMMA SetInduction ==
    ASSUME NEW T \in SUBSET Nat, 0 \in T, \A n \in T : n + 1 \in T
    PROVE  T = Nat
<1> SUFFICES ASSUME Nat \ T # {} PROVE FALSE
    OBVIOUS
<1>1. PICK n \in Nat \ T : \A m \in Nat \ T : n <= m
    BY LeastElement
<1>2. n # 0 /\ n - 1 \in Nat
    BY <1>1
<1>3. n - 1 \in T
    BY <1>1, <1>2
<1>4. n - 1 + 1 = n
    BY <1>1
<1> QED
    BY <1>3, <1>4

(* s is a sequence over S: kept folded, it spares the provers the many         *)
(* sequences that they would make of those they know.                          *)
Over(s, S) == s \in Seq(S)

(* Concatenation is associative. *)
LEMMA OverConcat ==
    \A S, x, y : Over(x, S) /\ Over(y, S) =>
        /\ Over(x \o y, S)
        /\ \A z : Over(z, S) => (x \o y) \o z = x \o (y \o z)
BY ConcatAssociative, ConcatProperties DEF Over

-----------------------------------------------------------------------------
(* f[i] is the first i sequences of q, one after the other. *)
Joins(f, q, n) == \A i \in 1..n : f[i] = IF i = 1 THEN q[i] ELSE f[i - 1] \o q[i]

(* There is such a function. *)
LEMMA JoinsExists ==
    ASSUME NEW S, NEW q \in Seq(Seq(S))
    PROVE  \E f \in [1..Len(q) -> Seq(S)] : Joins(f, q, Len(q))
<1> DEFINE T == {n \in Nat : n <= Len(q) => \E f \in [1..n -> Seq(S)] : Joins(f, q, n)}
<1>0. Len(q) \in Nat /\ \A i \in 1..Len(q) : q[i] \in Seq(S)
    BY ElementOfSeq
<1>1. 0 \in T
    <2> DEFINE f == [i \in 1..0 |-> <<>>]
    <2>1. f \in [1..0 -> Seq(S)] /\ Joins(f, q, 0)
        BY DEF Joins
    <2> QED
        BY <2>1
<1>2. ASSUME NEW n \in T PROVE n + 1 \in T
    <2> SUFFICES ASSUME n + 1 <= Len(q)
                 PROVE  \E f \in [1..(n + 1) -> Seq(S)] : Joins(f, q, n + 1)
        OBVIOUS
    <2>1. n \in Nat /\ n <= Len(q)
        BY <1>0
    <2>2. PICK f \in [1..n -> Seq(S)] : Joins(f, q, n)
        BY <2>1
    <2> DEFINE last == IF n = 0 THEN q[1] ELSE f[n] \o q[n + 1]
               g == [i \in 1..(n + 1) |-> IF i <= n THEN f[i] ELSE last]
    <2>3. last \in Seq(S)
        <3>1. n + 1 \in 1..Len(q) /\ (n # 0 => n \in 1..n)
            BY <1>0, <2>1
        <3>2. CASE n = 0
            BY <1>0, <3>1, <3>2
        <3>3. CASE n # 0
            <4>1. f[n] \in Seq(S) /\ q[n + 1] \in Seq(S)
                BY <1>0, <2>2, <3>1, <3>3
            <4> QED
                BY <3>3, <4>1, ConcatProperties
        <3> QED
            BY <3>2, <3>3
    <2>4. g \in [1..(n + 1) -> Seq(S)]
        BY <2>1, <2>2, <2>3
    <2>5. ASSUME NEW i \in 1..(n + 1)
          PROVE  g[i] = IF i = 1 THEN q[i] ELSE g[i - 1] \o q[i]
        <3>1. CASE i <= n
            <4>1. i \in 1..n /\ (i # 1 => i - 1 \in 1..(n + 1) /\ i - 1 <= n)
                BY <2>1, <3>1
            <4>2. g[i] = f[i] /\ (i # 1 => g[i - 1] = f[i - 1])
                BY <3>1, <4>1
            <4>3. f[i] = IF i = 1 THEN q[i] ELSE f[i - 1] \o q[i]
                BY <2>2, <4>1 DEF Joins
            <4> HIDE DEF g
            <4> QED
                BY <4>2, <4>3
        <3>2. CASE i = n + 1
            <4>1. CASE n = 0
                BY <3>2, <4>1
            <4>2. CASE n # 0
                <5>1. n \in 1..(n + 1) /\ n <= n /\ ~(i <= n) /\ i # 1 /\ i - 1 = n
                    BY <2>1, <3>2, <4>2
                <5> QED
                    BY <3>2, <4>2, <5>1
            <4> QED
                BY <4>1, <4>2
        <3> QED
            BY <2>1, <3>1, <3>2
    <2> HIDE DEF g
    <2>6. Joins(g, q, n + 1)
        BY <2>5 DEF Joins
    <2> QED
        BY <2>4, <2>6
<1> HIDE DEF T
<1>3. T = Nat
    BY <1>1, <1>2, SetInduction DEF T
<1> QED
    BY <1>0, <1>3 DEF T

(* Two such functions agree as far as their sequences do. *)
LEMMA JoinsAgree ==
    ASSUME NEW p, NEW q, NEW f, NEW g, NEW n \in Nat, Joins(f, p, n), Joins(g, q, n),
           \A i \in 1..n : p[i] = q[i]
    PROVE  \A i \in 1..n : f[i] = g[i]
<1> DEFINE T == {i \in Nat : i \in 1..n => f[i] = g[i]}
<1>1. 0 \in T
    OBVIOUS
<1>2. ASSUME NEW i \in T PROVE i + 1 \in T
    <2> SUFFICES ASSUME i + 1 \in 1..n PROVE f[i + 1] = g[i + 1]
        OBVIOUS
    <2>1. i \in Nat /\ (i # 0 => i \in 1..n) /\ i + 1 - 1 = i /\ (i + 1 = 1 <=> i = 0)
        OBVIOUS
    <2>2. i # 0 => f[i] = g[i]
        BY <2>1
    <2>3. f[i + 1] = IF i = 0 THEN p[i + 1] ELSE f[i] \o p[i + 1]
        BY <2>1 DEF Joins
    <2>4. g[i + 1] = IF i = 0 THEN q[i + 1] ELSE g[i] \o q[i + 1]
        BY <2>1 DEF Joins
    <2> QED
        BY <2>2, <2>3, <2>4
<1> HIDE DEF T
<1>3. T = Nat
    BY <1>1, <1>2, SetInduction DEF T
<1> QED
    BY <1>3 DEF T

(* FlattenSeq of a sequence that is not empty is the last value of one. *)
LEMMA FlattenJoins ==
    ASSUME NEW S, NEW q \in Seq(Seq(S)), q # <<>>
    PROVE  \E f \in [1..Len(q) -> Seq(S)] : Joins(f, q, Len(q)) /\ FlattenSeq(q) = f[Len(q)]
<1> DEFINE flatten == CHOOSE f : f = [i \in 1..Len(q) |-> IF i = 1 THEN q[i] ELSE f[i - 1] \o q[i]]
<1>0. Len(q) \in Nat \ {0}
    BY EmptySeq
<1>1. FlattenSeq(q) = flatten[Len(q)]
    BY <1>0 DEF FlattenSeq
<1>2. PICK f \in [1..Len(q) -> Seq(S)] : Joins(f, q, Len(q))
    BY JoinsExists
<1>3. f = [i \in 1..Len(q) |-> IF i = 1 THEN q[i] ELSE f[i - 1] \o q[i]]
    BY <1>2 DEF Joins
<1>4. flatten = [i \in 1..Len(q) |-> IF i = 1 THEN q[i] ELSE flatten[i - 1] \o q[i]]
    BY <1>3
<1>5. Joins(flatten, q, Len(q))
    BY <1>4 DEF Joins
<1> HIDE DEF flatten
<1>6. Len(q) \in 1..Len(q)
    BY <1>0
<1>7. flatten[Len(q)] = f[Len(q)]
    BY <1>0, <1>2, <1>5, <1>6, JoinsAgree
<1> QED
    BY <1>1, <1>2, <1>7

(* Nothing is nothing. *)
LEMMA FlattenEmpty == FlattenSeq(<<>>) = <<>>
BY EmptySeq DEF FlattenSeq

(* What comes of sequences over S is a sequence over S. *)
LEMMA FlattenTyped ==
    ASSUME NEW S, NEW q \in Seq(Seq(S))
    PROVE  FlattenSeq(q) \in Seq(S)
<1>1. CASE q = <<>>
    BY <1>1, FlattenEmpty, EmptySeq
<1>2. CASE q # <<>>
    <2>1. PICK f \in [1..Len(q) -> Seq(S)] : FlattenSeq(q) = f[Len(q)]
        BY <1>2, FlattenJoins
    <2>2. Len(q) \in 1..Len(q)
        BY <1>2, EmptySeq
    <2> QED
        BY <2>1, <2>2
<1> QED
    BY <1>1, <1>2

(* One more sequence at the end. *)
LEMMA FlattenAppend ==
    ASSUME NEW S, NEW q \in Seq(Seq(S)), NEW s \in Seq(S)
    PROVE  FlattenSeq(Append(q, s)) = FlattenSeq(q) \o s
<1> DEFINE a == Append(q, s)
<1>1. /\ a \in Seq(Seq(S)) /\ Len(a) = Len(q) + 1 /\ Len(q) \in Nat
      /\ a[Len(q) + 1] = s /\ \A i \in 1..Len(q) : a[i] = q[i]
    OBVIOUS
<1> HIDE DEF a
<1>2. a # <<>>
    BY <1>1, EmptySeq
<1>3. PICK g \in [1..Len(a) -> Seq(S)] : Joins(g, a, Len(a)) /\ FlattenSeq(a) = g[Len(a)]
    BY <1>1, <1>2, FlattenJoins
<1>4. Len(a) \in 1..Len(a)
    BY <1>1
<1>5. g[Len(a)] = IF Len(a) = 1 THEN s ELSE g[Len(a) - 1] \o s
    BY <1>1, <1>3, <1>4 DEF Joins
<1>6. CASE q = <<>>
    <2>1. Len(a) = 1
        BY <1>1, <1>6, EmptySeq
    <2> QED
        BY <1>3, <1>5, <1>6, <2>1, FlattenEmpty, ConcatEmptySeq DEF a
<1>7. CASE q # <<>>
    <2>1. Len(q) \in Nat \ {0}
        BY <1>7, EmptySeq
    <2>2. PICK f \in [1..Len(q) -> Seq(S)] : Joins(f, q, Len(q)) /\ FlattenSeq(q) = f[Len(q)]
        BY <1>7, FlattenJoins
    <2>3. 1..Len(q) \subseteq 1..Len(a)
        BY <1>1
    <2>4. Joins(g, a, Len(q))
        BY <1>3, <2>3 DEF Joins
    <2>5. \A i \in 1..Len(q) : g[i] = f[i]
        <3>1. Joins(f, q, Len(q)) /\ Len(q) \in Nat
            BY <1>1, <2>2
        <3>2. \A i \in 1..Len(q) : a[i] = q[i]
            BY <1>1
        <3> QED
            BY <2>4, <3>1, <3>2, JoinsAgree
    <2>6. g[Len(q)] = FlattenSeq(q)
        BY <2>1, <2>2, <2>5
    <2>7. Len(a) # 1 /\ Len(a) - 1 = Len(q)
        BY <1>1, <2>1
    <2> QED
        BY <1>3, <1>5, <2>6, <2>7 DEF a
<1> QED
    BY <1>6, <1>7

(* One more sequence at the head. *)
LEMMA FlattenCons ==
    ASSUME NEW S, NEW q \in Seq(Seq(S)), NEW s \in Seq(S)
    PROVE  FlattenSeq(<<s>> \o q) = s \o FlattenSeq(q)
<1> DEFINE a == <<s>> \o q
<1>1. /\ a \in Seq(Seq(S)) /\ Len(a) = Len(q) + 1 /\ Len(q) \in Nat
      /\ a[1] = s /\ \A i \in 1..Len(q) : a[i + 1] = q[i]
    OBVIOUS
<1> HIDE DEF a
<1>0. \A x, y \in Seq(S) : (s \o x) \o y = s \o (x \o y)
    BY ConcatAssociative
<1>2. a # <<>>
    BY <1>1, EmptySeq
<1>3. PICK g \in [1..Len(a) -> Seq(S)] : Joins(g, a, Len(a)) /\ FlattenSeq(a) = g[Len(a)]
    BY <1>1, <1>2, FlattenJoins
<1>4. /\ g[1] = s
      /\ \A i \in Nat \ {0} : i <= Len(q) => g[i + 1] = g[i] \o q[i]
    <2>1. \A i \in 1..Len(a) : g[i] = IF i = 1 THEN a[i] ELSE g[i - 1] \o a[i]
        BY <1>3 DEF Joins
    <2>2. 1 \in 1..Len(a) /\ a[1] = s
        BY <1>1
    <2>3. ASSUME NEW i \in Nat \ {0}, i <= Len(q)
          PROVE  g[i + 1] = g[i] \o q[i]
        <3> DEFINE k == i + 1
        <3>1. k \in 1..Len(a) /\ k # 1 /\ k - 1 = i /\ i \in 1..Len(q)
            BY <1>1, <2>3
        <3>2. a[k] = q[i]
            BY <1>1, <3>1
        <3> HIDE DEF k
        <3>3. g[k] = g[k - 1] \o a[k]
            BY <2>1, <3>1
        <3>4. g[k] = g[i] \o q[i]
            BY <3>1, <3>2, <3>3
        <3> QED
            BY <3>4 DEF k
    <2> QED
        BY <2>1, <2>2, <2>3
<1>5. CASE q = <<>>
    <2>1. Len(a) = 1
        BY <1>1, <1>5, EmptySeq
    <2> QED
        BY <1>3, <1>4, <1>5, <2>1, FlattenEmpty, ConcatEmptySeq DEF a
<1>6. CASE q # <<>>
    <2>1. Len(q) \in Nat \ {0}
        BY <1>6, EmptySeq
    <2>2. PICK f \in [1..Len(q) -> Seq(S)] : Joins(f, q, Len(q)) /\ FlattenSeq(q) = f[Len(q)]
        BY <1>6, FlattenJoins
    <2> DEFINE T == {i \in Nat : i \in 1..Len(q) => g[i + 1] = s \o f[i]}
    <2>3. 0 \in T
        OBVIOUS
    <2>4. ASSUME NEW i \in T PROVE i + 1 \in T
        <3> USE <2>4
        <3>0. i \in Nat /\ i + 1 \in Nat
            OBVIOUS
        <3> SUFFICES ASSUME i + 1 \in 1..Len(q)
                     PROVE  g[i + 1 + 1] = s \o f[i + 1]
            BY <3>0, Zenon
        <3>1. i \in Nat /\ (i # 0 => i \in 1..Len(q)) /\ i + 1 - 1 = i /\ (i + 1 = 1 <=> i = 0)
            <4>1. Len(q) \in Nat
                BY <1>1
            <4> HIDE DEF T
            <4> QED
                BY <3>0, <4>1
        <3>2. g[i + 1 + 1] = g[i + 1] \o q[i + 1]
            <4>1. i + 1 \in Nat \ {0} /\ i + 1 <= Len(q)
                BY <3>1
            <4> QED
                BY <1>4, <4>1
        <3>3. f[i + 1] = IF i = 0 THEN q[i + 1] ELSE f[i] \o q[i + 1]
            <4> DEFINE k == i + 1
            <4>1. k \in 1..Len(q) /\ k - 1 = i /\ (k = 1 <=> i = 0)
                BY <3>1
            <4> HIDE DEF k
            <4>2. f[k] = IF k = 1 THEN q[k] ELSE f[k - 1] \o q[k]
                BY <2>2, <4>1 DEF Joins
            <4>3. f[k] = IF i = 0 THEN q[k] ELSE f[i] \o q[k]
                BY <4>1, <4>2
            <4> QED
                BY <4>3 DEF k
        <3>4. CASE i = 0
            <4>1. 0 + 1 = 1
                OBVIOUS
            <4>2. f[i + 1] = q[i + 1]
                BY <3>3, <3>4
            <4> QED
                BY <1>4, <3>2, <3>4, <4>1, <4>2
        <3>5. CASE i # 0
            <4>1. g[i + 1] = s \o f[i]
                BY <3>1, <3>5
            <4>2. f[i] \in Seq(S) /\ q[i + 1] \in Seq(S)
                <5>1. f \in [1..Len(q) -> Seq(S)] /\ i \in 1..Len(q) /\ i + 1 \in 1..Len(q)
                    BY <2>2, <3>1, <3>5
                <5> QED
                    BY <5>1, ElementOfSeq
            <4>3. f[i + 1] = f[i] \o q[i + 1]
                BY <3>3, <3>5
            <4>4. (s \o f[i]) \o q[i + 1] = s \o (f[i] \o q[i + 1])
                <5> DEFINE x == f[i]
                           y == q[i + 1]
                <5>1. x \in Seq(S) /\ y \in Seq(S)
                    BY <4>2
                <5> HIDE DEF x, y
                <5>2. (s \o x) \o y = s \o (x \o y)
                    BY <1>0, <5>1
                <5> QED
                    BY <5>2 DEF x, y
            <4> QED
                BY <3>2, <4>1, <4>3, <4>4
        <3> QED
            BY <3>4, <3>5
    <2> HIDE DEF T
    <2>5. T = Nat
        BY <2>3, <2>4, SetInduction DEF T
    <2>6. g[Len(q) + 1] = s \o f[Len(q)]
        <3>1. Len(q) \in T /\ Len(q) \in 1..Len(q)
            BY <2>1, <2>5
        <3> QED
            BY <3>1 DEF T
    <2> QED
        BY <1>1, <1>3, <2>2, <2>6 DEF a
<1> QED
    BY <1>5, <1>6

(* The first sequence and the rest. *)
LEMMA FlattenHeadTail ==
    ASSUME NEW S, NEW q \in Seq(Seq(S)), q # <<>>
    PROVE  FlattenSeq(q) = Head(q) \o FlattenSeq(Tail(q))
<1>1. Head(q) \in Seq(S) /\ Tail(q) \in Seq(Seq(S)) /\ q = <<Head(q)>> \o Tail(q)
    OBVIOUS
<1> QED
    BY <1>1, FlattenCons

-----------------------------------------------------------------------------
(* The socket and its session.                                                 *)

Known == {"queued", "active"}       \* to the world thread
Reporting == {"malformed", "report", "crashed"}
OnSocket == {"auth", "addSession", "packet", "ping", "pong", "close", "unregister"}
            \union Reporting

(* Before the acceptor registers the socket there is no session, and before it *)
(* has a buffer the network thread cannot come to use one.                     *)
Opening ==
    /\ open \in {"start", "managed", "ready", "failed"} =>
          ~registered /\ m_Session = NoSession /\ \A s \in Session : session[s] = "none"
    /\ open = "start" => managed = "no"
    /\ open = "managed" => m_OutActive
    /\ net = "output" => open \notin {"start", "managed"}

(* The network thread is in a function of the socket for its reactor, or for   *)
(* its own loop; either holds a reference.                                     *)
Network ==
    /\ net = "reactor" => caller = "loop"
    /\ net \in OnSocket => caller # "loop"
    /\ net \in {"drop", "dropping"} => caller = "loop"
    /\ net # "reactor" => IF caller = "loop" THEN managed = "yes" ELSE registered
    /\ net = "unregister" => closing_
    /\ closer[Net] # "idle" => net = "dropping"
    /\ net = "dropping" /\ closer[Net] # "first" => closing_

(* Sessions are created in their order, hold the socket until they are         *)
(* deleted, and only a socket that is closed can have two.                     *)
Sessions ==
    /\ m_Socket = {s \in Session : session[s] \notin {"none", "deleted"}}
    /\ \E n \in 0..MaxSessions : \A s \in Session : session[s] # "none" <=> s <= n
    /\ ~closing_ => \A s \in Session : session[s] # "none" => s = m_Session
    /\ ~closing_ /\ m_Session # NoSession /\ net \notin {"addSession", "close"} \union Reporting
          => session[m_Session] \in Known
    /\ world # NoSession => session[world] \in Known

(* One thread passes the first section of CloseSocket with the socket open,    *)
(* and until it has passed the second the session that m_Session points to     *)
(* cannot be deleted; afterwards only the network thread can set it again.     *)
Closing ==
    /\ \A t \in Closer : closer[t] = "second" => closing_
    /\ \A t, u \in Closer : closer[t] = "second" /\ closer[u] = "second" => t = u
    /\ \A t \in Game : closer[t] = "second" /\ registered => m_Session # NoSession
    /\ net = "addSession" => \A t \in Closer : closer[t] # "second"
    /\ closing_ /\ m_Session # NoSession =>
          \/ \E t \in Closer : closer[t] = "second"
          \/ net \in {"addSession", "close", "unregister"} \union Reporting
          \/ net = "update" /\ caller # "loop"

(* A thread of the game that closes the socket does so for a session that      *)
(* cannot be deleted meanwhile.                                                *)
GameThreads ==
    /\ \A t \in Game : closer[t] # "idle" =>
          /\ m_Socket # {}
          /\ ~closing_ => m_Session # NoSession /\ session[m_Session] \in Known
    /\ closer[World] # "idle" \/ world # NoSession => \A w \in Worker : closer[w] = "idle"
    /\ world # NoSession /\ closer[World] = "idle" => closing_

(* Types of what the threads share, but for the packets. *)
Typed ==
    /\ open \in {"start", "managed", "ready", "registered", "done", "failed"}
    /\ closing_ \in BOOLEAN /\ registered \in BOOLEAN
    /\ managed \in {"no", "new", "yes", "dropped"}
    /\ net \in {"reactor", "update", "output", "auth", "addSession", "packet", "ping", "pong",
                "malformed", "report", "crashed", "close", "unregister", "drop", "dropping"}
    /\ caller \in {"input", "reactor", "loop"}
    /\ closer \in [Closer -> {"idle", "first", "second"}]
    /\ m_Session \in Session \union {NoSession}
    /\ session \in [Session -> {"none", "created", "queued", "active", "deleted"}]
    /\ m_Socket \subseteq Session
    /\ world \in Session \union {NoSession}

Control == Typed /\ Opening /\ Network /\ Sessions /\ Closing /\ GameThreads
           /\ LockKeepsSession /\ OneOwnerEach

-----------------------------------------------------------------------------
(* What output does to the rest: the network thread goes on. *)
LEMMA OutputControl ==
    HandleOutput => /\ net = "output" /\ ~closing_ /\ UNCHANGED OutputVars
                    /\ \/ NetReaches("reactor") \/ NetReaches("output") \/ NetReaches(Failure)
<1> USE DEF Sends
<1> SUFFICES ASSUME HandleOutput
             PROVE  NetReaches("reactor") \/ NetReaches("output") \/ NetReaches(Failure)
    BY DEF HandleOutput
<1>1. ASSUME NEW cells, NEW least, DrainQueue(cells, least)
      PROVE  NetReaches("reactor") \/ NetReaches("output") \/ NetReaches(Failure)
    BY <1>1 DEF DrainQueue
<1>2. \/ \E least : DrainQueue(<<>>, least)
      \/ \E n, size : Sends(SubSeq(m_OutBuffer, 1, n), SubSeq(m_OutBuffer, n + 1, size),
                            msg_queue, Scheduled, "reactor")
      \/ DrainQueue(m_OutBuffer, 0)
    BY DEF HandleOutput
<1> QED
    BY <1>1, <1>2

(* The threads that may close the socket are the network thread and those of   *)
(* the game.                                                                   *)
LEMMA Threads == /\ World \in Game /\ World \notin Worker /\ Worker \subseteq Game
                 /\ Net \in Closer /\ Net \notin Game /\ Game \subseteq Closer
BY SocketAssumption DEF Game, Closer

(* A session that sends may begin to close the socket; it is open until then.  *)
LEMMA SendsControl ==
    ASSUME NEW t, NEW s, SessionSends(t, s)
    PROVE  /\ Runs(t) /\ InGame(s) /\ ~closing_
           /\ closer' = closer \/ closer' = [closer EXCEPT ![t] = "first"]
           /\ UNCHANGED <<GameVars, sessionVars>>
<1>1. PICK size \in PacketSizes :
         /\ SendPacket(size)
         /\ closer' = IF Refused(size) THEN [closer EXCEPT ![t] = "first"] ELSE closer
    BY DEF SessionSends
<1>2. closer' = closer \/ closer' = [closer EXCEPT ![t] = "first"]
    BY <1>1
<1>3. ~closing_
    BY <1>1 DEF SendPacket
<1> QED
    BY <1>2, <1>3 DEF SessionSends

(* Update fails on a closed socket, has nothing to do, or comes to the buffer. *)
LEMMA UpdateControl ==
    Update => /\ net = "update"
              /\ UNCHANGED <<OutputVars, m_OutBuffer, msg_queue, m_OutActive, writeMask, wire>>
              /\ \/ closing_ /\ NetReaches(Failure)
                 \/ ~closing_ /\ NetReaches("reactor")
                 \/ ~closing_ /\ ~m_OutActive /\ NetReaches("output")
<1> SUFFICES ASSUME Update
             PROVE  \/ closing_ /\ NetReaches(Failure)
                    \/ ~closing_ /\ NetReaches("reactor")
                    \/ ~closing_ /\ ~m_OutActive /\ NetReaches("output")
    BY DEF Update, NetGoes
<1>1. CASE closing_
    BY <1>1 DEF Update, NetGoes
<1>2. CASE ~closing_ /\ HasNothing
    BY <1>2 DEF Update, NetGoes
<1>3. CASE ~closing_ /\ ~HasNothing
    BY <1>3 DEF Update, NetGoes, HasNothing
<1> QED
    BY <1>1, <1>2, <1>3

(* The sessions are numbered as they are created: the next one is new. *)
LEMMA NextSession ==
    ASSUME Typed, Sessions, NEW s \in Session, AuthSucceeds(s)
    PROVE  /\ session[s] = "none" /\ s \notin m_Socket /\ s - 1 \in 0..MaxSessions
           /\ \A r \in Session : session[r] # "none" <=> r <= s - 1
<1>1. PICK n \in 0..MaxSessions : \A r \in Session : session[r] # "none" <=> r <= n
    BY DEF Sessions
<1>2. {r \in Session : session[r] # "none"} = 1..n
    BY <1>1, SocketAssumption DEF Session
<1>3. Cardinality(1..n) = n
    <2>1. n \in Int /\ 1 \in Int
        BY SocketAssumption
    <2>2. Cardinality(1..n) = IF 1 > n THEN 0 ELSE n - 1 + 1
        BY <2>1, FS_Interval
    <2> QED
        BY <2>1, <2>2, SocketAssumption
<1>4. s = n + 1
    BY <1>2, <1>3 DEF AuthSucceeds
<1>5. \A r \in Session : session[r] # "none" <=> r <= s - 1
    BY <1>1, <1>4, SocketAssumption
<1>6. session[s] = "none"
    BY <1>1, <1>4, SocketAssumption DEF Session
<1> QED
    BY <1>1, <1>4, <1>5, <1>6, SocketAssumption DEF Sessions

(* The sessions that hold the socket are finitely many. *)
LEMMA HoldersFinite ==
    ASSUME NEW S, S \subseteq Session
    PROVE  IsFiniteSet(S) /\ Cardinality(S) \in Nat
<1>1. IsFiniteSet(Session)
    BY SocketAssumption, FS_Interval DEF Session
<1> QED
    BY <1>1, FS_Subset, FS_CardinalityType

(* Types of what the threads share. *)
LEMMA TypedStep == ASSUME Control, [Next]_vars PROVE Typed'
<1> USE DEF Control, Reporting, socketVars, reactorVars, outVars, netVars, sessionVars, OpenVars,
           GameVars, InputVars, OutputVars, LoopVars, vars, Begins, NetGoes, NetReaches
<1>0. CASE UNCHANGED vars
    BY <1>0 DEF Typed
<1>1. CASE OpenFails
    BY <1>1 DEF OpenFails, Typed
<1>2. CASE OpenManaged
    BY <1>2 DEF OpenManaged, Typed
<1>3. CASE OpenReady
    <2>1. open' \in {"failed", "ready"} /\ closing_' \in BOOLEAN
        BY <1>3 DEF OpenReady, Typed
    <2>2. UNCHANGED <<registered, managed, net, caller, closer, m_Session, session, m_Socket, world>>
        BY <1>3 DEF OpenReady
    <2> QED
        BY <2>1, <2>2 DEF Typed
<1>4. CASE OpenRegistered
    BY <1>4 DEF OpenRegistered, Typed
<1>5. CASE OpenDone
    BY <1>5 DEF OpenDone, Typed
<1>6. ASSUME NEW t \in Closer, CloseWriter(t) PROVE Typed'
    BY <1>6 DEF CloseWriter, Typed
<1>7. ASSUME NEW t \in Closer, ForgetSession(t) PROVE Typed'
    BY <1>7 DEF ForgetSession, Typed
<1>8. ASSUME NEW t \in Game, NEW s \in Session, SessionSends(t, s) PROVE Typed'
    BY <1>8, SendsControl, Threads DEF Typed
<1>9. ASSUME NEW t \in Game, NEW s \in Session, Kick(t, s) PROVE Typed'
    <2>1. /\ closer' = [closer EXCEPT ![t] = "first"]
          /\ UNCHANGED <<open, closing_, registered, managed, net, caller, m_Session, session,
                         m_Socket, world>>
        BY <1>9 DEF Kick
    <2>2. closer' \in [Closer -> {"idle", "first", "second"}]
        BY <2>1 DEF Typed
    <2> QED
        BY <2>1, <2>2 DEF Typed
<1>10. ASSUME NEW s \in Session, TakeSession(s) PROVE Typed'
    BY <1>10 DEF TakeSession, Typed
<1>11. ASSUME NEW s \in Session, DiscardSession(s) PROVE Typed'
    BY <1>11, Threads DEF DiscardSession, Typed
<1>12. CASE SessionDiscarded
    BY <1>12 DEF SessionDiscarded, DeletesSession, Typed
<1>13. ASSUME NEW s \in Session, UpdateSession(s) PROVE Typed'
    BY <1>13 DEF UpdateSession, DeletesSession, Typed
<1>14. CASE Receive
    BY <1>14 DEF Receive, Typed
<1>15. CASE InputFails
    BY <1>15 DEF InputFails, Typed
<1>16. CASE AuthFails
    BY <1>16 DEF AuthFails, Typed
<1>17. ASSUME NEW s \in Session, AuthSucceeds(s) PROVE Typed'
    BY <1>17 DEF AuthSucceeds, Typed
<1>18. CASE AddSession
    BY <1>18 DEF AddSession, Typed
<1>19. CASE QueuePacket
    BY <1>19 DEF QueuePacket, Typed
<1>20. CASE SetLatency
    BY <1>20 DEF SetLatency, Typed
<1>21. CASE Pong
    BY <1>21 DEF Pong, Typed
<1>22. CASE HandleClose
    BY <1>22 DEF HandleClose, Typed
<1>23. CASE Unregister
    BY <1>23 DEF Unregister, Typed
<1>24. CASE Update
    BY <1>24, UpdateControl DEF Failure, Typed
<1>25. CASE ReactorOutput
    BY <1>25 DEF ReactorOutput, Typed
<1>26. CASE HandleOutput
    BY <1>26, OutputControl DEF Failure, Typed
<1>27. CASE OutputFails
    BY <1>27 DEF OutputFails, Failure, Typed
<1>28. CASE AddNewSockets
    BY <1>28 DEF AddNewSockets, Typed
<1>29. CASE StartDrop
    BY <1>29 DEF StartDrop, Typed
<1>30. CASE Drop
    BY <1>30 DEF Drop, Typed
<1>31. CASE ClientLeaves
    BY <1>31 DEF ClientLeaves, Typed
<1>32. CASE Gone
    BY <1>0, <1>32 DEF Gone
<1>33. CASE TestSession
    BY <1>33 DEF TestSession, Typed
<1>34. CASE Report
    BY <1>34 DEF Report, Typed
<1>35. CASE AddonsFail
    BY <1>35 DEF AddonsFail, Typed
<1> QED
    BY <1>0, <1>1, <1>2, <1>3, <1>4, <1>5, <1>6, <1>7, <1>8, <1>9, <1>10, <1>11, <1>12,
       <1>13, <1>14, <1>15, <1>16, <1>17, <1>18, <1>19, <1>20, <1>21, <1>22, <1>23, <1>24,
       <1>25, <1>26, <1>27, <1>28, <1>29, <1>30, <1>31, <1>32, <1>33, <1>34, <1>35
       DEF Next, Open, CloseSocket,
       UpdateSessions, NetworkWork

(* What holds while the socket is opened. *)
LEMMA OpeningStep == ASSUME Control, [Next]_vars PROVE Opening'
<1> USE DEF Control, Reporting, socketVars, reactorVars, outVars, netVars, sessionVars, OpenVars,
           GameVars, InputVars, OutputVars, LoopVars, vars, Begins, NetGoes, NetReaches
<1>0. CASE UNCHANGED vars
    BY <1>0 DEF Opening
<1>1. CASE OpenFails
    BY <1>1 DEF OpenFails, Opening
<1>2. CASE OpenManaged
    BY <1>2 DEF OpenManaged, HoldUpdates, Opening
<1>3. CASE OpenReady
    BY <1>3 DEF OpenReady, Opening
<1>4. CASE OpenRegistered
    BY <1>4 DEF OpenRegistered, Opening
<1>5. CASE OpenDone
    BY <1>5 DEF OpenDone, Opening
<1>6. ASSUME NEW t \in Closer, CloseWriter(t) PROVE Opening'
    BY <1>6 DEF CloseWriter, Opening
<1>7. ASSUME NEW t \in Closer, ForgetSession(t) PROVE Opening'
    BY <1>7 DEF ForgetSession, Opening
<1>8. ASSUME NEW t \in Game, NEW s \in Session, SessionSends(t, s) PROVE Opening'
    BY <1>8, SendsControl, Threads DEF Opening
<1>9. ASSUME NEW t \in Game, NEW s \in Session, Kick(t, s) PROVE Opening'
    BY <1>9 DEF Kick, Opening
<1>10. ASSUME NEW s \in Session, TakeSession(s) PROVE Opening'
    BY <1>10 DEF TakeSession, Opening
<1>11. ASSUME NEW s \in Session, DiscardSession(s) PROVE Opening'
    BY <1>11 DEF DiscardSession, Opening
<1>12. CASE SessionDiscarded
    <2>1. world \in Session /\ session[world] # "none"
        BY <1>12 DEF SessionDiscarded, Typed, Sessions, Known
    <2>2. open \notin {"start", "managed", "ready", "failed"}
        BY <2>1 DEF Opening
    <2> QED
        BY <1>12, <2>2 DEF SessionDiscarded, DeletesSession, Opening
<1>13. ASSUME NEW s \in Session, UpdateSession(s) PROVE Opening'
    BY <1>13 DEF UpdateSession, DeletesSession, Opening
<1>14. CASE Receive
    BY <1>14 DEF Receive, Opening
<1>15. CASE InputFails
    BY <1>15 DEF InputFails, Opening
<1>16. CASE AuthFails
    BY <1>16 DEF AuthFails, Opening
<1>17. ASSUME NEW s \in Session, AuthSucceeds(s) PROVE Opening'
    <2>1. registered
        BY <1>17 DEF AuthSucceeds, Network, OnSocket
    <2>2. open \notin {"start", "managed", "ready", "failed"}
        BY <2>1 DEF Opening
    <2> QED
        BY <1>17, <2>2 DEF AuthSucceeds, Opening
<1>18. CASE AddSession
    <2>1. registered
        BY <1>18 DEF AddSession, Network, OnSocket
    <2>2. open \notin {"start", "managed", "ready", "failed"}
        BY <2>1 DEF Opening
    <2> QED
        BY <1>18, <2>2 DEF AddSession, Opening
<1>19. CASE QueuePacket
    BY <1>19 DEF QueuePacket, Opening
<1>20. CASE SetLatency
    BY <1>20 DEF SetLatency, Opening
<1>21. CASE Pong
    BY <1>21 DEF Pong, Opening
<1>22. CASE HandleClose
    BY <1>22 DEF HandleClose, Opening
<1>23. CASE Unregister
    BY <1>23 DEF Unregister, Opening
<1>24. CASE Update
    BY <1>24, UpdateControl DEF Failure, Opening, Network
<1>25. CASE ReactorOutput
    BY <1>25 DEF ReactorOutput, Opening
<1>26. CASE HandleOutput
    BY <1>26, OutputControl DEF Opening
<1>27. CASE OutputFails
    BY <1>27 DEF OutputFails, Opening
<1>28. CASE AddNewSockets
    BY <1>28 DEF AddNewSockets, Opening
<1>29. CASE StartDrop
    BY <1>29 DEF StartDrop, Opening
<1>30. CASE Drop
    BY <1>30 DEF Drop, Opening, Network
<1>31. CASE ClientLeaves
    BY <1>31 DEF ClientLeaves, Opening
<1>32. CASE Gone
    BY <1>0, <1>32 DEF Gone
<1>33. CASE TestSession
    BY <1>33 DEF TestSession, Opening
<1>34. CASE Report
    BY <1>34 DEF Report, Opening
<1>35. CASE AddonsFail
    BY <1>35 DEF AddonsFail, Opening
<1> QED
    BY <1>0, <1>1, <1>2, <1>3, <1>4, <1>5, <1>6, <1>7, <1>8, <1>9, <1>10, <1>11, <1>12,
       <1>13, <1>14, <1>15, <1>16, <1>17, <1>18, <1>19, <1>20, <1>21, <1>22, <1>23, <1>24,
       <1>25, <1>26, <1>27, <1>28, <1>29, <1>30, <1>31, <1>32, <1>33, <1>34, <1>35
       DEF Next, Open, CloseSocket,
       UpdateSessions, NetworkWork

(* Where the network thread is, and who holds the socket for it. *)
LEMMA NetworkStep == ASSUME Control, [Next]_vars PROVE Network'
<1> USE DEF Control, Reporting, socketVars, reactorVars, outVars, netVars, sessionVars, OpenVars,
           GameVars, InputVars, OutputVars, LoopVars, vars, Begins, NetGoes, NetReaches
<1>0. CASE UNCHANGED vars
    BY <1>0 DEF Network
<1>1. CASE OpenFails
    BY <1>1 DEF OpenFails, Network
<1>2. CASE OpenManaged
    BY <1>2 DEF OpenManaged, Network, Opening
<1>3. CASE OpenReady
    BY <1>3 DEF OpenReady, Network
<1>4. CASE OpenRegistered
    BY <1>4 DEF OpenRegistered, Network
<1>5. CASE OpenDone
    BY <1>5 DEF OpenDone, Network
<1>6. ASSUME NEW t \in Closer, CloseWriter(t) PROVE Network'
    BY <1>6 DEF CloseWriter, Network
<1>7. ASSUME NEW t \in Closer, ForgetSession(t) PROVE Network'
    BY <1>7 DEF ForgetSession, Network
<1>8. ASSUME NEW t \in Game, NEW s \in Session, SessionSends(t, s) PROVE Network'
    BY <1>8, SendsControl, Threads DEF Typed, Network
<1>9. ASSUME NEW t \in Game, NEW s \in Session, Kick(t, s) PROVE Network'
    BY <1>9, Threads DEF Kick, Network
<1>10. ASSUME NEW s \in Session, TakeSession(s) PROVE Network'
    BY <1>10 DEF TakeSession, Network
<1>11. ASSUME NEW s \in Session, DiscardSession(s) PROVE Network'
    BY <1>11, Threads DEF DiscardSession, Network
<1>12. CASE SessionDiscarded
    BY <1>12 DEF SessionDiscarded, DeletesSession, Network
<1>13. ASSUME NEW s \in Session, UpdateSession(s) PROVE Network'
    BY <1>13 DEF UpdateSession, DeletesSession, Network
<1>14. CASE Receive
    BY <1>14 DEF Receive, Network
<1>15. CASE InputFails
    BY <1>15 DEF InputFails, Network
<1>16. CASE AuthFails
    BY <1>16 DEF AuthFails, Network, OnSocket
<1>17. ASSUME NEW s \in Session, AuthSucceeds(s) PROVE Network'
    BY <1>17 DEF AuthSucceeds, Network, OnSocket
<1>18. CASE AddSession
    BY <1>18 DEF AddSession, Network, OnSocket
<1>19. CASE QueuePacket
    BY <1>19 DEF QueuePacket, Network, OnSocket
<1>20. CASE SetLatency
    BY <1>20 DEF SetLatency, Network, OnSocket
<1>21. CASE Pong
    BY <1>21 DEF Pong, Network, OnSocket
<1>22. CASE HandleClose
    BY <1>22 DEF HandleClose, Network, OnSocket
<1>23. CASE Unregister
    BY <1>23 DEF Unregister, Network, OnSocket
<1>24. CASE Update
    BY <1>24, UpdateControl DEF Failure, Network, OnSocket
<1>25. CASE ReactorOutput
    BY <1>25 DEF ReactorOutput, Network
<1>26. CASE HandleOutput
    BY <1>26, OutputControl DEF Failure, Network, OnSocket
<1>27. CASE OutputFails
    BY <1>27 DEF OutputFails, Failure, Network, OnSocket
<1>28. CASE AddNewSockets
    BY <1>28 DEF AddNewSockets, Network, OnSocket
<1>29. CASE StartDrop
    BY <1>29, Threads DEF StartDrop, Typed, Network, OnSocket
<1>30. CASE Drop
    BY <1>30 DEF Drop, Network, OnSocket
<1>31. CASE ClientLeaves
    BY <1>31 DEF ClientLeaves, Network
<1>32. CASE Gone
    BY <1>0, <1>32 DEF Gone
<1>33. CASE TestSession
    BY <1>33 DEF TestSession, Network, OnSocket
<1>34. CASE Report
    BY <1>34 DEF Report, Network, OnSocket
<1>35. CASE AddonsFail
    BY <1>35 DEF AddonsFail, Network, OnSocket
<1> QED
    BY <1>0, <1>1, <1>2, <1>3, <1>4, <1>5, <1>6, <1>7, <1>8, <1>9, <1>10, <1>11, <1>12,
       <1>13, <1>14, <1>15, <1>16, <1>17, <1>18, <1>19, <1>20, <1>21, <1>22, <1>23, <1>24,
       <1>25, <1>26, <1>27, <1>28, <1>29, <1>30, <1>31, <1>32, <1>33, <1>34, <1>35
       DEF Next, Open, CloseSocket,
       UpdateSessions, NetworkWork

(* The sessions of the socket. *)
LEMMA SessionsStep == ASSUME Control, [Next]_vars PROVE Sessions'
<1> USE DEF Control, Reporting, socketVars, reactorVars, outVars, netVars, sessionVars, OpenVars,
           GameVars, InputVars, OutputVars, LoopVars, vars, Begins, NetGoes, NetReaches
<1>0. CASE UNCHANGED vars
    BY <1>0 DEF Sessions
<1>1. CASE OpenFails
    BY <1>1 DEF OpenFails, Sessions
<1>2. CASE OpenManaged
    BY <1>2 DEF OpenManaged, Sessions
<1>3. CASE OpenReady
    BY <1>3 DEF OpenReady, Sessions
<1>4. CASE OpenRegistered
    BY <1>4 DEF OpenRegistered, Sessions
<1>5. CASE OpenDone
    BY <1>5 DEF OpenDone, Sessions
<1>6. ASSUME NEW t \in Closer, CloseWriter(t) PROVE Sessions'
    BY <1>6 DEF CloseWriter, Sessions
<1>7. ASSUME NEW t \in Closer, ForgetSession(t) PROVE Sessions'
    BY <1>7 DEF ForgetSession, Sessions, Closing
<1>8. ASSUME NEW t \in Game, NEW s \in Session, SessionSends(t, s) PROVE Sessions'
    BY <1>8, SendsControl, Threads DEF Sessions
<1>9. ASSUME NEW t \in Game, NEW s \in Session, Kick(t, s) PROVE Sessions'
    BY <1>9 DEF Kick, Sessions
<1>10. ASSUME NEW s \in Session, TakeSession(s) PROVE Sessions'
    BY <1>10 DEF TakeSession, Sessions, Known
<1>11. ASSUME NEW s \in Session, DiscardSession(s) PROVE Sessions'
    BY <1>11 DEF DiscardSession, Sessions, Known
<1>12. CASE SessionDiscarded
    BY <1>12 DEF SessionDiscarded, DeletesSession, Typed, Sessions, Known, GameThreads
<1>13. ASSUME NEW s \in Session, UpdateSession(s) PROVE Sessions'
    BY <1>13 DEF UpdateSession, DeletesSession, Typed, Sessions
<1>14. CASE Receive
    BY <1>14 DEF Receive, Sessions
<1>15. CASE InputFails
    BY <1>15 DEF InputFails, Sessions
<1>16. CASE AuthFails
    BY <1>16 DEF AuthFails, Sessions
<1>17. ASSUME NEW s \in Session, AuthSucceeds(s) PROVE Sessions'
    <2>1. /\ session[s] = "none" /\ s - 1 \in 0..MaxSessions
          /\ \A r \in Session : session[r] # "none" <=> r <= s - 1
        BY <1>17, NextSession
    <2>2. /\ session' = [session EXCEPT ![s] = "created"] /\ m_Session' = s
          /\ m_Socket' = m_Socket \union {s} /\ net' = "addSession"
          /\ UNCHANGED <<closing_, world>> /\ m_Session = NoSession
        BY <1>17 DEF AuthSucceeds
    <2>3. \A r \in Session : session'[r] # "none" <=> r <= s
        BY <2>1, <2>2, SocketAssumption DEF Typed, Session
    <2>4. s \in 0..MaxSessions
        BY SocketAssumption DEF Session
    <2>5. m_Socket' = {r \in Session : session'[r] \notin {"none", "deleted"}}
        BY <2>1, <2>2 DEF Typed, Sessions
    <2>6. ~closing_ => \A r \in Session : session[r] = "none"
        BY <2>2, SocketAssumption DEF Sessions, Session, NoSession
    <2>7. ~closing_' => \A r \in Session : session'[r] # "none" => r = m_Session'
        BY <2>2, <2>6
    <2>8. world' # NoSession => session'[world'] \in Known
        BY <2>1, <2>2 DEF Sessions, Known
    <2> QED
        BY <2>2, <2>3, <2>4, <2>5, <2>7, <2>8 DEF Sessions
<1>18. CASE AddSession
    <2>1. /\ session' = [session EXCEPT ![m_Session] = "queued"] /\ m_Session \in Session
          /\ session[m_Session] = "created"
          /\ UNCHANGED <<m_Socket, closing_, world, m_Session>>
        BY <1>18 DEF AddSession, Typed, LockKeepsSession
    <2>2. \A r \in Session : session'[r] # "none" <=> session[r] # "none"
        BY <2>1
    <2>3. m_Socket' = {r \in Session : session'[r] \notin {"none", "deleted"}}
        BY <2>1 DEF Sessions
    <2>4. \E n \in 0..MaxSessions : \A r \in Session : session'[r] # "none" <=> r <= n
        BY <2>2 DEF Sessions
    <2>5. world' # NoSession => session'[world'] \in Known
        BY <2>1 DEF Sessions, Known
    <2>6. session'[m_Session'] \in Known
        BY <2>1 DEF Typed, Known
    <2> QED
        BY <2>1, <2>2, <2>3, <2>4, <2>5, <2>6 DEF Sessions
<1>19. CASE QueuePacket
    BY <1>19 DEF QueuePacket, Sessions
<1>20. CASE SetLatency
    BY <1>20 DEF SetLatency, Sessions
<1>21. CASE Pong
    BY <1>21 DEF Pong, Sessions
<1>22. CASE HandleClose
    BY <1>22 DEF HandleClose, Sessions
<1>23. CASE Unregister
    BY <1>23 DEF Unregister, Sessions, Network
<1>24. CASE Update
    BY <1>24, UpdateControl DEF Sessions
<1>25. CASE ReactorOutput
    BY <1>25 DEF ReactorOutput, Sessions
<1>26. CASE HandleOutput
    BY <1>26, OutputControl DEF Sessions
<1>27. CASE OutputFails
    BY <1>27 DEF OutputFails, Sessions
<1>28. CASE AddNewSockets
    BY <1>28 DEF AddNewSockets, Sessions
<1>29. CASE StartDrop
    BY <1>29 DEF StartDrop, Sessions
<1>30. CASE Drop
    BY <1>30 DEF Drop, Sessions
<1>31. CASE ClientLeaves
    BY <1>31 DEF ClientLeaves, Sessions
<1>32. CASE Gone
    BY <1>0, <1>32 DEF Gone
<1>33. CASE TestSession
    BY <1>33 DEF TestSession, Sessions
<1>34. CASE Report
    BY <1>34 DEF Report, Sessions
<1>35. CASE AddonsFail
    BY <1>35 DEF AddonsFail, Sessions
<1> QED
    BY <1>0, <1>1, <1>2, <1>3, <1>4, <1>5, <1>6, <1>7, <1>8, <1>9, <1>10, <1>11, <1>12,
       <1>13, <1>14, <1>15, <1>16, <1>17, <1>18, <1>19, <1>20, <1>21, <1>22, <1>23, <1>24,
       <1>25, <1>26, <1>27, <1>28, <1>29, <1>30, <1>31, <1>32, <1>33, <1>34, <1>35
       DEF Next, Open, CloseSocket,
       UpdateSessions, NetworkWork

(* The two sections of CloseSocket. *)
LEMMA ClosingStep == ASSUME Control, [Next]_vars PROVE Closing'
<1> USE DEF Control, Reporting, socketVars, reactorVars, outVars, netVars, sessionVars, OpenVars,
           GameVars, InputVars, OutputVars, LoopVars, vars, Begins, NetGoes, NetReaches
<1>0. CASE UNCHANGED vars
    BY <1>0 DEF Closing
<1>1. CASE OpenFails
    BY <1>1 DEF OpenFails, Closing, Opening
<1>2. CASE OpenManaged
    BY <1>2 DEF OpenManaged, Closing
<1>3. CASE OpenReady
    BY <1>3 DEF OpenReady, Closing, Opening
<1>4. CASE OpenRegistered
    BY <1>4 DEF OpenRegistered, Closing, Sessions, Opening, GameThreads
<1>5. CASE OpenDone
    BY <1>5 DEF OpenDone, Closing
<1>6. ASSUME NEW t \in Closer, CloseWriter(t) PROVE Closing'
    <2>1. /\ closer[t] = "first" /\ closing_' = TRUE
          /\ closer' = [closer EXCEPT ![t] = IF closing_ THEN "idle" ELSE "second"]
          /\ UNCHANGED <<m_Session, net, caller, registered, session>>
        BY <1>6 DEF CloseWriter
    <2>2. CASE closing_
        BY <2>1, <2>2 DEF Closing
    <2>3. CASE ~closing_
        <3>1. \A u \in Closer : closer'[u] = IF u = t THEN "second" ELSE closer[u]
            BY <2>1, <2>3 DEF Typed
        <3>2. \A u \in Closer : closer'[u] = "second" <=> u = t
            BY <3>1, <2>3 DEF Closing
        <3>3. t \in Game => m_Session # NoSession /\ net # "addSession"
            BY <2>1, <2>3 DEF GameThreads, LockKeepsSession, Known
        <3>4. t \notin Game => net = "dropping"
            BY <2>1, Threads DEF Network, Closer
        <3> QED
            BY <2>1, <2>3, <3>2, <3>3, <3>4, Threads DEF Closing
    <2> QED
        BY <2>2, <2>3
<1>7. ASSUME NEW t \in Closer, ForgetSession(t) PROVE Closing'
    BY <1>7 DEF ForgetSession, Typed, Closing, Closer
<1>8. ASSUME NEW t \in Game, NEW s \in Session, SessionSends(t, s) PROVE Closing'
    BY <1>8, SendsControl, Threads DEF Typed, Closing
<1>9. ASSUME NEW t \in Game, NEW s \in Session, Kick(t, s) PROVE Closing'
    BY <1>9, Threads DEF Kick, Closing
<1>10. ASSUME NEW s \in Session, TakeSession(s) PROVE Closing'
    BY <1>10 DEF TakeSession, Closing
<1>11. ASSUME NEW s \in Session, DiscardSession(s) PROVE Closing'
    BY <1>11, Threads DEF DiscardSession, Runs, Closing
<1>12. CASE SessionDiscarded
    BY <1>12 DEF SessionDiscarded, DeletesSession, Closing
<1>13. ASSUME NEW s \in Session, UpdateSession(s) PROVE Closing'
    BY <1>13 DEF UpdateSession, DeletesSession, Closing
<1>14. CASE Receive
    BY <1>14 DEF Receive, Closing
<1>15. CASE InputFails
    BY <1>15 DEF InputFails, Closing
<1>16. CASE AuthFails
    BY <1>16 DEF AuthFails, Closing
<1>17. ASSUME NEW s \in Session, AuthSucceeds(s) PROVE Closing'
    BY <1>17, Threads DEF AuthSucceeds, Closing, Network, OnSocket, Closer
<1>18. CASE AddSession
    BY <1>18 DEF AddSession, Closing, Network, OnSocket
<1>19. CASE QueuePacket
    BY <1>19 DEF QueuePacket, Closing
<1>20. CASE SetLatency
    BY <1>20 DEF SetLatency, Closing
<1>21. CASE Pong
    BY <1>21 DEF Pong, Closing
<1>22. CASE HandleClose
    BY <1>22 DEF HandleClose, Closing
<1>23. CASE Unregister
    BY <1>23 DEF Unregister, Closing
<1>24. CASE Update
    BY <1>24, UpdateControl DEF Failure, Closing
<1>25. CASE ReactorOutput
    BY <1>25 DEF ReactorOutput, Closing
<1>26. CASE HandleOutput
    BY <1>26, OutputControl DEF Closing
<1>27. CASE OutputFails
    BY <1>27 DEF OutputFails, Failure, Closing
<1>28. CASE AddNewSockets
    BY <1>28 DEF AddNewSockets, Closing
<1>29. CASE StartDrop
    BY <1>29 DEF StartDrop, Closing, Network
<1>30. CASE Drop
    BY <1>30 DEF Drop, Closing
<1>31. CASE ClientLeaves
    BY <1>31 DEF ClientLeaves, Closing
<1>32. CASE Gone
    BY <1>0, <1>32 DEF Gone
<1>33. CASE TestSession
    BY <1>33 DEF TestSession, Closing
<1>34. CASE Report
    BY <1>34 DEF Report, Closing
<1>35. CASE AddonsFail
    BY <1>35 DEF AddonsFail, Closing
<1> QED
    BY <1>0, <1>1, <1>2, <1>3, <1>4, <1>5, <1>6, <1>7, <1>8, <1>9, <1>10, <1>11, <1>12,
       <1>13, <1>14, <1>15, <1>16, <1>17, <1>18, <1>19, <1>20, <1>21, <1>22, <1>23, <1>24,
       <1>25, <1>26, <1>27, <1>28, <1>29, <1>30, <1>31, <1>32, <1>33, <1>34, <1>35
       DEF Next, Open, CloseSocket,
       UpdateSessions, NetworkWork

(* The threads of the game. *)
LEMMA GameThreadsStep == ASSUME Control, [Next]_vars PROVE GameThreads'
<1> USE DEF Control, Reporting, socketVars, reactorVars, outVars, netVars, sessionVars, OpenVars,
           GameVars, InputVars, OutputVars, LoopVars, vars, Begins, NetGoes, NetReaches
<1>0. CASE UNCHANGED vars
    BY <1>0 DEF GameThreads
<1>1. CASE OpenFails
    BY <1>1 DEF OpenFails, GameThreads
<1>2. CASE OpenManaged
    BY <1>2 DEF OpenManaged, GameThreads
<1>3. CASE OpenReady
    BY <1>3 DEF OpenReady, GameThreads
<1>4. CASE OpenRegistered
    BY <1>4 DEF OpenRegistered, GameThreads
<1>5. CASE OpenDone
    BY <1>5 DEF OpenDone, GameThreads
<1>6. ASSUME NEW t \in Closer, CloseWriter(t) PROVE GameThreads'
    BY <1>6 DEF CloseWriter, GameThreads
<1>7. ASSUME NEW t \in Closer, ForgetSession(t) PROVE GameThreads'
    BY <1>7 DEF ForgetSession, GameThreads, Closing
<1>8. ASSUME NEW t \in Game, NEW s \in Session, SessionSends(t, s) PROVE GameThreads'
    <2>1. /\ closer' = closer \/ closer' = [closer EXCEPT ![t] = "first"]
          /\ Runs(t) /\ InGame(s) /\ ~closing_
          /\ UNCHANGED <<m_Session, m_Socket, session, world, closing_>>
        BY <1>8, SendsControl
    <2>2. m_Socket # {} /\ m_Session # NoSession /\ session[m_Session] \in Known
        BY <2>1, SocketAssumption DEF InGame, Sessions, Known, Session, NoSession
    <2>3. world = NoSession
        BY <2>1 DEF Runs
    <2>4. (closer[World] = "idle" \/ t = World) /\ (t = World => \A w \in Worker : closer[w] = "idle")
        BY <2>1 DEF Runs
    <2> QED
        BY <2>1, <2>2, <2>3, <2>4, Threads DEF GameThreads, Typed
<1>9. ASSUME NEW t \in Game, NEW s \in Session, Kick(t, s) PROVE GameThreads'
    <2>1. /\ closer' = [closer EXCEPT ![t] = "first"]
          /\ Runs(t) /\ InGame(s) /\ ~closing_
          /\ UNCHANGED <<m_Session, m_Socket, session, world, closing_>>
        BY <1>9 DEF Kick
    <2>2. m_Socket # {} /\ m_Session # NoSession /\ session[m_Session] \in Known
        BY <2>1, SocketAssumption DEF InGame, Sessions, Known, Session, NoSession
    <2>3. world = NoSession
        BY <2>1 DEF Runs
    <2>4. (closer[World] = "idle" \/ t = World) /\ (t = World => \A w \in Worker : closer[w] = "idle")
        BY <2>1 DEF Runs
    <2> QED
        BY <2>1, <2>2, <2>3, <2>4, Threads DEF GameThreads
<1>10. ASSUME NEW s \in Session, TakeSession(s) PROVE GameThreads'
    BY <1>10 DEF TakeSession, GameThreads, Known
<1>11. ASSUME NEW s \in Session, DiscardSession(s) PROVE GameThreads'
    <2>1. /\ closer' = [closer EXCEPT ![World] = "first"] /\ world' = s
          /\ session[s] \in Known /\ \A w \in Worker : closer[w] = "idle"
          /\ UNCHANGED <<m_Session, m_Socket, session, closing_>>
        BY <1>11 DEF DiscardSession, Runs, Known
    <2>2. m_Socket # {} /\ (~closing_ => m_Session # NoSession /\ session[m_Session] \in Known)
        BY <2>1, SocketAssumption DEF Sessions, Known, Session, NoSession
    <2>3. closer'[World] = "first" /\ \A w \in Worker : closer'[w] = "idle"
        BY <2>1, Threads DEF Typed
    <2> QED
        BY <2>1, <2>2, <2>3, Threads DEF GameThreads
<1>12. CASE SessionDiscarded
    BY <1>12 DEF SessionDiscarded, DeletesSession, GameThreads, Game
<1>13. ASSUME NEW s \in Session, UpdateSession(s) PROVE GameThreads'
    BY <1>13 DEF UpdateSession, DeletesSession, Runs, GameThreads, Game
<1>14. CASE Receive
    BY <1>14 DEF Receive, GameThreads
<1>15. CASE InputFails
    BY <1>15 DEF InputFails, GameThreads
<1>16. CASE AuthFails
    BY <1>16 DEF AuthFails, GameThreads
<1>17. ASSUME NEW s \in Session, AuthSucceeds(s) PROVE GameThreads'
    BY <1>17 DEF AuthSucceeds, GameThreads
<1>18. CASE AddSession
    BY <1>18 DEF AddSession, GameThreads, Known
<1>19. CASE QueuePacket
    BY <1>19 DEF QueuePacket, GameThreads
<1>20. CASE SetLatency
    BY <1>20 DEF SetLatency, GameThreads
<1>21. CASE Pong
    BY <1>21 DEF Pong, GameThreads
<1>22. CASE HandleClose
    BY <1>22 DEF HandleClose, GameThreads
<1>23. CASE Unregister
    BY <1>23 DEF Unregister, GameThreads, Network
<1>24. CASE Update
    BY <1>24, UpdateControl DEF GameThreads
<1>25. CASE ReactorOutput
    BY <1>25 DEF ReactorOutput, GameThreads
<1>26. CASE HandleOutput
    BY <1>26, OutputControl DEF GameThreads
<1>27. CASE OutputFails
    BY <1>27 DEF OutputFails, GameThreads
<1>28. CASE AddNewSockets
    BY <1>28 DEF AddNewSockets, GameThreads
<1>29. CASE StartDrop
    BY <1>29, Threads DEF StartDrop, GameThreads
<1>30. CASE Drop
    BY <1>30 DEF Drop, GameThreads
<1>31. CASE ClientLeaves
    BY <1>31 DEF ClientLeaves, GameThreads
<1>32. CASE Gone
    BY <1>0, <1>32 DEF Gone
<1>33. CASE TestSession
    BY <1>33 DEF TestSession, GameThreads
<1>34. CASE Report
    BY <1>34 DEF Report, GameThreads
<1>35. CASE AddonsFail
    BY <1>35 DEF AddonsFail, GameThreads
<1> QED
    BY <1>0, <1>1, <1>2, <1>3, <1>4, <1>5, <1>6, <1>7, <1>8, <1>9, <1>10, <1>11, <1>12,
       <1>13, <1>14, <1>15, <1>16, <1>17, <1>18, <1>19, <1>20, <1>21, <1>22, <1>23, <1>24,
       <1>25, <1>26, <1>27, <1>28, <1>29, <1>30, <1>31, <1>32, <1>33, <1>34, <1>35
       DEF Next, Open, CloseSocket,
       UpdateSessions, NetworkWork

(* The session is not used after its end. *)
LEMMA UsedStep == ASSUME Control, [Next]_vars PROVE LockKeepsSession'
<1> USE DEF Control, Reporting, socketVars, reactorVars, outVars, netVars, sessionVars, OpenVars,
           GameVars, InputVars, OutputVars, LoopVars, vars, Begins, NetGoes, NetReaches
<1>0. CASE UNCHANGED vars
    BY <1>0 DEF LockKeepsSession
<1>1. CASE OpenFails
    BY <1>1 DEF OpenFails, LockKeepsSession
<1>2. CASE OpenManaged
    BY <1>2 DEF OpenManaged, LockKeepsSession
<1>3. CASE OpenReady
    BY <1>3 DEF OpenReady, LockKeepsSession
<1>4. CASE OpenRegistered
    BY <1>4 DEF OpenRegistered, LockKeepsSession
<1>5. CASE OpenDone
    BY <1>5 DEF OpenDone, LockKeepsSession
<1>6. ASSUME NEW t \in Closer, CloseWriter(t) PROVE LockKeepsSession'
    BY <1>6 DEF CloseWriter, LockKeepsSession
<1>7. ASSUME NEW t \in Closer, ForgetSession(t) PROVE LockKeepsSession'
    BY <1>7 DEF ForgetSession, LockKeepsSession, Closing
<1>8. ASSUME NEW t \in Game, NEW s \in Session, SessionSends(t, s) PROVE LockKeepsSession'
    BY <1>8, SendsControl, Threads DEF LockKeepsSession
<1>9. ASSUME NEW t \in Game, NEW s \in Session, Kick(t, s) PROVE LockKeepsSession'
    BY <1>9 DEF Kick, LockKeepsSession
<1>10. ASSUME NEW s \in Session, TakeSession(s) PROVE LockKeepsSession'
    BY <1>10 DEF TakeSession, LockKeepsSession
<1>11. ASSUME NEW s \in Session, DiscardSession(s) PROVE LockKeepsSession'
    BY <1>11 DEF DiscardSession, LockKeepsSession
<1>12. CASE SessionDiscarded
    BY <1>12 DEF SessionDiscarded, DeletesSession, LockKeepsSession, GameThreads,
       Sessions, Network, Closing, Known, Game, Closer
<1>13. ASSUME NEW s \in Session, UpdateSession(s) PROVE LockKeepsSession'
    BY <1>13 DEF UpdateSession, DeletesSession, Runs, LockKeepsSession, Network,
       Closing, Game, Closer
<1>14. CASE Receive
    BY <1>14 DEF Receive, LockKeepsSession, Sessions, Known
<1>15. CASE InputFails
    BY <1>15 DEF InputFails, LockKeepsSession
<1>16. CASE AuthFails
    BY <1>16 DEF AuthFails, LockKeepsSession
<1>17. ASSUME NEW s \in Session, AuthSucceeds(s) PROVE LockKeepsSession'
    BY <1>17, SocketAssumption DEF AuthSucceeds, Typed, LockKeepsSession, Session,
       NoSession
<1>18. CASE AddSession
    BY <1>18 DEF AddSession, LockKeepsSession
<1>19. CASE QueuePacket
    BY <1>19 DEF QueuePacket, LockKeepsSession
<1>20. CASE SetLatency
    BY <1>20 DEF SetLatency, LockKeepsSession
<1>21. CASE Pong
    BY <1>21 DEF Pong, LockKeepsSession
<1>22. CASE HandleClose
    BY <1>22 DEF HandleClose, LockKeepsSession
<1>23. CASE Unregister
    BY <1>23 DEF Unregister, LockKeepsSession
<1>24. CASE Update
    BY <1>24, UpdateControl DEF Failure, LockKeepsSession
<1>25. CASE ReactorOutput
    BY <1>25 DEF ReactorOutput, LockKeepsSession
<1>26. CASE HandleOutput
    BY <1>26, OutputControl DEF Failure, LockKeepsSession
<1>27. CASE OutputFails
    BY <1>27 DEF OutputFails, Failure, LockKeepsSession
<1>28. CASE AddNewSockets
    BY <1>28 DEF AddNewSockets, LockKeepsSession
<1>29. CASE StartDrop
    BY <1>29 DEF StartDrop, LockKeepsSession
<1>30. CASE Drop
    BY <1>30 DEF Drop, LockKeepsSession
<1>31. CASE ClientLeaves
    BY <1>31 DEF ClientLeaves, LockKeepsSession
<1>32. CASE Gone
    BY <1>0, <1>32 DEF Gone
<1>33. CASE TestSession
    BY <1>33 DEF TestSession, LockKeepsSession
<1>34. CASE Report
    BY <1>34 DEF Report, LockKeepsSession
<1>35. CASE AddonsFail
    BY <1>35 DEF AddonsFail, LockKeepsSession
<1> QED
    BY <1>0, <1>1, <1>2, <1>3, <1>4, <1>5, <1>6, <1>7, <1>8, <1>9, <1>10, <1>11, <1>12,
       <1>13, <1>14, <1>15, <1>16, <1>17, <1>18, <1>19, <1>20, <1>21, <1>22, <1>23, <1>24,
       <1>25, <1>26, <1>27, <1>28, <1>29, <1>30, <1>31, <1>32, <1>33, <1>34, <1>35
       DEF Next, Open, CloseSocket,
       UpdateSessions, NetworkWork

(* The references are those of the owners. *)
LEMMA OwnerStep == ASSUME Control, [Next]_vars PROVE OneOwnerEach'
<1> USE DEF Control, Reporting, socketVars, reactorVars, outVars, netVars, sessionVars, OpenVars,
           GameVars, InputVars, OutputVars, LoopVars, vars, Begins, NetGoes, NetReaches
<1>0. CASE UNCHANGED vars
    BY <1>0 DEF OneOwnerEach
<1>c. Cardinality(m_Socket) \in Nat
    BY HoldersFinite DEF Typed
<1>1. CASE OpenFails
    BY <1>1, <1>c DEF OpenFails, DropReference, OneOwnerEach, One
<1>2. CASE OpenManaged
    BY <1>2, <1>c DEF OpenManaged, TakeReference, OneOwnerEach, One, Opening
<1>3. CASE OpenReady
    BY <1>3, <1>c DEF OpenReady, DropReference, OneOwnerEach, One
<1>4. CASE OpenRegistered
    BY <1>4, <1>c DEF OpenRegistered, TakeReference, OneOwnerEach, One, Opening
<1>5. CASE OpenDone
    BY <1>5, <1>c DEF OpenDone, DropReference, OneOwnerEach, One
<1>6. ASSUME NEW t \in Closer, CloseWriter(t) PROVE OneOwnerEach'
    BY <1>6, <1>c DEF CloseWriter, OneOwnerEach
<1>7. ASSUME NEW t \in Closer, ForgetSession(t) PROVE OneOwnerEach'
    BY <1>7, <1>c DEF ForgetSession, OneOwnerEach
<1>8. ASSUME NEW t \in Game, NEW s \in Session, SessionSends(t, s) PROVE OneOwnerEach'
    BY <1>8, SendsControl, Threads, <1>c DEF OneOwnerEach
<1>9. ASSUME NEW t \in Game, NEW s \in Session, Kick(t, s) PROVE OneOwnerEach'
    BY <1>9, <1>c DEF Kick, OneOwnerEach
<1>10. ASSUME NEW s \in Session, TakeSession(s) PROVE OneOwnerEach'
    BY <1>10, <1>c DEF TakeSession, OneOwnerEach
<1>11. ASSUME NEW s \in Session, DiscardSession(s) PROVE OneOwnerEach'
    BY <1>11, <1>c DEF DiscardSession, OneOwnerEach
<1>12. CASE SessionDiscarded
    <2>1. world \in m_Socket
        BY <1>12 DEF SessionDiscarded, Sessions, Known, Typed
    <2>2. Cardinality(m_Socket \ {world}) = Cardinality(m_Socket) - 1
        BY <2>1, HoldersFinite, FS_RemoveElement DEF Typed
    <2> QED
        BY <1>12, <1>c, <2>2 DEF SessionDiscarded, DeletesSession, DropReference,
           OneOwnerEach, One
<1>13. ASSUME NEW s \in Session, UpdateSession(s) PROVE OneOwnerEach'
    <2>1. s \in m_Socket
        BY <1>13 DEF UpdateSession, Sessions
    <2>2. Cardinality(m_Socket \ {s}) = Cardinality(m_Socket) - 1
        BY <2>1, HoldersFinite, FS_RemoveElement DEF Typed
    <2> QED
        BY <1>13, <1>c, <2>2 DEF UpdateSession, DeletesSession, DropReference, OneOwnerEach,
           One
<1>14. CASE Receive
    BY <1>14, <1>c DEF Receive, OneOwnerEach
<1>15. CASE InputFails
    BY <1>15, <1>c DEF InputFails, OneOwnerEach
<1>16. CASE AuthFails
    BY <1>16, <1>c DEF AuthFails, OneOwnerEach
<1>17. ASSUME NEW s \in Session, AuthSucceeds(s) PROVE OneOwnerEach'
    <2>1. s \notin m_Socket
        BY <1>17, NextSession
    <2>2. Cardinality(m_Socket \union {s}) = Cardinality(m_Socket) + 1
        BY <2>1, HoldersFinite, FS_AddElement DEF Typed
    <2> QED
        BY <1>17, <1>c, <2>2 DEF AuthSucceeds, TakeReference, OneOwnerEach, One
<1>18. CASE AddSession
    BY <1>18, <1>c DEF AddSession, OneOwnerEach
<1>19. CASE QueuePacket
    BY <1>19, <1>c DEF QueuePacket, OneOwnerEach
<1>20. CASE SetLatency
    BY <1>20, <1>c DEF SetLatency, OneOwnerEach
<1>21. CASE Pong
    BY <1>21, <1>c DEF Pong, OneOwnerEach
<1>22. CASE HandleClose
    BY <1>22, <1>c DEF HandleClose, OneOwnerEach
<1>23. CASE Unregister
    BY <1>23, <1>c DEF Unregister, DropReference, OneOwnerEach, One, Network, OnSocket
<1>24. CASE Update
    BY <1>24, UpdateControl, <1>c DEF OneOwnerEach
<1>25. CASE ReactorOutput
    BY <1>25, <1>c DEF ReactorOutput, OneOwnerEach
<1>26. CASE HandleOutput
    BY <1>26, <1>c, OutputControl DEF OneOwnerEach
<1>27. CASE OutputFails
    BY <1>27, <1>c DEF OutputFails, OneOwnerEach
<1>28. CASE AddNewSockets
    BY <1>28, <1>c DEF AddNewSockets, DropReference, OneOwnerEach, One
<1>29. CASE StartDrop
    BY <1>29, <1>c DEF StartDrop, OneOwnerEach
<1>30. CASE Drop
    BY <1>30, <1>c DEF Drop, DropReference, OneOwnerEach, One, Network
<1>31. CASE ClientLeaves
    BY <1>31, <1>c DEF ClientLeaves, OneOwnerEach
<1>32. CASE Gone
    BY <1>0, <1>32 DEF Gone
<1>33. CASE TestSession
    BY <1>33, <1>c DEF TestSession, OneOwnerEach
<1>34. CASE Report
    BY <1>34, <1>c DEF Report, OneOwnerEach
<1>35. CASE AddonsFail
    BY <1>35, <1>c DEF AddonsFail, OneOwnerEach
<1> QED
    BY <1>0, <1>1, <1>2, <1>3, <1>4, <1>5, <1>6, <1>7, <1>8, <1>9, <1>10, <1>11, <1>12,
       <1>13, <1>14, <1>15, <1>16, <1>17, <1>18, <1>19, <1>20, <1>21, <1>22, <1>23, <1>24,
       <1>25, <1>26, <1>27, <1>28, <1>29, <1>30, <1>31, <1>32, <1>33, <1>34, <1>35
       DEF Next, Open, CloseSocket,
       UpdateSessions, NetworkWork

-----------------------------------------------------------------------------
(* The buffer and the queue. *)

OutputTyped ==
    /\ m_OutActive \in BOOLEAN /\ writeMask \in BOOLEAN /\ client \in {"here", "gone"}
    /\ m_OutBuffer \in Seq(Cells) /\ Len(m_OutBuffer) <= OutBufferSize
    /\ msg_queue \in Seq(Seq(Cells) \ {<<>>})
    /\ encrypted \in 0..MaxPackets
    /\ accepted \in Seq(Cells) /\ wire \in Seq(Cells)

(* A packet is made of cells, and is not empty. *)
LEMMA PacketTyped ==
    ASSUME encrypted \in 0..MaxPackets, encrypted < MaxPackets, NEW size \in PacketSizes
    PROVE  Packet(size) \in Seq(Cells) \ {<<>>} /\ Len(Packet(size)) = size
<1>1. size \in Nat /\ size > 0 /\ size <= OutBufferSize
    BY SocketAssumption
<1>2. \A k \in 1..size : <<encrypted + 1, k>> \in Cells
    BY <1>1, SocketAssumption DEF Cells
<1>3. Packet(size) \in [1..size -> Cells]
    BY <1>2 DEF Packet
<1>4. Packet(size) \in Seq(Cells) /\ Len(Packet(size)) = size
    BY <1>1, <1>3
<1>5. Packet(size) # <<>>
    BY <1>1, <1>4, EmptySeq
<1> QED
    BY <1>4, <1>5

(* SendPacket never overfills the buffer. *)
LEMMA SendPacketTyped ==
    ASSUME OutputTyped, NEW size \in PacketSizes, SendPacket(size)
    PROVE  /\ m_OutBuffer' \in Seq(Cells) /\ Len(m_OutBuffer') <= OutBufferSize
           /\ msg_queue' \in Seq(Seq(Cells) \ {<<>>})
           /\ encrypted' \in 0..MaxPackets
           /\ accepted' \in Seq(Cells)
<1>1. Packet(size) \in Seq(Cells) \ {<<>>} /\ Len(Packet(size)) = size
    BY PacketTyped DEF OutputTyped, SendPacket
<1>2. encrypted' \in 0..MaxPackets
    BY SocketAssumption DEF OutputTyped, SendPacket
<1>3. CASE Refused(size)
    BY <1>2, <1>3 DEF OutputTyped, SendPacket
<1>4. CASE ~Refused(size) /\ FitsBuffer(size)
    <2>1. /\ m_OutBuffer' = m_OutBuffer \o Packet(size) /\ msg_queue' = msg_queue
          /\ accepted' = accepted \o Packet(size)
        BY <1>4 DEF SendPacket
    <2>2. /\ m_OutBuffer \in Seq(Cells) /\ accepted \in Seq(Cells)
          /\ Len(m_OutBuffer) + size <= OutBufferSize
        BY <1>4 DEF OutputTyped, FitsBuffer
    <2>3. Len(m_OutBuffer \o Packet(size)) = Len(m_OutBuffer) + size
        BY <1>1, <2>2
    <2> QED
        BY <1>1, <1>2, <2>1, <2>2, <2>3 DEF OutputTyped
<1>5. CASE ~Refused(size) /\ ~FitsBuffer(size)
    <2>1. /\ msg_queue' = Append(msg_queue, Packet(size)) /\ m_OutBuffer' = m_OutBuffer
          /\ accepted' = accepted \o Packet(size)
        BY <1>5 DEF SendPacket
    <2> QED
        BY <1>1, <1>2, <2>1 DEF OutputTyped
<1> QED
    BY <1>3, <1>4, <1>5

(* The step of handle_output_queue in which the queue refuses to take a packet *)
(* back that could not be sent at all, and nobody looks at the result.         *)
PutBackRefused ==
    /\ net = "output" /\ net' = "reactor"
    /\ msg_queue # <<>> /\ msg_queue' = Tail(msg_queue) /\ IsFull(msg_queue')
    /\ wire' = wire \o m_OutBuffer

(* Where the network thread is after it. *)
Reached == {"reactor", "output", "close", "drop"}

(* What is sent after the cells of the buffer and what is left in the queue is *)
(* what the queue held, but for an error and a packet that is refused.         *)
LEMMA DrainsQueue ==
    ASSUME OutputTyped, net = "output", NEW least \in Nat, DrainQueue(m_OutBuffer, least)
    PROVE  \E sent \in Seq(Cells), queue \in Seq(Seq(Cells) \ {<<>>}), to \in Reached :
              /\ wire' = wire \o (m_OutBuffer \o sent)
              /\ m_OutBuffer' = <<>> /\ msg_queue' = queue
              /\ m_OutActive' \in BOOLEAN /\ writeMask' \in BOOLEAN
              /\ NetReaches(to)
              /\ to # Failure /\ ~PutBackRefused => sent \o FlattenSeq(queue) = FlattenSeq(msg_queue)
<1> DEFINE Goal(sent, queue, to) ==
              /\ wire' = wire \o (m_OutBuffer \o sent)
              /\ m_OutBuffer' = <<>> /\ msg_queue' = queue
              /\ m_OutActive' \in BOOLEAN /\ writeMask' \in BOOLEAN
              /\ NetReaches(to)
              /\ to # Failure /\ ~PutBackRefused => sent \o FlattenSeq(queue) = FlattenSeq(msg_queue)
<1> HIDE DEF Goal
<1>0. /\ Scheduled.active \in BOOLEAN /\ Scheduled.mask \in BOOLEAN
      /\ Cancelled.active \in BOOLEAN /\ Cancelled.mask \in BOOLEAN
    BY DEF OutputTyped, Scheduled, Cancelled
<1>1. m_OutBuffer \in Seq(Cells) /\ m_OutBuffer \o <<>> = m_OutBuffer
    BY ConcatEmptySeq DEF OutputTyped
<1>2. <<>> \in Seq(Cells) /\ <<>> \in Seq(Seq(Cells) \ {<<>>})
    BY EmptySeq
<1>3. CASE msg_queue = <<>>
    <2>1. Sends(m_OutBuffer, <<>>, <<>>, Cancelled, "reactor")
        BY <1>3 DEF DrainQueue
    <2>2. <<>> \o FlattenSeq(<<>>) = FlattenSeq(msg_queue)
        BY <1>2, <1>3, FlattenEmpty, ConcatEmptySeq
    <2>3. Goal(<<>>, <<>>, "reactor")
        BY <1>0, <1>1, <2>1, <2>2 DEF Goal, Sends
    <2> QED
        BY <1>2, <2>3 DEF Goal, Reached
<1>4. CASE msg_queue # <<>>
    <2> DEFINE head == Head(msg_queue)
               rest == Tail(msg_queue)
               size == Len(head)
    <2>1. /\ head \in Seq(Cells) /\ head # <<>> /\ rest \in Seq(Seq(Cells) \ {<<>>})
          /\ size \in Nat \ {0}
        <3>1. head \in Seq(Cells) \ {<<>>} /\ rest \in Seq(Seq(Cells) \ {<<>>})
            BY <1>4, HeadTailProperties DEF OutputTyped
        <3> QED
            BY <3>1, EmptySeq
    <2>2. rest \in Seq(Seq(Cells)) /\ msg_queue \in Seq(Seq(Cells))
        BY <2>1, SeqMonotonic, Seq(Cells) \ {<<>>} \subseteq Seq(Cells) DEF OutputTyped
    <2>3. FlattenSeq(msg_queue) = head \o FlattenSeq(rest) /\ FlattenSeq(rest) \in Seq(Cells)
        BY <1>4, <2>2, FlattenHeadTail, FlattenTyped
    <2> DEFINE Unchanged == [active |-> m_OutActive, mask |-> writeMask]
               part(n) == SubSeq(head, 1, n)
               left(n) == SubSeq(head, n + 1, size)
    <2>4. PICK n \in least..size :
             CASE n = size /\ rest = <<>> ->
                    Sends(m_OutBuffer \o part(n), <<>>, <<>>, Cancelled, "reactor")
               [] n = size /\ rest # <<>> ->
                    Sends(m_OutBuffer \o part(n), <<>>, rest, Unchanged, "output")
               [] n < size /\ ~IsFull(rest) ->
                    Sends(m_OutBuffer \o part(n), <<>>, <<left(n)>> \o rest, Scheduled, "reactor")
               [] n = 0 /\ IsFull(rest) ->
                    Sends(m_OutBuffer \o part(n), <<>>, rest, Scheduled, "reactor")
               [] OTHER -> Sends(m_OutBuffer \o part(n), <<>>, rest, Unchanged, Failure)
        BY <1>4 DEF DrainQueue
    <2>5. Unchanged.active \in BOOLEAN /\ Unchanged.mask \in BOOLEAN
        BY DEF OutputTyped
    <2>6. n \in 0..size /\ part(n) \in Seq(Cells)
        BY <2>1
    <2> HIDE DEF head, rest, size, Unchanged
    <2>7. CASE n = size
        <3>1. part(n) = head
            BY <2>1, <2>7, SubSeqFull DEF size
        <3>0. ~(n < size) /\ n # 0
            BY <2>1, <2>7
        <3>2. CASE rest = <<>>
            <4>1. Sends(m_OutBuffer \o part(n), <<>>, <<>>, Cancelled, "reactor")
                BY <2>4, <2>7, <3>0, <3>2
            <4>2. part(n) \o FlattenSeq(<<>>) = FlattenSeq(msg_queue)
                BY <2>3, <3>1, <3>2
            <4> HIDE DEF part
            <4>3. Goal(part(n), <<>>, "reactor")
                BY <1>0, <4>1, <4>2 DEF Goal, Sends
            <4> QED
                BY <1>2, <2>6, <4>3 DEF Goal, Reached
        <3>3. CASE rest # <<>>
            <4>1. Sends(m_OutBuffer \o part(n), <<>>, rest, Unchanged, "output")
                BY <2>4, <2>7, <3>0, <3>3
            <4>2. part(n) \o FlattenSeq(rest) = FlattenSeq(msg_queue)
                BY <2>3, <3>1
            <4> HIDE DEF part
            <4>3. Goal(part(n), rest, "output")
                BY <2>5, <4>1, <4>2 DEF Goal, Sends
            <4> QED
                BY <2>1, <2>6, <4>3 DEF Goal, Reached
        <3> QED
            BY <3>2, <3>3
    <2>8. CASE n < size /\ ~IsFull(rest)
        <3>1. Sends(m_OutBuffer \o part(n), <<>>, <<left(n)>> \o rest, Scheduled, "reactor")
            BY <2>1, <2>4, <2>6, <2>8
        <3>2. left(n) \in Seq(Cells) \ {<<>>}
            <4>1. n + 1 \in Int /\ size \in Int /\ n + 1 <= size
                BY <2>1, <2>6, <2>8
            <4>2. \A i \in n + 1..size : head[i] \in Cells
                BY <2>1, <2>6 DEF size
            <4>3. left(n) \in Seq(Cells) /\ Len(left(n)) = size - (n + 1) + 1
                BY <4>1, <4>2, SubSeqProperties
            <4>4. Len(left(n)) # 0
                BY <4>1, <4>3
            <4> HIDE DEF left
            <4> QED
                BY <4>3, <4>4, EmptySeq
        <3>3. part(n) \o left(n) = head
            <4>1. /\ 1 \in 1..Len(head) + 1 /\ n \in 1 - 1..Len(head) /\ size \in n..Len(head)
                BY <2>1, <2>6 DEF size
            <4>2. SubSeq(head, 1, n) \o SubSeq(head, n + 1, size) = SubSeq(head, 1, size)
                BY <2>1, <4>1, ConcatAdjacentSubSeq
            <4> QED
                BY <2>1, <4>2, SubSeqFull DEF size
        <3> HIDE DEF part, left
        <3>4. <<left(n)>> \o rest \in Seq(Seq(Cells) \ {<<>>})
            BY <2>1, <3>2
        <3>5. FlattenSeq(<<left(n)>> \o rest) = left(n) \o FlattenSeq(rest)
            BY <2>2, <3>2, FlattenCons
        <3>6. part(n) \o (left(n) \o FlattenSeq(rest)) = (part(n) \o left(n)) \o FlattenSeq(rest)
            <4>1. Over(part(n), Cells) /\ Over(left(n), Cells) /\ Over(FlattenSeq(rest), Cells)
                BY <2>3, <2>6, <3>2 DEF Over
            <4> QED
                BY <4>1, OverConcat
        <3>7. Goal(part(n), <<left(n)>> \o rest, "reactor")
            BY <1>0, <2>3, <3>1, <3>3, <3>5, <3>6 DEF Goal, Sends
        <3> QED
            BY <2>6, <3>4, <3>7 DEF Goal, Reached
    <2>9. CASE n = 0 /\ IsFull(rest)
        <3>1. Sends(m_OutBuffer \o part(n), <<>>, rest, Scheduled, "reactor")
            BY <2>1, <2>4, <2>9
        <3>2. part(n) = <<>>
            BY <2>9
        <3> HIDE DEF part
        <3>3. wire' = wire \o m_OutBuffer
            BY <1>1, <3>1, <3>2 DEF Sends
        <3>4. PutBackRefused
            BY <1>4, <2>9, <3>1, <3>3 DEF PutBackRefused, NetReaches, Sends, rest
        <3>5. Goal(part(n), rest, "reactor")
            BY <1>0, <3>1, <3>4 DEF Goal, Sends
        <3> QED
            BY <2>1, <2>6, <3>5 DEF Goal, Reached
    <2>10. CASE n # size /\ n # 0 /\ IsFull(rest)
        <3>1. Sends(m_OutBuffer \o part(n), <<>>, rest, Unchanged, Failure)
            BY <2>4, <2>10
        <3> HIDE DEF part
        <3>2. Goal(part(n), rest, Failure)
            BY <2>5, <3>1 DEF Goal, Sends
        <3> QED
            BY <2>1, <2>6, <3>2 DEF Goal, Reached, Failure
    <2>11. n < size \/ n = size
        BY <2>1, <2>6
    <2>12. n = 0 \/ n # 0
        OBVIOUS
    <2> QED
        BY <2>7, <2>8, <2>9, <2>10, <2>11, <2>12, Zenon
<1> QED
    BY <1>3, <1>4

(* The same of handle_output. *)
LEMMA OutputKeepsOrder ==
    ASSUME OutputTyped, HandleOutput
    PROVE  \E sent \in Seq(Cells), to \in Reached :
              /\ wire' = wire \o sent
              /\ m_OutBuffer' \in Seq(Cells) /\ Len(m_OutBuffer') <= OutBufferSize
              /\ msg_queue' \in Seq(Seq(Cells) \ {<<>>})
              /\ m_OutActive' \in BOOLEAN /\ writeMask' \in BOOLEAN
              /\ NetReaches(to)
              /\ to # Failure /\ ~PutBackRefused =>
                    sent \o (m_OutBuffer' \o FlattenSeq(msg_queue'))
                        = m_OutBuffer \o FlattenSeq(msg_queue)
<1>b. \A x \in Seq(Cells) : <<>> \o x = x
    BY ConcatEmptySeq
<1>c. \A q \in Seq(Seq(Cells) \ {<<>>}) : FlattenSeq(q) \in Seq(Cells)
    <2>1. \A q \in Seq(Seq(Cells) \ {<<>>}) : q \in Seq(Seq(Cells))
        BY SeqMonotonic, Seq(Cells) \ {<<>>} \subseteq Seq(Cells)
    <2> QED
        BY <2>1, FlattenTyped
<1> DEFINE Goal(sent, to) ==
              /\ wire' = wire \o sent
              /\ m_OutBuffer' \in Seq(Cells) /\ Len(m_OutBuffer') <= OutBufferSize
              /\ msg_queue' \in Seq(Seq(Cells) \ {<<>>})
              /\ m_OutActive' \in BOOLEAN /\ writeMask' \in BOOLEAN
              /\ NetReaches(to)
              /\ to # Failure /\ ~PutBackRefused =>
                    sent \o (m_OutBuffer' \o FlattenSeq(msg_queue'))
                        = m_OutBuffer \o FlattenSeq(msg_queue)
           size == Len(m_OutBuffer)
<1> HIDE DEF Goal
<1>1. m_OutBuffer \in Seq(Cells) /\ size \in Nat /\ size <= OutBufferSize /\ OutBufferSize \in Nat
    BY SocketAssumption DEF OutputTyped
<1>2. ASSUME NEW least \in Nat, DrainQueue(m_OutBuffer, least)
      PROVE  \E sent \in Seq(Cells), to \in Reached : Goal(sent, to)
    <2>1. PICK sent \in Seq(Cells), queue \in Seq(Seq(Cells) \ {<<>>}), to \in Reached :
              /\ wire' = wire \o (m_OutBuffer \o sent)
              /\ m_OutBuffer' = <<>> /\ msg_queue' = queue
              /\ m_OutActive' \in BOOLEAN /\ writeMask' \in BOOLEAN
              /\ NetReaches(to)
              /\ to # Failure /\ ~PutBackRefused => sent \o FlattenSeq(queue) = FlattenSeq(msg_queue)
        BY <1>2, DrainsQueue DEF HandleOutput
    <2>2. FlattenSeq(queue) \in Seq(Cells) /\ m_OutBuffer \o sent \in Seq(Cells)
        BY <1>1, <1>c
    <2>3. (m_OutBuffer \o sent) \o (<<>> \o FlattenSeq(queue)) = m_OutBuffer \o (sent \o FlattenSeq(queue))
        <3>1. <<>> \o FlattenSeq(queue) = FlattenSeq(queue)
            BY <1>b, <2>2
        <3>2. (m_OutBuffer \o sent) \o FlattenSeq(queue) = m_OutBuffer \o (sent \o FlattenSeq(queue))
            <4>1. Over(m_OutBuffer, Cells) /\ Over(sent, Cells) /\ Over(FlattenSeq(queue), Cells)
                BY <1>1, <2>2 DEF Over
            <4> QED
                BY <4>1, OverConcat
        <3> QED
            BY <3>1, <3>2, Zenon
    <2>4. <<>> \in Seq(Cells) /\ Len(<<>>) <= OutBufferSize
        BY <1>1, EmptySeq
    <2>5. Goal(m_OutBuffer \o sent, to)
        BY <2>1, <2>3, <2>4 DEF Goal
    <2> QED
        BY <2>2, <2>5
<1>3. ASSUME NEW n \in 0..(size - 1),
             Sends(SubSeq(m_OutBuffer, 1, n), SubSeq(m_OutBuffer, n + 1, size),
                   msg_queue, Scheduled, "reactor")
      PROVE  \E sent \in Seq(Cells), to \in Reached : Goal(sent, to)
    <2> DEFINE part == SubSeq(m_OutBuffer, 1, n)
               left == SubSeq(m_OutBuffer, n + 1, size)
    <2>1. part \o left = m_OutBuffer
        <3>1. 1 \in 1..size + 1 /\ n \in 1 - 1..size /\ size \in n..size
            BY <1>1
        <3>2. part \o left = SubSeq(m_OutBuffer, 1, size)
            BY <1>1, <3>1, ConcatAdjacentSubSeq
        <3> QED
            BY <1>1, <3>2, SubSeqFull
    <2>2. part \in Seq(Cells) /\ left \in Seq(Cells) /\ Len(left) <= OutBufferSize
        <3>1. /\ 1 \in Int /\ n \in Int /\ n + 1 \in Int /\ size \in Int
              /\ \A i \in 1..n : i \in 1..size
              /\ \A i \in n + 1..size : i \in 1..size
            BY <1>1
        <3>2. part \in Seq(Cells)
            BY <1>1, <3>1, ElementOfSeq, SubSeqProperties
        <3>3. /\ left \in Seq(Cells)
              /\ Len(left) = IF n + 1 <= size THEN size - (n + 1) + 1 ELSE 0
            BY <1>1, <3>1, ElementOfSeq, SubSeqProperties
        <3> HIDE DEF left
        <3> QED
            BY <1>1, <3>2, <3>3
    <2>3. /\ wire' = wire \o part /\ m_OutBuffer' = left /\ msg_queue' = msg_queue
          /\ m_OutActive' \in BOOLEAN /\ writeMask' \in BOOLEAN /\ NetReaches("reactor")
        BY <1>3 DEF Sends, Scheduled, OutputTyped
    <2>4. msg_queue \in Seq(Seq(Cells) \ {<<>>}) /\ FlattenSeq(msg_queue) \in Seq(Cells)
        BY <1>c DEF OutputTyped
    <2> HIDE DEF part, left
    <2>5. part \o (left \o FlattenSeq(msg_queue)) = m_OutBuffer \o FlattenSeq(msg_queue)
        <3>1. Over(part, Cells) /\ Over(left, Cells) /\ Over(FlattenSeq(msg_queue), Cells)
            BY <2>2, <2>4 DEF Over
        <3>2. part \o (left \o FlattenSeq(msg_queue)) = (part \o left) \o FlattenSeq(msg_queue)
            BY <3>1, OverConcat
        <3> QED
            BY <2>1, <3>2, Zenon
    <2>6. Goal(part, "reactor")
        BY <2>2, <2>3, <2>4, <2>5 DEF Goal
    <2> QED
        BY <2>2, <2>6 DEF Reached
<1>4. \E sent \in Seq(Cells), to \in Reached : Goal(sent, to)
    <2> DEFINE least == IF caller = "reactor" THEN 1 ELSE 0
    <2>1. least \in Nat
        OBVIOUS
    <2>2. CASE size = 0
        <3>1. m_OutBuffer = <<>>
            BY <1>1, <2>2, EmptySeq
        <3>2. DrainQueue(m_OutBuffer, least)
            BY <2>2, <3>1 DEF HandleOutput
        <3> QED
            BY <1>2, <2>1, <3>2
    <2>3. CASE size # 0
        <3>1. \/ \E n \in least..(size - 1) :
                    Sends(SubSeq(m_OutBuffer, 1, n), SubSeq(m_OutBuffer, n + 1, size),
                          msg_queue, Scheduled, "reactor")
              \/ DrainQueue(m_OutBuffer, 0)
            BY <2>3 DEF HandleOutput
        <3>2. \A n \in least..(size - 1) : n \in 0..(size - 1)
            BY <2>1
        <3> QED
            BY <1>2, <1>3, <3>1, <3>2
    <2> QED
        BY <2>2, <2>3
<1> QED
    BY <1>4 DEF Goal

(* The connection is up, and all that was accepted is there, in its order. *)
Quiet == ~closing_ /\ net \notin {"close", "drop", "dropping"}

AllThere == wire \o m_OutBuffer \o FlattenSeq(msg_queue) = accepted

Moves ==
    \/ UNCHANGED <<outVars, wire>>
    \/ (\E size \in PacketSizes : SendPacket(size)) /\ UNCHANGED wire
    \/ HandleOutput

FlagsTyped == m_OutActive \in BOOLEAN /\ writeMask \in BOOLEAN /\ client \in {"here", "gone"}

(* A step leaves the output alone, or is a packet, or is output. *)
LEMMA OutputMoves == ASSUME [Next]_vars PROVE Moves
<1> USE DEF socketVars, reactorVars, outVars, netVars, sessionVars, OpenVars, GameVars,
           InputVars, OutputVars, LoopVars, vars, Begins, NetGoes, NetReaches
<1>0. CASE UNCHANGED vars
    BY <1>0 DEF Moves
<1>1. CASE OpenFails
    BY <1>1 DEF OpenFails, Moves
<1>2. CASE OpenManaged
    BY <1>2 DEF OpenManaged, Moves
<1>3. CASE OpenReady
    BY <1>3 DEF OpenReady, Moves
<1>4. CASE OpenRegistered
    BY <1>4 DEF OpenRegistered, Moves
<1>5. CASE OpenDone
    BY <1>5 DEF OpenDone, Moves
<1>6. ASSUME NEW t \in Closer, CloseWriter(t) PROVE Moves
    BY <1>6 DEF CloseWriter, Moves
<1>7. ASSUME NEW t \in Closer, ForgetSession(t) PROVE Moves
    BY <1>7 DEF ForgetSession, Moves
<1>8. ASSUME NEW t \in Game, NEW s \in Session, SessionSends(t, s) PROVE Moves
    BY <1>8 DEF SessionSends, Moves
<1>9. ASSUME NEW t \in Game, NEW s \in Session, Kick(t, s) PROVE Moves
    BY <1>9 DEF Kick, Moves
<1>10. ASSUME NEW s \in Session, TakeSession(s) PROVE Moves
    BY <1>10 DEF TakeSession, Moves
<1>11. ASSUME NEW s \in Session, DiscardSession(s) PROVE Moves
    BY <1>11 DEF DiscardSession, Moves
<1>12. CASE SessionDiscarded
    BY <1>12 DEF SessionDiscarded, DeletesSession, Moves
<1>13. ASSUME NEW s \in Session, UpdateSession(s) PROVE Moves
    BY <1>13 DEF UpdateSession, DeletesSession, Moves
<1>14. CASE Receive
    BY <1>14 DEF Receive, Moves
<1>15. CASE InputFails
    BY <1>15 DEF InputFails, Moves
<1>16. CASE AuthFails
    BY <1>16 DEF AuthFails, Moves
<1>17. ASSUME NEW s \in Session, AuthSucceeds(s) PROVE Moves
    BY <1>17 DEF AuthSucceeds, Moves
<1>18. CASE AddSession
    BY <1>18 DEF AddSession, Moves
<1>19. CASE QueuePacket
    BY <1>19 DEF QueuePacket, Moves
<1>20. CASE SetLatency
    BY <1>20 DEF SetLatency, Moves
<1>21. CASE Pong
    BY <1>21 DEF Pong, Moves
<1>22. CASE HandleClose
    BY <1>22 DEF HandleClose, Moves
<1>23. CASE Unregister
    BY <1>23 DEF Unregister, Moves
<1>24. CASE Update
    BY <1>24, UpdateControl DEF Moves
<1>25. CASE ReactorOutput
    BY <1>25 DEF ReactorOutput, Moves
<1>26. CASE HandleOutput
    BY <1>26 DEF Failure, Moves
<1>27. CASE OutputFails
    BY <1>27 DEF OutputFails, Moves
<1>28. CASE AddNewSockets
    BY <1>28 DEF AddNewSockets, Moves
<1>29. CASE StartDrop
    BY <1>29 DEF StartDrop, Moves
<1>30. CASE Drop
    BY <1>30 DEF Drop, Moves
<1>31. CASE ClientLeaves
    BY <1>31 DEF ClientLeaves, Moves
<1>32. CASE Gone
    BY <1>0, <1>32 DEF Gone
<1>33. CASE TestSession
    BY <1>33 DEF TestSession, Moves
<1>34. CASE Report
    BY <1>34 DEF Report, Moves
<1>35. CASE AddonsFail
    BY <1>35 DEF AddonsFail, Moves
<1> QED
    BY <1>0, <1>1, <1>2, <1>3, <1>4, <1>5, <1>6, <1>7, <1>8, <1>9, <1>10, <1>11, <1>12,
       <1>13, <1>14, <1>15, <1>16, <1>17, <1>18, <1>19, <1>20, <1>21, <1>22, <1>23, <1>24,
       <1>25, <1>26, <1>27, <1>28, <1>29, <1>30, <1>31, <1>32, <1>33, <1>34, <1>35
       DEF Next, Open, CloseSocket,
       UpdateSessions, NetworkWork

(* The flags, but for output. *)
LEMMA FlagsStep == ASSUME OutputTyped, [Next]_vars PROVE (HandleOutput \/ FlagsTyped')
<1> USE DEF socketVars, reactorVars, outVars, netVars, sessionVars, OpenVars, GameVars,
           InputVars, OutputVars, LoopVars, vars, Begins, NetGoes, NetReaches
<1>0. CASE UNCHANGED vars
    BY <1>0 DEF FlagsTyped, OutputTyped, HoldUpdates
<1>1. CASE OpenFails
    BY <1>1 DEF OpenFails, FlagsTyped, OutputTyped, HoldUpdates
<1>2. CASE OpenManaged
    BY <1>2 DEF OpenManaged, HoldUpdates, FlagsTyped, OutputTyped, HoldUpdates
<1>3. CASE OpenReady
    BY <1>3 DEF OpenReady, FlagsTyped, OutputTyped, HoldUpdates
<1>4. CASE OpenRegistered
    BY <1>4 DEF OpenRegistered, FlagsTyped, OutputTyped, HoldUpdates
<1>5. CASE OpenDone
    BY <1>5 DEF OpenDone, FlagsTyped, OutputTyped, HoldUpdates
<1>6. ASSUME NEW t \in Closer, CloseWriter(t) PROVE (HandleOutput \/ FlagsTyped')
    BY <1>6 DEF CloseWriter, FlagsTyped, OutputTyped, HoldUpdates
<1>7. ASSUME NEW t \in Closer, ForgetSession(t) PROVE (HandleOutput \/ FlagsTyped')
    BY <1>7 DEF ForgetSession, FlagsTyped, OutputTyped, HoldUpdates
<1>8. ASSUME NEW t \in Game, NEW s \in Session, SessionSends(t, s) PROVE (HandleOutput \/ FlagsTyped')
    BY <1>8 DEF SessionSends, FlagsTyped, OutputTyped, HoldUpdates
<1>9. ASSUME NEW t \in Game, NEW s \in Session, Kick(t, s) PROVE (HandleOutput \/ FlagsTyped')
    BY <1>9 DEF Kick, FlagsTyped, OutputTyped, HoldUpdates
<1>10. ASSUME NEW s \in Session, TakeSession(s) PROVE (HandleOutput \/ FlagsTyped')
    BY <1>10 DEF TakeSession, FlagsTyped, OutputTyped, HoldUpdates
<1>11. ASSUME NEW s \in Session, DiscardSession(s) PROVE (HandleOutput \/ FlagsTyped')
    BY <1>11 DEF DiscardSession, FlagsTyped, OutputTyped, HoldUpdates
<1>12. CASE SessionDiscarded
    BY <1>12 DEF SessionDiscarded, DeletesSession, FlagsTyped, OutputTyped, HoldUpdates
<1>13. ASSUME NEW s \in Session, UpdateSession(s) PROVE (HandleOutput \/ FlagsTyped')
    BY <1>13 DEF UpdateSession, DeletesSession, FlagsTyped, OutputTyped, HoldUpdates
<1>14. CASE Receive
    BY <1>14 DEF Receive, FlagsTyped, OutputTyped, HoldUpdates
<1>15. CASE InputFails
    BY <1>15 DEF InputFails, FlagsTyped, OutputTyped, HoldUpdates
<1>16. CASE AuthFails
    BY <1>16 DEF AuthFails, FlagsTyped, OutputTyped, HoldUpdates
<1>17. ASSUME NEW s \in Session, AuthSucceeds(s) PROVE (HandleOutput \/ FlagsTyped')
    BY <1>17 DEF AuthSucceeds, FlagsTyped, OutputTyped, HoldUpdates
<1>18. CASE AddSession
    BY <1>18 DEF AddSession, FlagsTyped, OutputTyped, HoldUpdates
<1>19. CASE QueuePacket
    BY <1>19 DEF QueuePacket, FlagsTyped, OutputTyped, HoldUpdates
<1>20. CASE SetLatency
    BY <1>20 DEF SetLatency, FlagsTyped, OutputTyped, HoldUpdates
<1>21. CASE Pong
    BY <1>21 DEF Pong, FlagsTyped, OutputTyped, HoldUpdates
<1>22. CASE HandleClose
    BY <1>22 DEF HandleClose, FlagsTyped, OutputTyped, HoldUpdates
<1>23. CASE Unregister
    BY <1>23 DEF Unregister, FlagsTyped, OutputTyped, HoldUpdates
<1>24. CASE Update
    BY <1>24, UpdateControl DEF FlagsTyped, OutputTyped, HoldUpdates
<1>25. CASE ReactorOutput
    BY <1>25 DEF ReactorOutput, FlagsTyped, OutputTyped, HoldUpdates
<1>26. CASE HandleOutput
    BY <1>26 DEF HoldUpdates
<1>27. CASE OutputFails
    BY <1>27 DEF OutputFails, FlagsTyped, OutputTyped, HoldUpdates
<1>28. CASE AddNewSockets
    BY <1>28 DEF AddNewSockets, FlagsTyped, OutputTyped, HoldUpdates
<1>29. CASE StartDrop
    BY <1>29 DEF StartDrop, FlagsTyped, OutputTyped, HoldUpdates
<1>30. CASE Drop
    BY <1>30 DEF Drop, FlagsTyped, OutputTyped, HoldUpdates
<1>31. CASE ClientLeaves
    BY <1>31 DEF ClientLeaves, FlagsTyped, OutputTyped, HoldUpdates
<1>32. CASE Gone
    BY <1>0, <1>32 DEF Gone
<1>33. CASE TestSession
    BY <1>33 DEF TestSession, FlagsTyped, OutputTyped, HoldUpdates
<1>34. CASE Report
    BY <1>34 DEF Report, FlagsTyped, OutputTyped, HoldUpdates
<1>35. CASE AddonsFail
    BY <1>35 DEF AddonsFail, FlagsTyped, OutputTyped, HoldUpdates
<1> QED
    BY <1>0, <1>1, <1>2, <1>3, <1>4, <1>5, <1>6, <1>7, <1>8, <1>9, <1>10, <1>11, <1>12,
       <1>13, <1>14, <1>15, <1>16, <1>17, <1>18, <1>19, <1>20, <1>21, <1>22, <1>23, <1>24,
       <1>25, <1>26, <1>27, <1>28, <1>29, <1>30, <1>31, <1>32, <1>33, <1>34, <1>35
       DEF Next, Open, CloseSocket,
       UpdateSessions, NetworkWork

(* A connection that has closed stays closed. *)
LEMMA QuietStep == ASSUME Control, [Next]_vars PROVE (Quiet' => Quiet)
<1> USE DEF socketVars, reactorVars, outVars, netVars, sessionVars, OpenVars, GameVars,
           InputVars, OutputVars, LoopVars, vars, Begins, NetGoes, NetReaches
<1>0. CASE UNCHANGED vars
    BY <1>0 DEF Quiet
<1>1. CASE OpenFails
    BY <1>1 DEF OpenFails, Quiet
<1>2. CASE OpenManaged
    BY <1>2 DEF OpenManaged, Quiet
<1>3. CASE OpenReady
    BY <1>3 DEF OpenReady, Quiet
<1>4. CASE OpenRegistered
    BY <1>4 DEF OpenRegistered, Quiet
<1>5. CASE OpenDone
    BY <1>5 DEF OpenDone, Quiet
<1>6. ASSUME NEW t \in Closer, CloseWriter(t) PROVE (Quiet' => Quiet)
    BY <1>6 DEF CloseWriter, Quiet
<1>7. ASSUME NEW t \in Closer, ForgetSession(t) PROVE (Quiet' => Quiet)
    BY <1>7 DEF ForgetSession, Quiet
<1>8. ASSUME NEW t \in Game, NEW s \in Session, SessionSends(t, s) PROVE (Quiet' => Quiet)
    BY <1>8 DEF SessionSends, Quiet
<1>9. ASSUME NEW t \in Game, NEW s \in Session, Kick(t, s) PROVE (Quiet' => Quiet)
    BY <1>9 DEF Kick, Quiet
<1>10. ASSUME NEW s \in Session, TakeSession(s) PROVE (Quiet' => Quiet)
    BY <1>10 DEF TakeSession, Quiet
<1>11. ASSUME NEW s \in Session, DiscardSession(s) PROVE (Quiet' => Quiet)
    BY <1>11 DEF DiscardSession, Quiet
<1>12. CASE SessionDiscarded
    BY <1>12 DEF SessionDiscarded, DeletesSession, Quiet
<1>13. ASSUME NEW s \in Session, UpdateSession(s) PROVE (Quiet' => Quiet)
    BY <1>13 DEF UpdateSession, DeletesSession, Quiet
<1>14. CASE Receive
    BY <1>14 DEF Receive, Quiet
<1>15. CASE InputFails
    BY <1>15 DEF InputFails, Quiet
<1>16. CASE AuthFails
    BY <1>16 DEF AuthFails, Quiet
<1>17. ASSUME NEW s \in Session, AuthSucceeds(s) PROVE (Quiet' => Quiet)
    BY <1>17 DEF AuthSucceeds, Quiet
<1>18. CASE AddSession
    BY <1>18 DEF AddSession, Quiet
<1>19. CASE QueuePacket
    BY <1>19 DEF QueuePacket, Quiet
<1>20. CASE SetLatency
    BY <1>20 DEF SetLatency, Quiet
<1>21. CASE Pong
    BY <1>21 DEF Pong, Quiet
<1>22. CASE HandleClose
    BY <1>22 DEF HandleClose, Quiet
<1>23. CASE Unregister
    BY <1>23 DEF Unregister, Quiet
<1>24. CASE Update
    BY <1>24, UpdateControl DEF Quiet
<1>25. CASE ReactorOutput
    BY <1>25 DEF ReactorOutput, Quiet
<1>26. CASE HandleOutput
    BY <1>26 DEF HandleOutput, OutputVars, Quiet
<1>27. CASE OutputFails
    BY <1>27 DEF OutputFails, Quiet
<1>28. CASE AddNewSockets
    BY <1>28 DEF AddNewSockets, Quiet
<1>29. CASE StartDrop
    BY <1>29 DEF StartDrop, Quiet
<1>30. CASE Drop
    BY <1>30 DEF Drop, Quiet, Control, Network
<1>31. CASE ClientLeaves
    BY <1>31 DEF ClientLeaves, Quiet
<1>32. CASE Gone
    BY <1>0, <1>32 DEF Gone
<1>33. CASE TestSession
    BY <1>33 DEF TestSession, Quiet
<1>34. CASE Report
    BY <1>34 DEF Report, Quiet
<1>35. CASE AddonsFail
    BY <1>35 DEF AddonsFail, Quiet
<1> QED
    BY <1>0, <1>1, <1>2, <1>3, <1>4, <1>5, <1>6, <1>7, <1>8, <1>9, <1>10, <1>11, <1>12,
       <1>13, <1>14, <1>15, <1>16, <1>17, <1>18, <1>19, <1>20, <1>21, <1>22, <1>23, <1>24,
       <1>25, <1>26, <1>27, <1>28, <1>29, <1>30, <1>31, <1>32, <1>33, <1>34, <1>35
       DEF Next, Open, CloseSocket,
       UpdateSessions, NetworkWork

(* A packet that is taken comes after all that was. *)
LEMMA PacketInOrder ==
    ASSUME OutputTyped, NEW size \in PacketSizes, SendPacket(size), AllThere, wire' = wire
    PROVE  AllThere'
<1>b. \A x \in Seq(Cells) : x \o <<>> = x
    BY ConcatEmptySeq
<1>1. /\ wire \in Seq(Cells) /\ m_OutBuffer \in Seq(Cells) /\ accepted \in Seq(Cells)
      /\ msg_queue \in Seq(Seq(Cells))
    BY SeqMonotonic, Seq(Cells) \ {<<>>} \subseteq Seq(Cells) DEF OutputTyped
<1>2. FlattenSeq(msg_queue) \in Seq(Cells)
    BY <1>1, FlattenTyped
<1>3. Packet(size) \in Seq(Cells)
    BY PacketTyped DEF OutputTyped, SendPacket
<1>c. /\ Over(wire, Cells) /\ Over(m_OutBuffer, Cells) /\ Over(FlattenSeq(msg_queue), Cells)
      /\ Over(Packet(size), Cells)
    BY <1>1, <1>2, <1>3 DEF Over
<1>4. (wire \o m_OutBuffer) \o FlattenSeq(msg_queue) = accepted
    BY DEF AllThere
<1>5. CASE Refused(size)
    BY <1>5 DEF SendPacket, AllThere
<1>6. CASE ~Refused(size) /\ FitsBuffer(size)
    <2>1. /\ m_OutBuffer' = m_OutBuffer \o Packet(size) /\ msg_queue' = <<>> /\ msg_queue = <<>>
          /\ accepted' = accepted \o Packet(size)
        BY <1>6 DEF SendPacket, FitsBuffer
    <2>0. wire \o m_OutBuffer \in Seq(Cells)
        BY <1>1
    <2>2. accepted = wire \o m_OutBuffer
        BY <1>4, <1>b, <2>0, <2>1, FlattenEmpty
    <2>3. wire \o (m_OutBuffer \o Packet(size)) = (wire \o m_OutBuffer) \o Packet(size)
        BY <1>c, OverConcat
    <2>4. accepted \o Packet(size) \in Seq(Cells)
        BY <1>1, <1>3
    <2>5. (wire \o (m_OutBuffer \o Packet(size))) \o FlattenSeq(<<>>) = accepted \o Packet(size)
        BY <1>b, <2>2, <2>3, <2>4, FlattenEmpty
    <2> QED
        BY <2>1, <2>5 DEF AllThere
<1>7. CASE ~Refused(size) /\ ~FitsBuffer(size)
    <2>1. /\ m_OutBuffer' = m_OutBuffer /\ msg_queue' = Append(msg_queue, Packet(size))
          /\ accepted' = accepted \o Packet(size)
        BY <1>7 DEF SendPacket
    <2>2. FlattenSeq(Append(msg_queue, Packet(size))) = FlattenSeq(msg_queue) \o Packet(size)
        BY <1>1, <1>3, FlattenAppend
    <2>4. (wire \o m_OutBuffer) \o (FlattenSeq(msg_queue) \o Packet(size))
              = ((wire \o m_OutBuffer) \o FlattenSeq(msg_queue)) \o Packet(size)
        BY <1>c, OverConcat
    <2>5. (wire \o m_OutBuffer) \o (FlattenSeq(msg_queue) \o Packet(size)) = accepted \o Packet(size)
        BY <1>4, <2>4
    <2> QED
        BY <2>1, <2>2, <2>5 DEF AllThere
<1> QED
    BY <1>5, <1>6, <1>7

(* Output, unless an error follows or a packet is refused, loses nothing. *)
LEMMA OutputInOrderStep ==
    ASSUME OutputTyped, HandleOutput, ~PutBackRefused, AllThere, Quiet'
    PROVE  AllThere'
<1>b. \A q \in Seq(Seq(Cells) \ {<<>>}) : FlattenSeq(q) \in Seq(Cells)
    <2>1. \A q \in Seq(Seq(Cells) \ {<<>>}) : q \in Seq(Seq(Cells))
        BY SeqMonotonic, Seq(Cells) \ {<<>>} \subseteq Seq(Cells)
    <2> QED
        BY <2>1, FlattenTyped
<1>1. PICK sent \in Seq(Cells), to \in Reached :
         /\ wire' = wire \o sent
         /\ m_OutBuffer' \in Seq(Cells) /\ msg_queue' \in Seq(Seq(Cells) \ {<<>>})
         /\ NetReaches(to)
         /\ to # Failure /\ ~PutBackRefused =>
               sent \o (m_OutBuffer' \o FlattenSeq(msg_queue')) = m_OutBuffer \o FlattenSeq(msg_queue)
    BY OutputKeepsOrder
<1>2. sent \o (m_OutBuffer' \o FlattenSeq(msg_queue')) = m_OutBuffer \o FlattenSeq(msg_queue)
    BY <1>1 DEF Quiet, NetReaches, Failure
<1>3. /\ wire \in Seq(Cells) /\ m_OutBuffer \in Seq(Cells) /\ FlattenSeq(msg_queue) \in Seq(Cells)
      /\ FlattenSeq(msg_queue') \in Seq(Cells)
    BY <1>1, <1>b DEF OutputTyped
<1> DEFINE buffer == m_OutBuffer'
           queue == FlattenSeq(msg_queue')
<1>4. buffer \in Seq(Cells) /\ queue \in Seq(Cells)
    BY <1>1, <1>3
<1>5. sent \o (buffer \o queue) = m_OutBuffer \o FlattenSeq(msg_queue)
    BY <1>2
<1>6. (wire \o m_OutBuffer) \o FlattenSeq(msg_queue) = accepted /\ accepted' = accepted
    BY DEF AllThere, HandleOutput, OutputVars
<1> HIDE DEF buffer, queue
<1>7. ((wire \o sent) \o buffer) \o queue = wire \o (sent \o (buffer \o queue))
    <2>1. Over(wire, Cells) /\ Over(sent, Cells) /\ Over(buffer, Cells) /\ Over(queue, Cells)
        BY <1>3, <1>4 DEF Over
    <2>2. Over(wire \o sent, Cells) /\ Over(buffer \o queue, Cells)
        BY <2>1, OverConcat
    <2>3. ((wire \o sent) \o buffer) \o queue = (wire \o sent) \o (buffer \o queue)
        BY <2>1, <2>2, OverConcat
    <2>4. (wire \o sent) \o (buffer \o queue) = wire \o (sent \o (buffer \o queue))
        BY <2>1, <2>2, OverConcat
    <2> QED
        BY <2>3, <2>4, Zenon
<1>8. wire \o (m_OutBuffer \o FlattenSeq(msg_queue)) = accepted
    <2>1. Over(wire, Cells) /\ Over(m_OutBuffer, Cells) /\ Over(FlattenSeq(msg_queue), Cells)
        BY <1>3 DEF Over
    <2>2. (wire \o m_OutBuffer) \o FlattenSeq(msg_queue) = wire \o (m_OutBuffer \o FlattenSeq(msg_queue))
        BY <2>1, OverConcat
    <2> QED
        BY <1>6, <2>2
<1>9. ((wire \o sent) \o buffer) \o queue = accepted'
    BY <1>5, <1>6, <1>7, <1>8
<1> QED
    BY <1>1, <1>9 DEF AllThere, buffer, queue

(* The output is typed after every step. *)
LEMMA OutputTypedStep == ASSUME OutputTyped, [Next]_vars PROVE OutputTyped'
<1>1. CASE ~HandleOutput /\ UNCHANGED <<outVars, wire>>
    <2>1. FlagsTyped'
        BY <1>1, FlagsStep
    <2> QED
        BY <1>1, <2>1 DEF OutputTyped, FlagsTyped, outVars
<1>2. ASSUME ~HandleOutput, NEW size \in PacketSizes, SendPacket(size), wire' = wire
      PROVE  OutputTyped'
    <2>1. FlagsTyped'
        BY <1>2, FlagsStep
    <2>2. /\ m_OutBuffer' \in Seq(Cells) /\ Len(m_OutBuffer') <= OutBufferSize
          /\ msg_queue' \in Seq(Seq(Cells) \ {<<>>})
          /\ encrypted' \in 0..MaxPackets /\ accepted' \in Seq(Cells)
        BY <1>2, SendPacketTyped
    <2> QED
        BY <1>2, <2>1, <2>2 DEF OutputTyped, FlagsTyped
<1>3. CASE HandleOutput
    <2>1. PICK sent \in Seq(Cells), to \in Reached :
              /\ wire' = wire \o sent
              /\ m_OutBuffer' \in Seq(Cells) /\ Len(m_OutBuffer') <= OutBufferSize
              /\ msg_queue' \in Seq(Seq(Cells) \ {<<>>})
              /\ m_OutActive' \in BOOLEAN /\ writeMask' \in BOOLEAN
        BY <1>3, OutputKeepsOrder
    <2>2. wire' \in Seq(Cells)
        BY <2>1 DEF OutputTyped
    <2>3. UNCHANGED <<client, encrypted, accepted>>
        BY <1>3 DEF HandleOutput, OutputVars
    <2> QED
        BY <2>1, <2>2, <2>3 DEF OutputTyped
<1> QED
    BY <1>1, <1>2, <1>3, OutputMoves DEF Moves

(* Every step but the refusal keeps the order. *)
LEMMA OrderStep ==
    ASSUME Control, OutputTyped, Quiet => AllThere, [Next]_vars, ~PutBackRefused
    PROVE  (Quiet => AllThere)'
<1> SUFFICES ASSUME Quiet' PROVE AllThere'
    OBVIOUS
<1>1. Quiet /\ AllThere
    BY QuietStep
<1>2. CASE UNCHANGED <<outVars, wire>>
    BY <1>1, <1>2 DEF AllThere, outVars
<1>3. ASSUME NEW size \in PacketSizes, SendPacket(size), wire' = wire PROVE AllThere'
    BY <1>1, <1>3, PacketInOrder
<1>4. CASE HandleOutput
    BY <1>1, <1>4, OutputInOrderStep
<1> QED
    BY <1>2, <1>3, <1>4, OutputMoves DEF Moves

-----------------------------------------------------------------------------
IInv == Control /\ OutputTyped

(* It holds when the socket has been accepted. *)
LEMMA InitIInv == Init => IInv
<1> SUFFICES ASSUME Init PROVE IInv
    OBVIOUS
<1>1. Typed
    BY DEF Init, Typed
<1>a. Opening /\ LockKeepsSession
    BY DEF Init, Opening, LockKeepsSession, NoSession
<1>b. Network
    BY Threads DEF Init, Network, OnSocket, Reporting
<1>2. Sessions
    <2>1. 0 \in 0..MaxSessions /\ \A s \in Session : ~(s <= 0)
        BY SocketAssumption DEF Session
    <2> QED
        BY <2>1 DEF Init, Sessions, NoSession
<1>3. Closing /\ GameThreads
    BY Threads DEF Init, Closing, GameThreads, NoSession, Game, Closer
<1>4. OneOwnerEach
    BY FS_EmptySet DEF Init, OneOwnerEach, One
<1>5. OutputTyped
    <2>1. <<>> \in Seq(Cells) /\ <<>> \in Seq(Seq(Cells) \ {<<>>}) /\ Len(<<>>) = 0
        BY EmptySeq
    <2>2. 0 <= OutBufferSize /\ 0 \in 0..MaxPackets
        BY SocketAssumption
    <2> QED
        BY <2>1, <2>2 DEF Init, OutputTyped
<1> QED
    BY <1>1, <1>a, <1>b, <1>2, <1>3, <1>4, <1>5 DEF IInv, Control

(* Every step keeps it. *)
LEMMA NextIInv == IInv /\ [Next]_vars => IInv'
BY TypedStep, OpeningStep, NetworkStep, SessionsStep, ClosingStep, GameThreadsStep, UsedStep,
   OwnerStep, OutputTypedStep DEF IInv, Control

(* The invariant of the socket. *)
THEOREM SocketInvariant == Spec => []IInv
BY InitIInv, NextIInv, PTL DEF Spec

(* Whatever the threads do to the socket meanwhile, a session is used under    *)
(* m_SessionLock only while it is known to the world thread, and the one that  *)
(* HandleAuthSession has created is still there when it is added to the world. *)
(* The uses without the lock, in the error of a malformed packet, have no such *)
(* guarantee (Report).                                                         *)
THEOREM SessionOutlivesLock == Spec => []LockKeepsSession
<1>1. IInv => LockKeepsSession
    BY DEF IInv, Control
<1> QED
    BY <1>1, SocketInvariant, PTL

(* The reference count is that of the owners, never less than zero, and when   *)
(* it is zero no thread is in a function of the socket.                        *)
THEOREM ReferencesExact == Spec => []RefsExact
<1>1. ASSUME IInv PROVE RefsExact
    <2> USE <1>1
    <2>1. Cardinality(m_Socket) \in Nat /\ (Cardinality(m_Socket) = 0 => m_Socket = {})
        BY HoldersFinite, FS_EmptySet DEF IInv, Control, Typed
    <2>2. OneOwnerEach
        BY DEF IInv, Control
    <2>3. refs \in Nat
        BY <2>1, <2>2 DEF OneOwnerEach, One
    <2>4. TypeOK
        BY <2>3 DEF IInv, Control, Typed, OutputTyped, TypeOK
    <2>5. ASSUME refs = 0 PROVE /\ open \in {"done", "failed"} /\ managed \notin {"new", "yes"}
                               /\ ~registered /\ m_Socket = {}
        BY <2>1, <2>2, <2>5 DEF OneOwnerEach, One
    <2>6. ASSUME refs = 0 PROVE net = "reactor" /\ \A t \in Closer : closer[t] = "idle"
        BY <2>5, <2>6 DEF IInv, Control, Typed, Network, GameThreads, Closer
    <2> QED
        BY <2>2, <2>4, <2>5, <2>6 DEF RefsExact, NoUseAfterFree
<1> QED
    BY <1>1, SocketInvariant, PTL

(* m_OutActive, which open sets first, keeps the network thread away from the  *)
(* buffer until it has been allocated.                                         *)
THEOREM BufferThere == Spec => []UpdateFindsBuffer
<1>1. IInv => UpdateFindsBuffer
    BY DEF IInv, Control, Typed, Opening, Network, UpdateFindsBuffer
<1> QED
    BY <1>1, SocketInvariant, PTL

(* With packets of any sizes, output keeps its order as long as the queue      *)
(* takes back what could not be sent: the refusal that handle_output_queue     *)
(* does not look at is the only step that loses a packet.                      *)
THEOREM OrderUnlessRefused == Spec /\ [][~PutBackRefused]_vars => []OutputInOrder
<1> DEFINE Ordered == Quiet => AllThere
<1>1. Init => Ordered
    BY EmptySeq, FlattenEmpty, ConcatEmptySeq DEF Init, AllThere
<1>2. IInv /\ Ordered /\ [Next]_vars /\ [~PutBackRefused]_vars => Ordered'
    <2>1. UNCHANGED vars /\ Ordered => Ordered'
        BY DEF vars, outVars, socketVars, netVars, Quiet, AllThere
    <2> QED
        BY <2>1, OrderStep DEF IInv
<1>3. Ordered => OutputInOrder
    BY DEF Quiet, AllThere, OutputInOrder
<1> HIDE DEF Ordered
<1> QED
    BY <1>1, <1>2, <1>3, SocketInvariant, PTL DEF Spec
=============================================================================
