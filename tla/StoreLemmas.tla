----------------------------- MODULE StoreLemmas -----------------------------
(* Lemmas about the tables of the character database, for any numbers of       *)
(* players, items, mails and auctions: sums over their rows, where an item is, *)
(* what each write of a handler or of the start of the server does to them,    *)
(* and what a character in memory has to do with them. AuctionHouse_proofs     *)
(* puts them together to steps of the server.                                  *)
EXTENDS AuctionHouse, FiniteSetTheorems, SequenceTheorems, WellFoundedInduction, TLAPS

(* Induction over the natural numbers is over the set of those for which a     *)
(* formula holds: such a set is all of Nat when it has zero and, with every    *)
(* number, the next one.                                                       *)

(* A set of natural numbers that is not empty has a least element. *)
LEMMA LeastElement ==
    ASSUME NEW T \in SUBSET Nat, T # {}
    PROVE  \E n \in T : \A m \in T : n <= m
<1> DEFINE R == OpToRel(<, Nat)
<1>1. IsWellFoundedOn(R, Nat)
    BY NatLessThanWellFounded
<1>2. \A x, y \in Nat : x < y => <<x, y>> \in R
    BY DEF OpToRel
<1> HIDE DEF R
<1>3. PICK x \in T : \A y \in T : ~ (<<y, x>> \in R)
    BY <1>1, WFMin
<1>4. \A y \in T : x \in Nat /\ y \in Nat /\ ~(y < x)
    BY <1>2, <1>3
<1>5. \A y \in T : x <= y
    BY <1>4
<1> QED
    BY <1>5

(* Induction over the natural numbers. *)
LEMMA SetInduction ==
    ASSUME NEW T \in SUBSET Nat, 0 \in T, \A n \in T : n + 1 \in T
    PROVE  T = Nat
<1> SUFFICES ASSUME Nat \ T # {} PROVE FALSE
    OBVIOUS
<1>1. PICK n \in Nat \ T : \A m \in Nat \ T : n <= m
    BY LeastElement
<1>2. n # 0 /\ n - 1 \in Nat
    BY <1>1
<1>3. n - 1 \in T
    BY <1>1, <1>2
<1>4. n - 1 + 1 = n
    BY <1>1
<1> QED
    BY <1>3, <1>4

-----------------------------------------------------------------------------
(* Sums of the values of a function.                                           *)

FirstOf(s) == CHOOSE x \in s : TRUE

(* The sum of the values of a function. *)
SumOf(f) == MapThenSumSet(LAMBDA k : f[k], DOMAIN f)

(* g[s] is the sum of f over s, for each set s of P. *)
Sums(g, f, P) ==
    \A s \in P : g[s] = IF s = {} THEN 0 ELSE f[FirstOf(s)] + g[s \ {FirstOf(s)}]

(* The subsets of S with no more than n elements. *)
Smaller(S, n) == {s \in SUBSET S : Cardinality(s) <= n}

(* A set that is not empty has a first element. *)
LEMMA FirstOfIn == ASSUME NEW s, s # {} PROVE FirstOf(s) \in s
BY DEF FirstOf

(* What a set loses with an element. *)
LEMMA OneLess ==
    ASSUME NEW S, IsFiniteSet(S), NEW s \in SUBSET S, NEW x \in s
    PROVE  /\ IsFiniteSet(s) /\ Cardinality(s) \in Nat \ {0}
           /\ s \ {x} \in SUBSET S
           /\ Cardinality(s \ {x}) = Cardinality(s) - 1
<1>1. IsFiniteSet(s)
    BY FS_Subset
<1> QED
    BY <1>1, FS_CardinalityType, FS_RemoveElement, FS_EmptySet

(* There is a function that gives the sum of f over each subset of S. *)
LEMMA SumsExists ==
    ASSUME NEW S, IsFiniteSet(S), NEW f \in [S -> Nat]
    PROVE  \E g \in [SUBSET S -> Nat] : Sums(g, f, SUBSET S)
<1> DEFINE T == {n \in Nat : \E g \in [Smaller(S, n) -> Nat] : Sums(g, f, Smaller(S, n))}
<1>0. \A s \in SUBSET S : IsFiniteSet(s) /\ Cardinality(s) \in Nat
                          /\ (Cardinality(s) = 0 <=> s = {})
    BY FS_Subset, FS_CardinalityType, FS_EmptySet
<1>1. 0 \in T
    <2> DEFINE g == [s \in Smaller(S, 0) |-> 0]
    <2>1. \A s \in Smaller(S, 0) : s = {}
        BY <1>0 DEF Smaller
    <2>2. g \in [Smaller(S, 0) -> Nat] /\ Sums(g, f, Smaller(S, 0))
        BY <2>1 DEF Sums
    <2> QED
        BY <2>2
<1>2. ASSUME NEW n \in T PROVE n + 1 \in T
    <2>1. PICK g \in [Smaller(S, n) -> Nat] : Sums(g, f, Smaller(S, n))
        BY <1>2
    <2>2. n \in Nat
        BY <1>2
    <2> DEFINE h == [s \in Smaller(S, n + 1) |->
                        IF s = {} THEN 0 ELSE f[FirstOf(s)] + g[s \ {FirstOf(s)}]]
    <2>3. ASSUME NEW s \in Smaller(S, n + 1), s # {}
          PROVE  FirstOf(s) \in S /\ s \ {FirstOf(s)} \in Smaller(S, n)
        <3>1. s \in SUBSET S /\ FirstOf(s) \in s /\ Cardinality(s) <= n + 1
            BY <2>3, FirstOfIn DEF Smaller
        <3>2. Cardinality(s) \in Nat /\ Cardinality(s \ {FirstOf(s)}) = Cardinality(s) - 1
            BY <3>1, OneLess
        <3> QED
            BY <2>2, <3>1, <3>2 DEF Smaller
    <2>4. h \in [Smaller(S, n + 1) -> Nat]
        BY <2>1, <2>3
    <2>5. \A s \in Smaller(S, n) : s \in Smaller(S, n + 1) /\ h[s] = g[s]
        <3>1. \A s \in Smaller(S, n) : s \in Smaller(S, n + 1)
            BY <1>0, <2>2 DEF Smaller
        <3> QED
            BY <2>1, <3>1 DEF Sums
    <2>6. Sums(h, f, Smaller(S, n + 1))
        BY <2>3, <2>5 DEF Sums
    <2> HIDE DEF h
    <2> QED
        BY <2>2, <2>4, <2>6
<1> HIDE DEF T
<1>3. T = Nat
    BY <1>1, <1>2, SetInduction DEF T
<1>4. Cardinality(S) \in T
    BY <1>0, <1>3
<1>5. Smaller(S, Cardinality(S)) = SUBSET S
    <2>1. \A s \in SUBSET S : Cardinality(s) <= Cardinality(S)
        BY FS_Subset
    <2> QED
        BY <2>1 DEF Smaller
<1> QED
    BY <1>4, <1>5 DEF T

(* Two such functions agree where what they sum does. *)
LEMMA SumsAgree ==
    ASSUME NEW S, IsFiniteSet(S), NEW f, NEW e, NEW g, NEW h,
           Sums(g, f, SUBSET S), Sums(h, e, SUBSET S), \A x \in S : f[x] = e[x]
    PROVE  g[S] = h[S]
<1> DEFINE T == {n \in Nat : \A s \in SUBSET S : Cardinality(s) = n => g[s] = h[s]}
<1>0. \A s \in SUBSET S : IsFiniteSet(s) /\ Cardinality(s) \in Nat
                          /\ (Cardinality(s) = 0 <=> s = {})
    BY FS_Subset, FS_CardinalityType, FS_EmptySet
<1>1. 0 \in T
    BY <1>0 DEF Sums
<1>2. ASSUME NEW n \in T PROVE n + 1 \in T
    <2>1. ASSUME NEW s \in SUBSET S, Cardinality(s) = n + 1
          PROVE  g[s] = h[s]
        <3>1. s # {}
            BY <1>0, <2>1
        <3> DEFINE x == FirstOf(s)
        <3>2. x \in s /\ x \in S
            BY <3>1, FirstOfIn
        <3>3. s \ {x} \in SUBSET S /\ Cardinality(s \ {x}) = n
            BY <2>1, <3>2, OneLess
        <3> HIDE DEF x
        <3>4. g[s \ {x}] = h[s \ {x}]
            BY <1>2, <3>3
        <3>5. g[s] = f[x] + g[s \ {x}] /\ h[s] = e[x] + h[s \ {x}]
            BY <3>1 DEF Sums, x
        <3> QED
            BY <3>2, <3>4, <3>5
    <2> QED
        BY <2>1
<1> HIDE DEF T
<1>3. T = Nat
    BY <1>1, <1>2, SetInduction DEF T
<1> QED
    BY <1>0, <1>3 DEF T

(* The order does not matter: any element may be the last to be added. *)
LEMMA SumsAny ==
    ASSUME NEW S, IsFiniteSet(S), NEW f \in [S -> Nat], NEW g \in [SUBSET S -> Nat],
           Sums(g, f, SUBSET S)
    PROVE  \A s \in SUBSET S : \A x \in s : g[s] = f[x] + g[s \ {x}]
<1> DEFINE T == {n \in Nat : \A s \in SUBSET S :
                    Cardinality(s) = n => \A x \in s : g[s] = f[x] + g[s \ {x}]}
<1>0. \A s \in SUBSET S : IsFiniteSet(s) /\ Cardinality(s) \in Nat
                          /\ (Cardinality(s) = 0 <=> s = {})
    BY FS_Subset, FS_CardinalityType, FS_EmptySet
<1>1. 0 \in T
    BY <1>0
<1>2. ASSUME NEW n \in T PROVE n + 1 \in T
    <2>1. ASSUME NEW s \in SUBSET S, Cardinality(s) = n + 1, NEW x \in s
          PROVE  g[s] = f[x] + g[s \ {x}]
        <3> DEFINE y == FirstOf(s)
        <3>1. y \in s
            BY FirstOfIn
        <3>2. g[s] = f[y] + g[s \ {y}]
            BY <3>1 DEF Sums
        <3> HIDE DEF y
        <3>3. CASE x = y
            BY <3>2, <3>3
        <3>4. CASE x # y
            <4>1. /\ s \ {x} \in SUBSET S /\ Cardinality(s \ {x}) = n
                  /\ s \ {y} \in SUBSET S /\ Cardinality(s \ {y}) = n
                BY <2>1, <3>1, OneLess
            <4>2. g[s \ {y}] = f[x] + g[(s \ {y}) \ {x}]
                BY <1>2, <3>4, <4>1
            <4>3. g[s \ {x}] = f[y] + g[(s \ {x}) \ {y}]
                BY <1>2, <3>1, <3>4, <4>1
            <4>4. (s \ {y}) \ {x} = (s \ {x}) \ {y}
                OBVIOUS
            <4> DEFINE r == (s \ {x}) \ {y}
            <4>5. r \in SUBSET S
                OBVIOUS
            <4>6. f[x] \in Nat /\ f[y] \in Nat /\ g[r] \in Nat
                BY <3>1, <4>5
            <4> HIDE DEF r
            <4>7. g[s \ {y}] = f[x] + g[r] /\ g[s \ {x}] = f[y] + g[r]
                BY <4>2, <4>3, <4>4 DEF r
            <4> QED
                BY <3>2, <4>6, <4>7
        <3> QED
            BY <3>3, <3>4
    <2> QED
        BY <2>1
<1> HIDE DEF T
<1>3. T = Nat
    BY <1>1, <1>2, SetInduction DEF T
<1> QED
    BY <1>0, <1>3 DEF T

(* The sum of f is what such a function says. *)
LEMMA SumIs ==
    ASSUME NEW S, IsFiniteSet(S), NEW f \in [S -> Nat]
    PROVE  \E g \in [SUBSET S -> Nat] : Sums(g, f, SUBSET S) /\ SumOf(f) = g[S]
<1> DEFINE iter == CHOOSE g : g = [s \in SUBSET S |->
                        IF s = {} THEN 0
                        ELSE f[CHOOSE x \in s : TRUE] + g[s \ {CHOOSE x \in s : TRUE}]]
<1>1. SumOf(f) = iter[S]
    BY DEF SumOf, MapThenSumSet, MapThenFoldSet
<1>2. PICK g \in [SUBSET S -> Nat] : Sums(g, f, SUBSET S)
    BY SumsExists
<1>3. g = [s \in SUBSET S |->
                        IF s = {} THEN 0
                        ELSE f[CHOOSE x \in s : TRUE] + g[s \ {CHOOSE x \in s : TRUE}]]
    BY <1>2 DEF Sums, FirstOf
<1>4. iter = [s \in SUBSET S |->
                        IF s = {} THEN 0
                        ELSE f[CHOOSE x \in s : TRUE] + iter[s \ {CHOOSE x \in s : TRUE}]]
    BY <1>3
<1>5. Sums(iter, f, SUBSET S)
    BY <1>4 DEF Sums, FirstOf
<1> HIDE DEF iter
<1>6. iter[S] = g[S]
    BY <1>2, <1>5, SumsAgree
<1> QED
    BY <1>1, <1>2, <1>6

(* f on D only. *)
Part(f, D) == [x \in D |-> f[x]]

(* A sum of natural numbers is one, and that of none is zero. *)
LEMMA SumNat ==
    ASSUME NEW S, IsFiniteSet(S), NEW f \in [S -> Nat]
    PROVE  SumOf(f) \in Nat /\ (S = {} => SumOf(f) = 0)
<1>1. PICK g \in [SUBSET S -> Nat] : Sums(g, f, SUBSET S) /\ SumOf(f) = g[S]
    BY SumIs
<1> QED
    BY <1>1 DEF Sums

(* One value, and the others. *)
LEMMA SumPoint ==
    ASSUME NEW S, IsFiniteSet(S), NEW f \in [S -> Nat], NEW x \in S
    PROVE  SumOf(f) = f[x] + SumOf(Part(f, S \ {x}))
<1> DEFINE R == S \ {x}
           e == Part(f, R)
<1>1. IsFiniteSet(R) /\ R \in SUBSET S
    BY FS_Subset
<1>2. e \in [R -> Nat] /\ \A y \in R : e[y] = f[y]
    BY DEF Part
<1> HIDE DEF e
<1>3. PICK g \in [SUBSET S -> Nat] : Sums(g, f, SUBSET S) /\ SumOf(f) = g[S]
    BY SumIs
<1>4. PICK h \in [SUBSET R -> Nat] : Sums(h, e, SUBSET R) /\ SumOf(e) = h[R]
    BY <1>1, <1>2, SumIs
<1>5. Sums(g, f, SUBSET R)
    <2>1. SUBSET R \subseteq SUBSET S
        OBVIOUS
    <2> QED
        BY <1>3, <2>1 DEF Sums
<1>6. g[S] = f[x] + g[R]
    BY <1>3, SumsAny
<1>7. g[R] = h[R]
    <2> HIDE DEF R
    <2>1. \A y \in R : f[y] = e[y]
        BY <1>2
    <2> QED
        BY <1>1, <1>4, <1>5, <2>1, SumsAgree
<1> QED
    BY <1>3, <1>4, <1>6, <1>7 DEF e

(* A change of one value. *)
LEMMA SumChange ==
    ASSUME NEW S, IsFiniteSet(S), NEW f \in [S -> Nat], NEW e \in [S -> Nat], NEW x \in S,
           \A y \in S \ {x} : e[y] = f[y]
    PROVE  SumOf(e) + f[x] = SumOf(f) + e[x]
<1>1. Part(e, S \ {x}) = Part(f, S \ {x})
    BY DEF Part
<1>2. IsFiniteSet(S \ {x}) /\ Part(f, S \ {x}) \in [S \ {x} -> Nat]
    BY FS_Subset DEF Part
<1>3. SumOf(f) = f[x] + SumOf(Part(f, S \ {x})) /\ SumOf(e) = e[x] + SumOf(Part(f, S \ {x}))
    BY <1>1, SumPoint
<1>4. SumOf(Part(f, S \ {x})) \in Nat /\ f[x] \in Nat /\ e[x] \in Nat
    BY <1>2, SumNat
<1> QED
    BY <1>3, <1>4

(* A sum over a set, and over the rest. *)
LEMMA SumSplit ==
    ASSUME NEW S, IsFiniteSet(S), NEW f \in [S -> Nat], NEW D \in SUBSET S
    PROVE  SumOf(f) = SumOf(Part(f, D)) + SumOf(Part(f, S \ D))
<1> DEFINE T == {n \in Nat : \A d \in SUBSET S :
                    Cardinality(d) = n => SumOf(f) = SumOf(Part(f, d)) + SumOf(Part(f, S \ d))}
<1>0. \A s \in SUBSET S : IsFiniteSet(s) /\ Cardinality(s) \in Nat
                          /\ (Cardinality(s) = 0 <=> s = {})
                          /\ Part(f, s) \in [s -> Nat]
    BY FS_Subset, FS_CardinalityType, FS_EmptySet DEF Part
<1>1. 0 \in T
    <2>1. Part(f, S) = f /\ S \ {} = S
        BY DEF Part
    <2>2. SumOf(Part(f, {})) = 0 /\ SumOf(f) \in Nat
        BY <1>0, SumNat
    <2> QED
        BY <1>0, <2>1, <2>2
<1>2. ASSUME NEW n \in T PROVE n + 1 \in T
    <2>1. ASSUME NEW d \in SUBSET S, Cardinality(d) = n + 1
          PROVE  SumOf(f) = SumOf(Part(f, d)) + SumOf(Part(f, S \ d))
        <3>1. PICK x : x \in d
            BY <1>0, <2>1
        <3> DEFINE c == d \ {x}
        <3>2. c \in SUBSET S /\ Cardinality(c) = n
            BY <2>1, <3>1, OneLess
        <3>3. SumOf(f) = SumOf(Part(f, c)) + SumOf(Part(f, S \ c))
            BY <1>2, <3>2
        <3>4. Part(Part(f, d), d \ {x}) = Part(f, c) /\ Part(f, d)[x] = f[x]
            BY <3>1 DEF Part
        <3>5. SumOf(Part(f, d)) = f[x] + SumOf(Part(f, c))
            BY <1>0, <3>1, <3>4, SumPoint
        <3>6. x \in S \ c /\ (S \ c) \ {x} = S \ d
            BY <3>1
        <3>7. Part(Part(f, S \ c), (S \ c) \ {x}) = Part(f, S \ d) /\ Part(f, S \ c)[x] = f[x]
            BY <3>6 DEF Part
        <3>8. SumOf(Part(f, S \ c)) = f[x] + SumOf(Part(f, S \ d))
            BY <1>0, <3>6, <3>7, SumPoint
        <3>9. /\ f[x] \in Nat /\ SumOf(Part(f, c)) \in Nat /\ SumOf(Part(f, S \ d)) \in Nat
            BY <1>0, <3>1, <3>2, SumNat
        <3> HIDE DEF c
        <3> QED
            BY <3>3, <3>5, <3>8, <3>9
    <2> QED
        BY <2>1
<1> HIDE DEF T
<1>3. T = Nat
    BY <1>1, <1>2, SetInduction DEF T
<1> QED
    BY <1>0, <1>3 DEF T

(* Zeros add nothing. *)
LEMMA SumZero ==
    ASSUME NEW S, IsFiniteSet(S), NEW f \in [S -> Nat], \A x \in S : f[x] = 0
    PROVE  SumOf(f) = 0
<1>1. PICK g \in [SUBSET S -> Nat] : Sums(g, f, SUBSET S) /\ SumOf(f) = g[S]
    BY SumIs
<1> DEFINE h == [s \in SUBSET S |-> 0]
<1>2. Sums(h, f, SUBSET S)
    BY FirstOfIn DEF Sums
<1>3. g[S] = h[S]
    BY <1>1, <1>2, SumsAgree
<1> QED
    BY <1>1, <1>3

(* The sum of one value over and over. *)
LEMMA SumConstant ==
    ASSUME NEW S, IsFiniteSet(S), NEW v \in Nat, NEW f \in [S -> Nat], \A x \in S : f[x] = v
    PROVE  SumOf(f) = v * Cardinality(S)
<1>1. PICK g \in [SUBSET S -> Nat] : Sums(g, f, SUBSET S) /\ SumOf(f) = g[S]
    BY SumIs
<1> DEFINE h == [s \in SUBSET S |-> v * Cardinality(s)]
<1>2. ASSUME NEW s \in SUBSET S
      PROVE  h[s] = IF s = {} THEN 0 ELSE f[FirstOf(s)] + h[s \ {FirstOf(s)}]
    <2>1. CASE s = {}
        <3>1. Cardinality(s) = 0
            BY <2>1, FS_EmptySet
        <3> QED
            BY <2>1, <3>1
    <2>2. CASE s # {}
        <3>1. FirstOf(s) \in s
            BY <2>2, FirstOfIn
        <3>2. /\ Cardinality(s) \in Nat \ {0} /\ s \ {FirstOf(s)} \in SUBSET S
              /\ Cardinality(s \ {FirstOf(s)}) = Cardinality(s) - 1
            BY <3>1, OneLess
        <3>3. f[FirstOf(s)] = v
            BY <3>1
        <3>4. \A n \in Nat \ {0} : v * n = v + v * (n - 1)
            OBVIOUS
        <3>5. v * Cardinality(s) = v + v * (Cardinality(s) - 1)
            BY <3>2, <3>4
        <3> QED
            BY <2>2, <3>2, <3>3, <3>5
    <2> QED
        BY <2>1, <2>2
<1>3. Sums(h, f, SUBSET S)
    <2> HIDE DEF h
    <2> QED
        BY <1>2 DEF Sums
<1>4. g[S] = h[S]
    <2> HIDE DEF h
    <2> QED
        BY <1>1, <1>3, SumsAgree
<1> QED
    BY <1>1, <1>4

-----------------------------------------------------------------------------
(* What tables hold together. Those that one write after the other of an       *)
(* operation makes are sound but for some gold and some items: what it has     *)
(* taken from one place and not yet put into another.                          *)

(* What all tables hold together: the endowment of the characters. *)
Endowment == InitialGold * Cardinality(Player)
MailGold(row) == IF row = None THEN 0 ELSE Value(row.money)
BidGold(row) == IF row = None THEN 0 ELSE row.bid + row.deposit
MailGolds(d) == [m \in MailId |-> MailGold(d.mail[m])]
BidGolds(d) == [a \in AuctionId |-> BidGold(d.auctionhouse[a])]
Gold(d) == Total(d.money) + Total(MailGolds(d)) + Total(BidGolds(d))

(* Where a table d has the item i. *)
InBag(d, i) == d.inventory[i] # None
InMail(d, i) == d.mail_items[i] # None
OnSale(d, i) == \E a \in RowsOf(d.auctionhouse) : d.auctionhouse[a].item = i

(* Every item that is left has one place, except those that are loose, and     *)
(* those that were lost.                                                       *)
Placed(d, loose) ==
    /\ loose \subseteq d.instance
    /\ \A i \in d.instance :
          /\ ~(InBag(d, i) /\ InMail(d, i))
          /\ ~(InBag(d, i) /\ OnSale(d, i))
          /\ ~(InMail(d, i) /\ OnSale(d, i))
          /\ i \in loose => ~(InBag(d, i) \/ InMail(d, i) \/ OnSale(d, i))
          /\ InBag(d, i) \/ InMail(d, i) \/ OnSale(d, i) \/ i \in loose \union d.lost
          /\ InMail(d, i) => d.mail[d.mail_items[i]] # None
    /\ \A i, j \in d.instance : InMail(d, i) /\ d.mail_items[i] = d.mail_items[j] => i = j
    /\ \A a, b \in RowsOf(d.auctionhouse) :
          /\ d.auctionhouse[a].item \in d.instance
          /\ d.auctionhouse[a].item = d.auctionhouse[b].item => a = b

(* What nobody has bid for has no bid; a bid is below the buyout price, and no *)
(* more than a purse holds, as is a deposit. The gold of a mail is a uint32.   *)
BidsInOrder(d) ==
    \A a \in RowsOf(d.auctionhouse) :
        /\ d.auctionhouse[a].bidder = None => d.auctionhouse[a].bid = 0
        /\ d.auctionhouse[a].buyout # 0 => d.auctionhouse[a].bid < d.auctionhouse[a].buyout
        /\ d.auctionhouse[a].bid <= MaxMoney /\ d.auctionhouse[a].deposit <= MaxMoney

MailsInOrder(d) == \A m \in RowsOf(d.mail) : d.mail[m].money < Word

SumsInOrder(d) == BidsInOrder(d) /\ MailsInOrder(d)

(* The tables d hold all there is but for some gold and the items loose. *)
Sound(d, gold, loose) ==
    /\ d \in Tables
    /\ \A p \in Player : d.money[p] <= MaxMoney
    /\ gold \in Int
    /\ Gold(d) + d.fees + gold = Endowment
    /\ Placed(d, loose)
    /\ SumsInOrder(d)

(* A uint32 has a limit. *)
LEMMA WordIs ==
    /\ Word \in Nat \ {0} /\ Half \in Nat /\ MaxMoney \in Nat
    /\ MaxMoney < Half /\ MaxMoney < Word
<1>1. Half \in Nat /\ MaxMoney \in Nat /\ MaxMoney < Half
    BY StoreAssumption, MailAssumption
<1> QED
    BY <1>1 DEF Word

(* The sum of the models is that of the lemmas. *)
LEMMA TotalIsSum == \A f : Total(f) = SumOf(f)
BY DEF Total, SumOf

(* The keys of the tables are finite sets, and None is none of them. *)
LEMMA Keys ==
    /\ IsFiniteSet(Player) /\ IsFiniteSet(MailId) /\ IsFiniteSet(AuctionId)
    /\ None \notin MailId /\ None \notin AuctionId /\ None \notin Player /\ None \notin Item
    /\ MailId \subseteq Nat /\ AuctionId \subseteq Nat
    /\ None \notin MailRow /\ None \notin AuctionRow
BY StoreAssumption, NoneAssumption, FS_Interval DEF MailId, AuctionId

(* The rows of a table. *)
LEMMA Rows ==
    ASSUME NEW d \in Tables
    PROVE  /\ RowsOf(d.mail) \subseteq MailId /\ \A m \in MailId : m \in RowsOf(d.mail) <=> d.mail[m] # None
           /\ RowsOf(d.auctionhouse) \subseteq AuctionId
           /\ \A a \in AuctionId : a \in RowsOf(d.auctionhouse) <=> d.auctionhouse[a] # None
           /\ \A m \in RowsOf(d.mail) : d.mail[m] \in MailRow
           /\ \A a \in RowsOf(d.auctionhouse) : d.auctionhouse[a] \in AuctionRow
BY DEF Tables, RowsOf

(* The gold of each row, and its sums. *)
LEMMA Golds ==
    ASSUME NEW d \in Tables
    PROVE  /\ d.money \in [Player -> Nat] /\ Total(d.money) \in Nat
           /\ MailGolds(d) \in [MailId -> Nat] /\ Total(MailGolds(d)) \in Nat
           /\ BidGolds(d) \in [AuctionId -> Nat] /\ Total(BidGolds(d)) \in Nat
           /\ Gold(d) \in Nat /\ d.fees \in Nat
<1>1. d.money \in [Player -> Nat] /\ d.fees \in Nat
    BY DEF Tables
<1>2. MailGolds(d) \in [MailId -> Nat]
    BY Rows DEF MailGolds, MailGold, MailRow, Value
<1>3. BidGolds(d) \in [AuctionId -> Nat]
    BY Rows DEF BidGolds, BidGold, AuctionRow
<1>4. Total(d.money) \in Nat /\ Total(MailGolds(d)) \in Nat /\ Total(BidGolds(d)) \in Nat
    BY <1>1, <1>2, <1>3, Keys, SumNat, TotalIsSum
<1> QED
    BY <1>1, <1>2, <1>3, <1>4 DEF Gold

(* A purse changes. *)
LEMMA MoneyChanges ==
    ASSUME NEW d \in Tables, NEW e \in Tables, NEW p \in Player, NEW v \in Nat,
           e.money = [d.money EXCEPT ![p] = v], e.mail = d.mail, e.auctionhouse = d.auctionhouse
    PROVE  Gold(e) = Gold(d) + v - d.money[p] /\ d.money[p] \in Nat
<1>1. /\ d.money \in [Player -> Nat] /\ e.money \in [Player -> Nat] /\ d.money[p] \in Nat
      /\ e.money[p] = v /\ \A q \in Player \ {p} : e.money[q] = d.money[q]
    BY Golds
<1>2. Total(e.money) + d.money[p] = Total(d.money) + v
    BY <1>1, Keys, SumChange, TotalIsSum
<1>3. MailGolds(e) = MailGolds(d) /\ BidGolds(e) = BidGolds(d)
    BY DEF MailGolds, BidGolds
<1> QED
    BY <1>1, <1>2, <1>3, Golds DEF Gold

(* A mail changes. *)
LEMMA MailChanges ==
    ASSUME NEW d \in Tables, NEW e \in Tables, NEW m \in MailId, NEW row,
           e.mail = [d.mail EXCEPT ![m] = row], e.money = d.money, e.auctionhouse = d.auctionhouse
    PROVE  /\ Gold(e) = Gold(d) + MailGold(row) - MailGold(d.mail[m])
           /\ MailGold(row) \in Nat /\ MailGold(d.mail[m]) \in Nat
<1>1. /\ MailGolds(d) \in [MailId -> Nat] /\ MailGolds(e) \in [MailId -> Nat]
      /\ MailGolds(d)[m] = MailGold(d.mail[m]) /\ MailGolds(e)[m] = MailGold(row)
      /\ \A n \in MailId \ {m} : MailGolds(e)[n] = MailGolds(d)[n]
    <2>1. d.mail \in [MailId -> MailRow \union {None}]
        BY DEF Tables
    <2> QED
        BY <2>1, Golds DEF MailGolds
<1>2. Total(MailGolds(e)) + MailGold(d.mail[m]) = Total(MailGolds(d)) + MailGold(row)
    <2> DEFINE f == MailGolds(d)
               h == MailGolds(e)
    <2>1. f \in [MailId -> Nat] /\ h \in [MailId -> Nat] /\ \A n \in MailId \ {m} : h[n] = f[n]
        BY <1>1
    <2> HIDE DEF f, h
    <2>2. IsFiniteSet(MailId)
        BY Keys
    <2>3. SumOf(h) + f[m] = SumOf(f) + h[m]
        BY <2>1, <2>2, SumChange
    <2> QED
        BY <1>1, <2>3, TotalIsSum DEF f, h
<1>3. BidGolds(e) = BidGolds(d)
    BY DEF BidGolds
<1>4. MailGold(row) \in Nat /\ MailGold(d.mail[m]) \in Nat
    BY <1>1
<1> QED
    BY <1>2, <1>3, <1>4, Golds DEF Gold

(* An auction changes. *)
LEMMA AuctionChanges ==
    ASSUME NEW d \in Tables, NEW e \in Tables, NEW a \in AuctionId, NEW row,
           e.auctionhouse = [d.auctionhouse EXCEPT ![a] = row], e.money = d.money, e.mail = d.mail
    PROVE  /\ Gold(e) = Gold(d) + BidGold(row) - BidGold(d.auctionhouse[a])
           /\ BidGold(row) \in Nat /\ BidGold(d.auctionhouse[a]) \in Nat
<1>1. /\ BidGolds(d) \in [AuctionId -> Nat] /\ BidGolds(e) \in [AuctionId -> Nat]
      /\ BidGolds(d)[a] = BidGold(d.auctionhouse[a]) /\ BidGolds(e)[a] = BidGold(row)
      /\ \A n \in AuctionId \ {a} : BidGolds(e)[n] = BidGolds(d)[n]
    <2>1. d.auctionhouse \in [AuctionId -> AuctionRow \union {None}]
        BY DEF Tables
    <2> QED
        BY <2>1, Golds DEF BidGolds
<1>2. Total(BidGolds(e)) + BidGold(d.auctionhouse[a]) = Total(BidGolds(d)) + BidGold(row)
    <2> DEFINE f == BidGolds(d)
               h == BidGolds(e)
    <2>1. f \in [AuctionId -> Nat] /\ h \in [AuctionId -> Nat] /\ \A n \in AuctionId \ {a} : h[n] = f[n]
        BY <1>1
    <2> HIDE DEF f, h
    <2>2. IsFiniteSet(AuctionId)
        BY Keys
    <2>3. SumOf(h) + f[a] = SumOf(f) + h[a]
        BY <2>1, <2>2, SumChange
    <2> QED
        BY <1>1, <2>3, TotalIsSum DEF f, h
<1>3. MailGolds(e) = MailGolds(d)
    BY DEF MailGolds
<1>4. BidGold(row) \in Nat /\ BidGold(d.auctionhouse[a]) \in Nat
    BY <1>1
<1> QED
    BY <1>2, <1>3, <1>4, Golds DEF Gold

(* The gold in the rows is the gold in all rows there may be. *)
LEMMA GoldInRows ==
    ASSUME NEW d \in Tables
    PROVE  GoldIn(d) = Gold(d)
<1> DEFINE M == RowsOf(d.mail)
           A == RowsOf(d.auctionhouse)
<1>1. M \in SUBSET MailId /\ A \in SUBSET AuctionId
    BY Rows
<1>2. [m \in M |-> Value(d.mail[m].money)] = Part(MailGolds(d), M)
    BY <1>1, Rows DEF Part, MailGolds, MailGold
<1>3. [a \in A |-> d.auctionhouse[a].bid + d.auctionhouse[a].deposit] = Part(BidGolds(d), A)
    BY <1>1, Rows DEF Part, BidGolds, BidGold
<1>4. Total(MailGolds(d)) = Total(Part(MailGolds(d), M))
    <2>1. \A m \in MailId \ M : Part(MailGolds(d), MailId \ M)[m] = 0
        BY Rows DEF Part, MailGolds, MailGold
    <2>2. /\ IsFiniteSet(MailId \ M) /\ Part(MailGolds(d), MailId \ M) \in [MailId \ M -> Nat]
          /\ IsFiniteSet(M) /\ Part(MailGolds(d), M) \in [M -> Nat]
        BY <1>1, Golds, Keys, FS_Subset DEF Part
    <2>3. SumOf(Part(MailGolds(d), MailId \ M)) = 0 /\ SumOf(Part(MailGolds(d), M)) \in Nat
        BY <2>1, <2>2, SumZero, SumNat
    <2>4. SumOf(MailGolds(d)) = SumOf(Part(MailGolds(d), M)) + SumOf(Part(MailGolds(d), MailId \ M))
        BY <1>1, Golds, Keys, SumSplit
    <2> QED
        BY <2>3, <2>4, TotalIsSum
<1>5. Total(BidGolds(d)) = Total(Part(BidGolds(d), A))
    <2>1. \A a \in AuctionId \ A : Part(BidGolds(d), AuctionId \ A)[a] = 0
        BY Rows DEF Part, BidGolds, BidGold
    <2>2. /\ IsFiniteSet(AuctionId \ A) /\ Part(BidGolds(d), AuctionId \ A) \in [AuctionId \ A -> Nat]
          /\ IsFiniteSet(A) /\ Part(BidGolds(d), A) \in [A -> Nat]
        BY <1>1, Golds, Keys, FS_Subset DEF Part
    <2>3. SumOf(Part(BidGolds(d), AuctionId \ A)) = 0 /\ SumOf(Part(BidGolds(d), A)) \in Nat
        BY <2>1, <2>2, SumZero, SumNat
    <2>4. SumOf(BidGolds(d)) = SumOf(Part(BidGolds(d), A)) + SumOf(Part(BidGolds(d), AuctionId \ A))
        BY <1>1, Golds, Keys, SumSplit
    <2> QED
        BY <2>3, <2>4, TotalIsSum
<1> QED
    BY <1>2, <1>3, <1>4, <1>5 DEF GoldIn, Gold
-----------------------------------------------------------------------------
(* The moves that operations are made of. Each changes one table, and moves    *)
(* gold or an item between the tables and what is loose.                       *)

PutMoney(d, p, v) == [d EXCEPT !.money = [@ EXCEPT ![p] = v]]
PutFee(d, sum) == [d EXCEPT !.fees = @ + sum]
PutInventory(d, inventory) == [d EXCEPT !.inventory = inventory]
PutItem(d, i, m) == [d EXCEPT !.mail_items = [@ EXCEPT ![i] = m]]
PutItems(d, items) == [d EXCEPT !.mail_items = items]
PutMail(d, m, row) == [d EXCEPT !.mail = [@ EXCEPT ![m] = row]]
PutAuction(d, a, row) == [d EXCEPT !.auctionhouse = [@ EXCEPT ![a] = row]]
Destroy(d, i) == [d EXCEPT !.instance = @ \ {i}]
Lose(d, S) == [d EXCEPT !.lost = @ \union S]

(* The tables d and e are the same but for one. *)
ButMoney(d, e) ==
    /\ d \in Tables /\ e \in Tables
    /\ e.instance = d.instance /\ e.inventory = d.inventory /\ e.mail = d.mail
    /\ e.mail_items = d.mail_items /\ e.auctionhouse = d.auctionhouse /\ e.fees = d.fees
    /\ e.lost = d.lost

ButInstance(d, e) ==
    /\ d \in Tables /\ e \in Tables
    /\ e.money = d.money /\ e.inventory = d.inventory /\ e.mail = d.mail
    /\ e.mail_items = d.mail_items /\ e.auctionhouse = d.auctionhouse /\ e.fees = d.fees
    /\ e.lost = d.lost

ButInventory(d, e) ==
    /\ d \in Tables /\ e \in Tables
    /\ e.money = d.money /\ e.instance = d.instance /\ e.mail = d.mail
    /\ e.mail_items = d.mail_items /\ e.auctionhouse = d.auctionhouse /\ e.fees = d.fees
    /\ e.lost = d.lost

ButMail(d, e) ==
    /\ d \in Tables /\ e \in Tables
    /\ e.money = d.money /\ e.instance = d.instance /\ e.inventory = d.inventory
    /\ e.mail_items = d.mail_items /\ e.auctionhouse = d.auctionhouse /\ e.fees = d.fees
    /\ e.lost = d.lost

ButItems(d, e) ==
    /\ d \in Tables /\ e \in Tables
    /\ e.money = d.money /\ e.instance = d.instance /\ e.inventory = d.inventory
    /\ e.mail = d.mail /\ e.auctionhouse = d.auctionhouse /\ e.fees = d.fees
    /\ e.lost = d.lost

ButAuctions(d, e) ==
    /\ d \in Tables /\ e \in Tables
    /\ e.money = d.money /\ e.instance = d.instance /\ e.inventory = d.inventory
    /\ e.mail = d.mail /\ e.mail_items = d.mail_items /\ e.fees = d.fees
    /\ e.lost = d.lost

ButFees(d, e) ==
    /\ d \in Tables /\ e \in Tables
    /\ e.money = d.money /\ e.instance = d.instance /\ e.inventory = d.inventory
    /\ e.mail = d.mail /\ e.mail_items = d.mail_items /\ e.auctionhouse = d.auctionhouse
    /\ e.lost = d.lost

ButLost(d, e) ==
    /\ d \in Tables /\ e \in Tables
    /\ e.money = d.money /\ e.instance = d.instance /\ e.inventory = d.inventory
    /\ e.mail = d.mail /\ e.mail_items = d.mail_items /\ e.auctionhouse = d.auctionhouse
    /\ e.fees = d.fees

(* The items of a mail that are left. *)
Inside(d, m) == {i \in d.instance : d.mail_items[i] = m}

(* From the tables d to e, no more has changed than the purses and bags of P   *)
(* and the mails of D; there may be new mails.                                 *)
Touches(d, e, P, D) ==
    /\ \A r \in Player \ P : e.money[r] = d.money[r] /\ ItemsOf(e, r) = ItemsOf(d, r)
    /\ \A m \in RowsOf(d.mail) \ D : e.mail[m] = d.mail[m] /\ Inside(e, m) = Inside(d, m)

(* What each move puts into its table: for purses,                             *)
LEMMA PutMoneyPuts ==
    ASSUME NEW d \in Tables, NEW p \in Player, NEW v \in Nat
    PROVE  ButMoney(d, PutMoney(d, p, v)) /\ PutMoney(d, p, v).money = [d.money EXCEPT ![p] = v]
BY DEF PutMoney, ButMoney, Tables

(* for gold that leaves the game,                                              *)
LEMMA PutFeePuts ==
    ASSUME NEW d \in Tables, NEW sum \in Nat
    PROVE  ButFees(d, PutFee(d, sum)) /\ PutFee(d, sum).fees = d.fees + sum
BY DEF PutFee, ButFees, Tables

(* for bags,                                                                   *)
LEMMA PutInventoryPuts ==
    ASSUME NEW d \in Tables, NEW new \in [Item -> Player \union {None}]
    PROVE  ButInventory(d, PutInventory(d, new)) /\ PutInventory(d, new).inventory = new
BY DEF PutInventory, ButInventory, Tables

(* for the items of mails,                                                     *)
LEMMA PutItemPuts ==
    ASSUME NEW d \in Tables, NEW i \in Item, NEW m \in MailId \union {None}
    PROVE  ButItems(d, PutItem(d, i, m)) /\ PutItem(d, i, m).mail_items = [d.mail_items EXCEPT ![i] = m]
BY DEF PutItem, ButItems, Tables

(* for mails,                                                                  *)
LEMMA PutMailPuts ==
    ASSUME NEW d \in Tables, NEW m \in MailId, NEW row \in MailRow \union {None}
    PROVE  ButMail(d, PutMail(d, m, row)) /\ PutMail(d, m, row).mail = [d.mail EXCEPT ![m] = row]
BY DEF PutMail, ButMail, Tables

(* for auctions,                                                               *)
LEMMA PutAuctionPuts ==
    ASSUME NEW d \in Tables, NEW a \in AuctionId, NEW row \in AuctionRow \union {None}
    PROVE  ButAuctions(d, PutAuction(d, a, row)) /\ PutAuction(d, a, row).auctionhouse = [d.auctionhouse EXCEPT ![a] = row]
BY DEF PutAuction, ButAuctions, Tables

(* for the items there are,                                                    *)
LEMMA DestroyPuts ==
    ASSUME NEW d \in Tables, NEW i
    PROVE  ButInstance(d, Destroy(d, i)) /\ Destroy(d, i).instance = d.instance \ {i}
BY DEF Destroy, ButInstance, Tables

(* and for those that were lost.                                               *)
LEMMA LosePuts ==
    ASSUME NEW d \in Tables, NEW S \in SUBSET Item
    PROVE  ButLost(d, Lose(d, S)) /\ Lose(d, S).lost = d.lost \union S
BY DEF Lose, ButLost, Tables

(* Gold moves between a purse and those who hold it. *)
LEMMA MoneyMoves ==
    ASSUME NEW d, NEW gold, NEW loose, Sound(d, gold, loose),
           NEW p \in Player, NEW v \in Nat, v <= MaxMoney
    PROVE  LET e == PutMoney(d, p, v)
           IN  /\ Sound(e, gold + d.money[p] - v, loose)
               /\ ButMoney(d, e) /\ e.money = [d.money EXCEPT ![p] = v]
               /\ Touches(d, e, {p}, {})
<1> DEFINE e == PutMoney(d, p, v)
<1>0. d \in Tables /\ gold \in Int
    BY DEF Sound
<1>1. ButMoney(d, e) /\ e.money = [d.money EXCEPT ![p] = v]
    BY <1>0, Keys, PutMoneyPuts DEF Sound, Tables
<1> HIDE DEF e
<1>2. Gold(e) + e.fees + (gold + d.money[p] - v) = Endowment /\ gold + d.money[p] - v \in Int
    <2>1. Gold(e) = Gold(d) + v - d.money[p] /\ d.money[p] \in Nat
        BY <1>0, <1>1, MoneyChanges DEF ButMoney
    <2> QED
        BY <1>0, <1>1, <2>1, Golds DEF Sound, ButMoney
<1>3. Placed(e, loose)
    BY <1>0, <1>1, Keys, Rows DEF Sound, Placed, InBag, InMail, OnSale, Inside, Tables, ButMoney
<1>4. SumsInOrder(e)
    BY <1>0, <1>1, Keys, Rows DEF Sound, SumsInOrder, BidsInOrder, MailsInOrder, Tables, ButMoney
<1>5. \A r \in Player : e.money[r] <= MaxMoney
    BY <1>0, <1>1 DEF Sound, Tables, ButMoney
<1>6. Touches(d, e, {p}, {})
    BY <1>0, <1>1, Keys, Rows DEF Sound, Placed, InBag, InMail, OnSale, Touches, ItemsOf, Inside, Tables, ButMoney
<1>7. Sound(e, gold + d.money[p] - v, loose)
    BY <1>1, <1>2, <1>3, <1>4, <1>5 DEF Sound, ButMoney
<1> QED
    BY <1>1, <1>6, <1>7 DEF e

(* Gold leaves the game. *)
LEMMA FeesMove ==
    ASSUME NEW d, NEW gold, NEW loose, Sound(d, gold, loose),
           NEW sum \in Nat
    PROVE  LET e == PutFee(d, sum)
           IN  /\ Sound(e, gold - sum, loose)
               /\ ButFees(d, e) /\ e.fees = d.fees + sum
               /\ Touches(d, e, {}, {})
<1> DEFINE e == PutFee(d, sum)
<1>0. d \in Tables /\ gold \in Int
    BY DEF Sound
<1>1. ButFees(d, e) /\ e.fees = d.fees + sum
    BY <1>0, Keys, PutFeePuts DEF Sound, Tables
<1> HIDE DEF e
<1>2. Gold(e) + e.fees + (gold - sum) = Endowment /\ gold - sum \in Int
    <2>1. Gold(e) = Gold(d)
        BY <1>1 DEF Gold, MailGolds, BidGolds, ButFees
    <2> QED
        BY <1>0, <1>1, <2>1, Golds DEF Sound, ButFees
<1>3. Placed(e, loose)
    BY <1>0, <1>1, Keys, Rows DEF Sound, Placed, InBag, InMail, OnSale, Inside, Tables, ButFees
<1>4. SumsInOrder(e)
    BY <1>0, <1>1, Keys, Rows DEF Sound, SumsInOrder, BidsInOrder, MailsInOrder, Tables, ButFees
<1>5. \A r \in Player : e.money[r] <= MaxMoney
    BY <1>0, <1>1 DEF Sound, Tables, ButFees
<1>6. Touches(d, e, {}, {})
    BY <1>0, <1>1, Keys, Rows DEF Sound, Placed, InBag, InMail, OnSale, Touches, ItemsOf, Inside, Tables, ButFees
<1>7. Sound(e, gold - sum, loose)
    BY <1>1, <1>2, <1>3, <1>4, <1>5 DEF Sound, ButFees
<1> QED
    BY <1>1, <1>6, <1>7 DEF e

(* An item leaves a bag. *)
LEMMA BagLoses ==
    ASSUME NEW d, NEW gold, NEW loose, Sound(d, gold, loose),
           NEW i \in d.instance, NEW p \in Player, d.inventory[i] = p
    PROVE  LET e == PutInventory(d, [d.inventory EXCEPT ![i] = None])
           IN  /\ Sound(e, gold, loose \union {i})
               /\ ButInventory(d, e) /\ e.inventory = [d.inventory EXCEPT ![i] = None]
               /\ Touches(d, e, {p}, {})
<1> DEFINE e == PutInventory(d, [d.inventory EXCEPT ![i] = None])
<1>0. d \in Tables /\ gold \in Int
    BY DEF Sound
<1>1. ButInventory(d, e) /\ e.inventory = [d.inventory EXCEPT ![i] = None]
    BY <1>0, Keys, PutInventoryPuts DEF Sound, Tables
<1> HIDE DEF e
<1>2. Gold(e) + e.fees + (gold) = Endowment /\ gold \in Int
    <2>1. Gold(e) = Gold(d)
        BY <1>1 DEF Gold, MailGolds, BidGolds, ButInventory
    <2> QED
        BY <1>0, <1>1, <2>1, Golds DEF Sound, ButInventory
<1>3. Placed(e, loose \union {i})
    BY <1>0, <1>1, Keys, Rows DEF Sound, Placed, InBag, InMail, OnSale, Inside, Tables, ButInventory
<1>4. SumsInOrder(e)
    BY <1>0, <1>1, Keys, Rows DEF Sound, SumsInOrder, BidsInOrder, MailsInOrder, Tables, ButInventory
<1>5. \A r \in Player : e.money[r] <= MaxMoney
    BY <1>0, <1>1 DEF Sound, Tables, ButInventory
<1>6. Touches(d, e, {p}, {})
    BY <1>0, <1>1, Keys, Rows DEF Sound, Placed, InBag, InMail, OnSale, Touches, ItemsOf, Inside, Tables, ButInventory
<1>7. Sound(e, gold, loose \union {i})
    BY <1>1, <1>2, <1>3, <1>4, <1>5 DEF Sound, ButInventory
<1> QED
    BY <1>1, <1>6, <1>7 DEF e

(* An item comes into a bag. *)
LEMMA BagGets ==
    ASSUME NEW d, NEW gold, NEW loose, Sound(d, gold, loose),
           NEW i \in loose, NEW p \in Player
    PROVE  LET e == PutInventory(d, [d.inventory EXCEPT ![i] = p])
           IN  /\ Sound(e, gold, loose \ {i})
               /\ ButInventory(d, e) /\ e.inventory = [d.inventory EXCEPT ![i] = p]
               /\ Touches(d, e, {p}, {})
<1> DEFINE e == PutInventory(d, [d.inventory EXCEPT ![i] = p])
<1>0. d \in Tables /\ gold \in Int
    BY DEF Sound
<1>1. ButInventory(d, e) /\ e.inventory = [d.inventory EXCEPT ![i] = p]
    <2>1. i \in Item
        BY <1>0 DEF Sound, Placed, Tables
    <2> QED
        BY <1>0, <2>1, PutInventoryPuts DEF Tables
<1> HIDE DEF e
<1>2. Gold(e) + e.fees + (gold) = Endowment /\ gold \in Int
    <2>1. Gold(e) = Gold(d)
        BY <1>1 DEF Gold, MailGolds, BidGolds, ButInventory
    <2> QED
        BY <1>0, <1>1, <2>1, Golds DEF Sound, ButInventory
<1>3. Placed(e, loose \ {i})
    BY <1>0, <1>1, Keys, Rows DEF Sound, Placed, InBag, InMail, OnSale, Inside, Tables, ButInventory
<1>4. SumsInOrder(e)
    BY <1>0, <1>1, Keys, Rows DEF Sound, SumsInOrder, BidsInOrder, MailsInOrder, Tables, ButInventory
<1>5. \A r \in Player : e.money[r] <= MaxMoney
    BY <1>0, <1>1 DEF Sound, Tables, ButInventory
<1>6. Touches(d, e, {p}, {})
    BY <1>0, <1>1, Keys, Rows DEF Sound, Placed, InBag, InMail, OnSale, Touches, ItemsOf, Inside, Tables, ButInventory
<1>7. Sound(e, gold, loose \ {i})
    BY <1>1, <1>2, <1>3, <1>4, <1>5 DEF Sound, ButInventory
<1> QED
    BY <1>1, <1>6, <1>7 DEF e

(* Items go from one bag to another. *)
LEMMA BagsExchange ==
    ASSUME NEW d, NEW gold, NEW loose, Sound(d, gold, loose),
           NEW P \in SUBSET Player, NEW new \in [Item -> Player \union {None}],
           \A i \in d.instance : IF d.inventory[i] \in P THEN new[i] \in P ELSE new[i] = d.inventory[i]
    PROVE  LET e == PutInventory(d, new)
           IN  /\ Sound(e, gold, loose)
               /\ ButInventory(d, e) /\ e.inventory = new
               /\ Touches(d, e, P, {})
<1> DEFINE e == PutInventory(d, new)
<1>0. d \in Tables /\ gold \in Int
    BY DEF Sound
<1>1. ButInventory(d, e) /\ e.inventory = new
    BY <1>0, Keys, PutInventoryPuts DEF Sound, Tables
<1> HIDE DEF e
<1>2. Gold(e) + e.fees + (gold) = Endowment /\ gold \in Int
    <2>1. Gold(e) = Gold(d)
        BY <1>1 DEF Gold, MailGolds, BidGolds, ButInventory
    <2> QED
        BY <1>0, <1>1, <2>1, Golds DEF Sound, ButInventory
<1>3. Placed(e, loose)
    BY <1>0, <1>1, Keys, Rows DEF Sound, Placed, InBag, InMail, OnSale, Inside, Tables, ButInventory
<1>4. SumsInOrder(e)
    BY <1>0, <1>1, Keys, Rows DEF Sound, SumsInOrder, BidsInOrder, MailsInOrder, Tables, ButInventory
<1>5. \A r \in Player : e.money[r] <= MaxMoney
    BY <1>0, <1>1 DEF Sound, Tables, ButInventory
<1>6. Touches(d, e, P, {})
    BY <1>0, <1>1, Keys, Rows DEF Sound, Placed, InBag, InMail, OnSale, Touches, ItemsOf, Inside, Tables, ButInventory
<1>7. Sound(e, gold, loose)
    BY <1>1, <1>2, <1>3, <1>4, <1>5 DEF Sound, ButInventory
<1> QED
    BY <1>1, <1>6, <1>7 DEF e

(* An item leaves a mail. *)
LEMMA MailLoses ==
    ASSUME NEW d, NEW gold, NEW loose, Sound(d, gold, loose),
           NEW i \in d.instance, NEW m \in MailId, d.mail_items[i] = m
    PROVE  LET e == PutItem(d, i, None)
           IN  /\ Sound(e, gold, loose \union {i})
               /\ ButItems(d, e) /\ e.mail_items = [d.mail_items EXCEPT ![i] = None]
               /\ Touches(d, e, {}, {m})
<1> DEFINE e == PutItem(d, i, None)
<1>0. d \in Tables /\ gold \in Int
    BY DEF Sound
<1>1. ButItems(d, e) /\ e.mail_items = [d.mail_items EXCEPT ![i] = None]
    <2>1. i \in Item /\ None \in MailId \union {None}
        BY <1>0 DEF Tables
    <2> QED
        BY <1>0, <2>1, PutItemPuts
<1> HIDE DEF e
<1>2. Gold(e) + e.fees + (gold) = Endowment /\ gold \in Int
    <2>1. Gold(e) = Gold(d)
        BY <1>1 DEF Gold, MailGolds, BidGolds, ButItems
    <2> QED
        BY <1>0, <1>1, <2>1, Golds DEF Sound, ButItems
<1>3. Placed(e, loose \union {i})
    BY <1>0, <1>1, Keys, Rows DEF Sound, Placed, InBag, InMail, OnSale, Inside, Tables, ButItems
<1>4. SumsInOrder(e)
    BY <1>0, <1>1, Keys, Rows DEF Sound, SumsInOrder, BidsInOrder, MailsInOrder, Tables, ButItems
<1>5. \A r \in Player : e.money[r] <= MaxMoney
    BY <1>0, <1>1 DEF Sound, Tables, ButItems
<1>6. Touches(d, e, {}, {m})
    BY <1>0, <1>1, Keys, Rows DEF Sound, Placed, InBag, InMail, OnSale, Touches, ItemsOf, Inside, Tables, ButItems
<1>7. Sound(e, gold, loose \union {i})
    BY <1>1, <1>2, <1>3, <1>4, <1>5 DEF Sound, ButItems
<1> QED
    BY <1>1, <1>6, <1>7 DEF e

(* An item is put into a mail that has none. *)
LEMMA MailGets ==
    ASSUME NEW d, NEW gold, NEW loose, Sound(d, gold, loose),
           NEW i \in loose, NEW m \in MailId, d.mail[m] # None, Inside(d, m) = {}
    PROVE  LET e == PutItem(d, i, m)
           IN  /\ Sound(e, gold, loose \ {i})
               /\ ButItems(d, e) /\ e.mail_items = [d.mail_items EXCEPT ![i] = m]
               /\ Touches(d, e, {}, {m})
<1> DEFINE e == PutItem(d, i, m)
<1>0. d \in Tables /\ gold \in Int
    BY DEF Sound
<1>1. ButItems(d, e) /\ e.mail_items = [d.mail_items EXCEPT ![i] = m]
    <2>1. i \in Item /\ m \in MailId \union {None}
        BY <1>0 DEF Sound, Placed, Tables
    <2> QED
        BY <1>0, <2>1, PutItemPuts
<1> HIDE DEF e
<1>2. Gold(e) + e.fees + (gold) = Endowment /\ gold \in Int
    <2>1. Gold(e) = Gold(d)
        BY <1>1 DEF Gold, MailGolds, BidGolds, ButItems
    <2> QED
        BY <1>0, <1>1, <2>1, Golds DEF Sound, ButItems
<1>3. Placed(e, loose \ {i})
    BY <1>0, <1>1, Keys, Rows DEF Sound, Placed, InBag, InMail, OnSale, Inside, Tables, ButItems
<1>4. SumsInOrder(e)
    BY <1>0, <1>1, Keys, Rows DEF Sound, SumsInOrder, BidsInOrder, MailsInOrder, Tables, ButItems
<1>5. \A r \in Player : e.money[r] <= MaxMoney
    BY <1>0, <1>1 DEF Sound, Tables, ButItems
<1>6. Touches(d, e, {}, {m})
    BY <1>0, <1>1, Keys, Rows DEF Sound, Placed, InBag, InMail, OnSale, Touches, ItemsOf, Inside, Tables, ButItems
<1>7. Sound(e, gold, loose \ {i})
    BY <1>1, <1>2, <1>3, <1>4, <1>5 DEF Sound, ButItems
<1> QED
    BY <1>1, <1>6, <1>7 DEF e

(* The rows of items that are no more mean nothing. *)
LEMMA OthersMove ==
    ASSUME NEW d, NEW gold, NEW loose, Sound(d, gold, loose),
           NEW items \in [Item -> MailId \union {None}],
           \A i \in d.instance : items[i] = d.mail_items[i]
    PROVE  LET e == PutItems(d, items)
           IN  /\ Sound(e, gold, loose)
               /\ ButItems(d, e) /\ e.mail_items = items
               /\ Touches(d, e, {}, {})
<1> DEFINE e == PutItems(d, items)
<1>0. d \in Tables /\ gold \in Int
    BY DEF Sound
<1>1. ButItems(d, e) /\ e.mail_items = items
    BY <1>0 DEF PutItems, ButItems, Tables
<1> HIDE DEF e
<1>2. Gold(e) + e.fees + (gold) = Endowment /\ gold \in Int
    <2>1. Gold(e) = Gold(d)
        BY <1>1 DEF Gold, MailGolds, BidGolds, ButItems
    <2> QED
        BY <1>0, <1>1, <2>1, Golds DEF Sound, ButItems
<1>3. Placed(e, loose)
    BY <1>0, <1>1, Keys, Rows DEF Sound, Placed, InBag, InMail, OnSale, Inside, Tables, ButItems
<1>4. SumsInOrder(e)
    BY <1>0, <1>1, Keys, Rows DEF Sound, SumsInOrder, BidsInOrder, MailsInOrder, Tables, ButItems
<1>5. \A r \in Player : e.money[r] <= MaxMoney
    BY <1>0, <1>1 DEF Sound, Tables, ButItems
<1>6. Touches(d, e, {}, {})
    BY <1>0, <1>1, Keys, Rows DEF Touches, ItemsOf, Inside, Tables, ButItems
<1>7. Sound(e, gold, loose)
    BY <1>1, <1>2, <1>3, <1>4, <1>5 DEF Sound, ButItems
<1> QED
    BY <1>1, <1>6, <1>7 DEF e

(* A mail with gold in it is written. *)
LEMMA MailComes ==
    ASSUME NEW d, NEW gold, NEW loose, Sound(d, gold, loose),
           NEW m \in MailId, d.mail[m] = None, NEW row \in MailRow, row.money < Word
    PROVE  LET e == PutMail(d, m, row)
           IN  /\ Sound(e, gold - Value(row.money), loose)
               /\ ButMail(d, e) /\ e.mail = [d.mail EXCEPT ![m] = row]
               /\ Touches(d, e, {}, {})
<1> DEFINE e == PutMail(d, m, row)
<1>0. d \in Tables /\ gold \in Int
    BY DEF Sound
<1>1. ButMail(d, e) /\ e.mail = [d.mail EXCEPT ![m] = row]
    BY <1>0, Keys, PutMailPuts DEF Sound, Tables
<1> HIDE DEF e
<1>2. Gold(e) + e.fees + (gold - Value(row.money)) = Endowment /\ gold - Value(row.money) \in Int
    <2>1. Gold(e) = Gold(d) + MailGold(row) - MailGold(d.mail[m])
          /\ MailGold(row) \in Nat /\ MailGold(d.mail[m]) \in Nat
        BY <1>0, <1>1, MailChanges DEF ButMail
    <2> QED
        BY <1>0, <1>1, <2>1, Golds, Keys DEF Sound, MailGold, ButMail
<1>3. Placed(e, loose)
    BY <1>0, <1>1, Keys, Rows DEF Sound, Placed, InBag, InMail, OnSale, Inside, Tables, ButMail
<1>4. SumsInOrder(e)
    <2>1. BidsInOrder(e)
        BY <1>1 DEF Sound, SumsInOrder, BidsInOrder, ButMail
    <2>2. MailsInOrder(e)
        <3> SUFFICES ASSUME NEW k \in RowsOf(e.mail) PROVE e.mail[k].money < Word
            BY DEF MailsInOrder
        <3>1. k \in MailId /\ k \in DOMAIN d.mail /\ (k # m => e.mail[k] = d.mail[k] /\ k \in RowsOf(d.mail))
            BY <1>0, <1>1 DEF RowsOf, Tables
        <3>2. \A j \in RowsOf(d.mail) : d.mail[j].money < Word
            BY DEF Sound, SumsInOrder, MailsInOrder
        <3> QED
            BY <1>1, <3>1, <3>2 DEF RowsOf
    <2> QED
        BY <2>1, <2>2 DEF SumsInOrder
<1>5. \A r \in Player : e.money[r] <= MaxMoney
    BY <1>0, <1>1 DEF Sound, Tables, ButMail
<1>6. Touches(d, e, {}, {})
    BY <1>0, <1>1, Keys, Rows DEF Sound, Placed, InBag, InMail, OnSale, Touches, ItemsOf, Inside, Tables, ButMail
<1>7. Sound(e, gold - Value(row.money), loose)
    BY <1>1, <1>2, <1>3, <1>4, <1>5 DEF Sound, ButMail
<1> QED
    BY <1>1, <1>6, <1>7 DEF e

(* A mail is changed. *)
LEMMA MailIsChanged ==
    ASSUME NEW d, NEW gold, NEW loose, Sound(d, gold, loose),
           NEW m \in MailId, d.mail[m] # None, NEW row \in MailRow, row.money < Word
    PROVE  LET e == PutMail(d, m, row)
           IN  /\ Sound(e, gold + Value(d.mail[m].money) - Value(row.money), loose)
               /\ ButMail(d, e) /\ e.mail = [d.mail EXCEPT ![m] = row]
               /\ Touches(d, e, {}, {m})
<1> DEFINE e == PutMail(d, m, row)
<1>0. d \in Tables /\ gold \in Int
    BY DEF Sound
<1>1. ButMail(d, e) /\ e.mail = [d.mail EXCEPT ![m] = row]
    BY <1>0, Keys, PutMailPuts DEF Sound, Tables
<1> HIDE DEF e
<1>2. Gold(e) + e.fees + (gold + Value(d.mail[m].money) - Value(row.money)) = Endowment /\ gold + Value(d.mail[m].money) - Value(row.money) \in Int
    <2>1. Gold(e) = Gold(d) + MailGold(row) - MailGold(d.mail[m])
          /\ MailGold(row) \in Nat /\ MailGold(d.mail[m]) \in Nat
        BY <1>0, <1>1, MailChanges DEF ButMail
    <2> QED
        BY <1>0, <1>1, <2>1, Golds, Keys DEF Sound, MailGold, ButMail
<1>3. Placed(e, loose)
    BY <1>0, <1>1, Keys, Rows DEF Sound, Placed, InBag, InMail, OnSale, Inside, Tables, ButMail
<1>4. SumsInOrder(e)
    <2>1. BidsInOrder(e)
        BY <1>1 DEF Sound, SumsInOrder, BidsInOrder, ButMail
    <2>2. MailsInOrder(e)
        <3> SUFFICES ASSUME NEW k \in RowsOf(e.mail) PROVE e.mail[k].money < Word
            BY DEF MailsInOrder
        <3>1. k \in MailId /\ k \in DOMAIN d.mail /\ (k # m => e.mail[k] = d.mail[k] /\ k \in RowsOf(d.mail))
            BY <1>0, <1>1 DEF RowsOf, Tables
        <3>2. \A j \in RowsOf(d.mail) : d.mail[j].money < Word
            BY DEF Sound, SumsInOrder, MailsInOrder
        <3> QED
            BY <1>1, <3>1, <3>2 DEF RowsOf
    <2> QED
        BY <2>1, <2>2 DEF SumsInOrder
<1>5. \A r \in Player : e.money[r] <= MaxMoney
    BY <1>0, <1>1 DEF Sound, Tables, ButMail
<1>6. Touches(d, e, {}, {m})
    BY <1>0, <1>1, Keys, Rows DEF Sound, Placed, InBag, InMail, OnSale, Touches, ItemsOf, Inside, Tables, ButMail
<1>7. Sound(e, gold + Value(d.mail[m].money) - Value(row.money), loose)
    BY <1>1, <1>2, <1>3, <1>4, <1>5 DEF Sound, ButMail
<1> QED
    BY <1>1, <1>6, <1>7 DEF e

(* A mail without an item is deleted. *)
LEMMA MailGoes ==
    ASSUME NEW d, NEW gold, NEW loose, Sound(d, gold, loose),
           NEW m \in MailId, d.mail[m] # None, Inside(d, m) = {}
    PROVE  LET e == PutMail(d, m, None)
           IN  /\ Sound(e, gold + Value(d.mail[m].money), loose)
               /\ ButMail(d, e) /\ e.mail = [d.mail EXCEPT ![m] = None]
               /\ Touches(d, e, {}, {m})
<1> DEFINE e == PutMail(d, m, None)
<1>0. d \in Tables /\ gold \in Int
    BY DEF Sound
<1>1. ButMail(d, e) /\ e.mail = [d.mail EXCEPT ![m] = None]
    BY <1>0, Keys, PutMailPuts DEF Sound, Tables
<1> HIDE DEF e
<1>2. Gold(e) + e.fees + (gold + Value(d.mail[m].money)) = Endowment /\ gold + Value(d.mail[m].money) \in Int
    <2>1. Gold(e) = Gold(d) + MailGold(None) - MailGold(d.mail[m])
          /\ MailGold(None) \in Nat /\ MailGold(d.mail[m]) \in Nat
        BY <1>0, <1>1, MailChanges DEF ButMail
    <2> QED
        BY <1>0, <1>1, <2>1, Golds, Keys DEF Sound, MailGold, ButMail
<1>3. Placed(e, loose)
    BY <1>0, <1>1, Keys, Rows DEF Sound, Placed, InBag, InMail, OnSale, Inside, Tables, ButMail
<1>4. SumsInOrder(e)
    <2>1. BidsInOrder(e)
        BY <1>1 DEF Sound, SumsInOrder, BidsInOrder, ButMail
    <2>2. MailsInOrder(e)
        <3> SUFFICES ASSUME NEW k \in RowsOf(e.mail) PROVE e.mail[k].money < Word
            BY DEF MailsInOrder
        <3>1. k \in MailId /\ k \in DOMAIN d.mail /\ (k # m => e.mail[k] = d.mail[k] /\ k \in RowsOf(d.mail))
            BY <1>0, <1>1 DEF RowsOf, Tables
        <3>2. \A j \in RowsOf(d.mail) : d.mail[j].money < Word
            BY DEF Sound, SumsInOrder, MailsInOrder
        <3> QED
            BY <1>1, <3>1, <3>2 DEF RowsOf
    <2> QED
        BY <2>1, <2>2 DEF SumsInOrder
<1>5. \A r \in Player : e.money[r] <= MaxMoney
    BY <1>0, <1>1 DEF Sound, Tables, ButMail
<1>6. Touches(d, e, {}, {m})
    BY <1>0, <1>1, Keys, Rows DEF Sound, Placed, InBag, InMail, OnSale, Touches, ItemsOf, Inside, Tables, ButMail
<1>7. Sound(e, gold + Value(d.mail[m].money), loose)
    BY <1>1, <1>2, <1>3, <1>4, <1>5 DEF Sound, ButMail
<1> QED
    BY <1>1, <1>6, <1>7 DEF e

(* A new auction takes an item and a deposit. *)
LEMMA AuctionComes ==
    ASSUME NEW d, NEW gold, NEW loose, Sound(d, gold, loose),
           NEW a \in AuctionId, d.auctionhouse[a] = None, NEW row \in AuctionRow,
           row.item \in loose, row.bidder = None => row.bid = 0,
           row.buyout # 0 => row.bid < row.buyout, row.bid <= MaxMoney,
           row.deposit <= MaxMoney
    PROVE  LET e == PutAuction(d, a, row)
           IN  /\ Sound(e, gold - (row.bid + row.deposit), loose \ {row.item})
               /\ ButAuctions(d, e) /\ e.auctionhouse = [d.auctionhouse EXCEPT ![a] = row]
               /\ Touches(d, e, {}, {})
<1> DEFINE e == PutAuction(d, a, row)
<1>0. d \in Tables /\ gold \in Int
    BY DEF Sound
<1>1. ButAuctions(d, e) /\ e.auctionhouse = [d.auctionhouse EXCEPT ![a] = row]
    BY <1>0, Keys, PutAuctionPuts DEF Sound, Tables
<1> HIDE DEF e
<1>2. Gold(e) + e.fees + (gold - (row.bid + row.deposit)) = Endowment /\ gold - (row.bid + row.deposit) \in Int
    <2>1. Gold(e) = Gold(d) + BidGold(row) - BidGold(d.auctionhouse[a])
          /\ BidGold(row) \in Nat /\ BidGold(d.auctionhouse[a]) \in Nat
        BY <1>0, <1>1, AuctionChanges DEF ButAuctions
    <2> QED
        BY <1>0, <1>1, <2>1, Golds, Keys, Rows DEF Sound, BidGold, AuctionRow, ButAuctions
<1>8. RowsOf(e.auctionhouse) = RowsOf(d.auctionhouse) \union {a} /\ e.auctionhouse[a] = row
      /\ \A b \in RowsOf(d.auctionhouse) \ {a} : e.auctionhouse[b] = d.auctionhouse[b]
    BY <1>0, <1>1, Keys DEF RowsOf, Tables, ButAuctions
<1>3. Placed(e, loose \ {row.item})
    BY <1>0, <1>1, <1>8, Keys, Rows DEF Sound, Placed, InBag, InMail, OnSale, Inside, Tables, ButAuctions
<1>4. SumsInOrder(e)
    BY <1>0, <1>1, <1>8, Keys, Rows DEF Sound, SumsInOrder, BidsInOrder, MailsInOrder, Tables, ButAuctions
<1>5. \A r \in Player : e.money[r] <= MaxMoney
    BY <1>0, <1>1 DEF Sound, Tables, ButAuctions
<1>6. Touches(d, e, {}, {})
    BY <1>0, <1>1, Keys, Rows DEF Sound, Placed, InBag, InMail, OnSale, Touches, ItemsOf, Inside, Tables, ButAuctions
<1>7. Sound(e, gold - (row.bid + row.deposit), loose \ {row.item})
    BY <1>1, <1>2, <1>3, <1>4, <1>5 DEF Sound, ButAuctions
<1> QED
    BY <1>1, <1>6, <1>7 DEF e

(* An auction gets a bid. *)
LEMMA AuctionIsChanged ==
    ASSUME NEW d, NEW gold, NEW loose, Sound(d, gold, loose),
           NEW a \in AuctionId, d.auctionhouse[a] # None, NEW row \in AuctionRow,
           row.item = d.auctionhouse[a].item, row.bidder = None => row.bid = 0,
           row.buyout # 0 => row.bid < row.buyout, row.bid <= MaxMoney,
           row.deposit <= MaxMoney
    PROVE  LET e == PutAuction(d, a, row)
           IN  /\ Sound(e, gold + (d.auctionhouse[a].bid + d.auctionhouse[a].deposit) - (row.bid + row.deposit), loose)
               /\ ButAuctions(d, e) /\ e.auctionhouse = [d.auctionhouse EXCEPT ![a] = row]
               /\ Touches(d, e, {}, {})
<1> DEFINE e == PutAuction(d, a, row)
<1>0. d \in Tables /\ gold \in Int
    BY DEF Sound
<1>1. ButAuctions(d, e) /\ e.auctionhouse = [d.auctionhouse EXCEPT ![a] = row]
    BY <1>0, Keys, PutAuctionPuts DEF Sound, Tables
<1> HIDE DEF e
<1>2. Gold(e) + e.fees + (gold + (d.auctionhouse[a].bid + d.auctionhouse[a].deposit) - (row.bid + row.deposit)) = Endowment /\ gold + (d.auctionhouse[a].bid + d.auctionhouse[a].deposit) - (row.bid + row.deposit) \in Int
    <2>1. Gold(e) = Gold(d) + BidGold(row) - BidGold(d.auctionhouse[a])
          /\ BidGold(row) \in Nat /\ BidGold(d.auctionhouse[a]) \in Nat
        BY <1>0, <1>1, AuctionChanges DEF ButAuctions
    <2> QED
        BY <1>0, <1>1, <2>1, Golds, Keys, Rows DEF Sound, BidGold, AuctionRow, ButAuctions
<1>8. RowsOf(e.auctionhouse) = RowsOf(d.auctionhouse) \union {a} /\ e.auctionhouse[a] = row
      /\ \A b \in RowsOf(d.auctionhouse) \ {a} : e.auctionhouse[b] = d.auctionhouse[b]
    BY <1>0, <1>1, Keys DEF RowsOf, Tables, ButAuctions
<1>3. Placed(e, loose)
    BY <1>0, <1>1, <1>8, Keys, Rows DEF Sound, Placed, InBag, InMail, OnSale, Inside, Tables, ButAuctions
<1>4. SumsInOrder(e)
    BY <1>0, <1>1, <1>8, Keys, Rows DEF Sound, SumsInOrder, BidsInOrder, MailsInOrder, Tables, ButAuctions
<1>5. \A r \in Player : e.money[r] <= MaxMoney
    BY <1>0, <1>1 DEF Sound, Tables, ButAuctions
<1>6. Touches(d, e, {}, {})
    BY <1>0, <1>1, Keys, Rows DEF Sound, Placed, InBag, InMail, OnSale, Touches, ItemsOf, Inside, Tables, ButAuctions
<1>7. Sound(e, gold + (d.auctionhouse[a].bid + d.auctionhouse[a].deposit) - (row.bid + row.deposit), loose)
    BY <1>1, <1>2, <1>3, <1>4, <1>5 DEF Sound, ButAuctions
<1> QED
    BY <1>1, <1>6, <1>7 DEF e

(* An auction ends. *)
LEMMA AuctionGoes ==
    ASSUME NEW d, NEW gold, NEW loose, Sound(d, gold, loose),
           NEW a \in AuctionId, d.auctionhouse[a] # None
    PROVE  LET e == PutAuction(d, a, None)
           IN  /\ Sound(e, gold + (d.auctionhouse[a].bid + d.auctionhouse[a].deposit), loose \union {d.auctionhouse[a].item})
               /\ ButAuctions(d, e) /\ e.auctionhouse = [d.auctionhouse EXCEPT ![a] = None]
               /\ Touches(d, e, {}, {})
<1> DEFINE e == PutAuction(d, a, None)
<1>0. d \in Tables /\ gold \in Int
    BY DEF Sound
<1>1. ButAuctions(d, e) /\ e.auctionhouse = [d.auctionhouse EXCEPT ![a] = None]
    BY <1>0, Keys, PutAuctionPuts DEF Sound, Tables
<1> HIDE DEF e
<1>2. Gold(e) + e.fees + (gold + (d.auctionhouse[a].bid + d.auctionhouse[a].deposit)) = Endowment /\ gold + (d.auctionhouse[a].bid + d.auctionhouse[a].deposit) \in Int
    <2>1. Gold(e) = Gold(d) + BidGold(None) - BidGold(d.auctionhouse[a])
          /\ BidGold(None) \in Nat /\ BidGold(d.auctionhouse[a]) \in Nat
        BY <1>0, <1>1, AuctionChanges DEF ButAuctions
    <2> QED
        BY <1>0, <1>1, <2>1, Golds, Keys, Rows DEF Sound, BidGold, AuctionRow, ButAuctions
<1>8. RowsOf(e.auctionhouse) = RowsOf(d.auctionhouse) \ {a}
      /\ \A b \in RowsOf(d.auctionhouse) \ {a} : e.auctionhouse[b] = d.auctionhouse[b]
    BY <1>0, <1>1, Keys DEF RowsOf, Tables, ButAuctions
<1>3. Placed(e, loose \union {d.auctionhouse[a].item})
    BY <1>0, <1>1, <1>8, Keys, Rows DEF Sound, Placed, InBag, InMail, OnSale, Inside, Tables, ButAuctions
<1>4. SumsInOrder(e)
    BY <1>0, <1>1, <1>8, Keys, Rows DEF Sound, SumsInOrder, BidsInOrder, MailsInOrder, Tables, ButAuctions
<1>5. \A r \in Player : e.money[r] <= MaxMoney
    BY <1>0, <1>1 DEF Sound, Tables, ButAuctions
<1>6. Touches(d, e, {}, {})
    BY <1>0, <1>1, Keys, Rows DEF Sound, Placed, InBag, InMail, OnSale, Touches, ItemsOf, Inside, Tables, ButAuctions
<1>7. Sound(e, gold + (d.auctionhouse[a].bid + d.auctionhouse[a].deposit), loose \union {d.auctionhouse[a].item})
    BY <1>1, <1>2, <1>3, <1>4, <1>5 DEF Sound, ButAuctions
<1> QED
    BY <1>1, <1>6, <1>7 DEF e

(* An item is destroyed. *)
LEMMA ItemGoes ==
    ASSUME NEW d, NEW gold, NEW loose, Sound(d, gold, loose),
           NEW i \in d.instance, NEW m \in MailId, d.mail_items[i] = m
    PROVE  LET e == Destroy(d, i)
           IN  /\ Sound(e, gold, loose \ {i})
               /\ ButInstance(d, e) /\ e.instance = d.instance \ {i}
               /\ Touches(d, e, {}, {m})
<1> DEFINE e == Destroy(d, i)
<1>0. d \in Tables /\ gold \in Int
    BY DEF Sound
<1>1. ButInstance(d, e) /\ e.instance = d.instance \ {i}
    BY <1>0, Keys, DestroyPuts DEF Sound, Tables
<1> HIDE DEF e
<1>2. Gold(e) + e.fees + (gold) = Endowment /\ gold \in Int
    <2>1. Gold(e) = Gold(d)
        BY <1>1 DEF Gold, MailGolds, BidGolds, ButInstance
    <2> QED
        BY <1>0, <1>1, <2>1, Golds DEF Sound, ButInstance
<1>3. Placed(e, loose \ {i})
    BY <1>0, <1>1, Keys, Rows DEF Sound, Placed, InBag, InMail, OnSale, Inside, Tables, ButInstance
<1>4. SumsInOrder(e)
    BY <1>0, <1>1, Keys, Rows DEF Sound, SumsInOrder, BidsInOrder, MailsInOrder, Tables, ButInstance
<1>5. \A r \in Player : e.money[r] <= MaxMoney
    BY <1>0, <1>1 DEF Sound, Tables, ButInstance
<1>6. Touches(d, e, {}, {m})
    BY <1>0, <1>1, Keys, Rows DEF Sound, Placed, InBag, InMail, OnSale, Touches, ItemsOf, Inside, Tables, ButInstance
<1>7. Sound(e, gold, loose \ {i})
    BY <1>1, <1>2, <1>3, <1>4, <1>5 DEF Sound, ButInstance
<1> QED
    BY <1>1, <1>6, <1>7 DEF e

(* Loose items are lost. *)
LEMMA ItemsAreLost ==
    ASSUME NEW d, NEW gold, NEW loose, Sound(d, gold, loose), NEW S \in SUBSET loose
    PROVE  LET e == Lose(d, S)
           IN  /\ Sound(e, gold, loose \ S)
               /\ ButLost(d, e) /\ e.lost = d.lost \union S
               /\ Touches(d, e, {}, {})
<1> DEFINE e == Lose(d, S)
<1>0. d \in Tables /\ gold \in Int /\ S \in SUBSET Item
    BY DEF Sound, Placed, Tables
<1>1. ButLost(d, e) /\ e.lost = d.lost \union S
    BY <1>0, LosePuts
<1> HIDE DEF e
<1>2. Gold(e) + e.fees + gold = Endowment
    <2>1. Gold(e) = Gold(d)
        BY <1>1 DEF Gold, MailGolds, BidGolds, ButLost
    <2> QED
        BY <1>0, <1>1, <2>1, Golds DEF Sound, ButLost
<1>3. Placed(e, loose \ S)
    BY <1>0, <1>1, Keys, Rows DEF Sound, Placed, InBag, InMail, OnSale, Inside, Tables, ButLost
<1>4. SumsInOrder(e)
    BY <1>0, <1>1, Keys, Rows DEF Sound, SumsInOrder, BidsInOrder, MailsInOrder, Tables, ButLost
<1>5. \A r \in Player : e.money[r] <= MaxMoney
    BY <1>0, <1>1 DEF Sound, Tables, ButLost
<1>6. Touches(d, e, {}, {})
    BY <1>0, <1>1, Keys, Rows DEF Touches, ItemsOf, Inside, Tables, ButLost
<1>7. Sound(e, gold, loose \ S)
    BY <1>0, <1>1, <1>2, <1>3, <1>4, <1>5 DEF Sound, ButLost
<1> QED
    BY <1>1, <1>6, <1>7 DEF e

-----------------------------------------------------------------------------
(* Operations, and what the tables are after them: first the writes of the     *)
(* handler, then those of its drafts, one after the other.                     *)

(* What has happened in two stretches. *)
LEMMA TouchesBoth ==
    ASSUME NEW d \in Tables, NEW e \in Tables, NEW f, NEW P, NEW Q, NEW D, NEW E,
           Touches(d, e, P, D), Touches(e, f, Q, E)
    PROVE  Touches(d, f, P \union Q, D \union E)
<1>1. \A m \in RowsOf(d.mail) \ D : m \in RowsOf(e.mail)
    BY Rows DEF Touches
<1> QED
    BY <1>1 DEF Touches

(* More may be named than has changed. *)
LEMMA TouchesMore ==
    ASSUME NEW d, NEW e, NEW P, NEW Q, NEW D, NEW E, Touches(d, e, P, D), P \subseteq Q, D \subseteq E
    PROVE  Touches(d, e, Q, E)
BY DEF Touches

(* Nothing is overridden by nothing, one value by one. *)
LEMMA Overrides ==
    ASSUME NEW S, NEW T, NEW f \in [S -> T]
    PROVE  /\ Override(<<>>, f) = f
           /\ \A x \in S : \A v : Override(Only(x, v), f) = [f EXCEPT ![x] = v]
           /\ \A x \in S : \A v : Override(Override(Only(x, v), <<>>), f) = [f EXCEPT ![x] = v]
BY DEF Override, Only

(* Rows that are not written, deleted, or written in full. *)
LEMMA Writes ==
    ASSUME NEW S, NEW T, NEW f \in [S -> T], NEW columns
    PROVE  /\ Written(f, <<>>, columns) = f
           /\ \A x \in S : Written(f, Only(x, None), columns) = [f EXCEPT ![x] = None]
           /\ \A x \in S : \A row : DOMAIN row = columns =>
                 Written(f, Only(x, row), columns) = [f EXCEPT ![x] = row]
BY DEF Written, Only

(* The tables after an operation are those that have its writes in each. *)
LEMMA ApplyIs ==
    ASSUME NEW d, NEW t, NEW h \in Tables,
           h.money = Override(t.money, d.money),
           ~Refused(d, t),
           h.instance = (d.instance \union t.created) \ t.destroyed,
           h.inventory = Override(t.inventory, d.inventory),
           h.mail = Written(d.mail, t.mail, MailColumns),
           h.mail_items = Override(t.listed, Unlisted(d, t)),
           h.auctionhouse = Written(d.auctionhouse, t.auctionhouse, AuctionColumns),
           h.fees = d.fees + t.fees, h.lost = d.lost \union t.lost
    PROVE  Apply(d, t) = h
<1>1. h = [money |-> h.money, instance |-> h.instance, inventory |-> h.inventory, mail |-> h.mail,
           mail_items |-> h.mail_items, auctionhouse |-> h.auctionhouse, fees |-> h.fees,
           lost |-> h.lost]
    BY DEF Tables
<1> QED
    BY <1>1 DEF Apply

(* Who lists no item is not refused. *)
LEMMA NothingListed ==
    ASSUME NEW d \in Tables, NEW t, t.listed = <<>>
    PROVE  /\ ~Refused(d, t) /\ Override(t.listed, Unlisted(d, t)) = Unlisted(d, t)
           /\ t.unlisted = {} /\ t.cleared = {} => Unlisted(d, t) = d.mail_items
<1>1. Override(<<>>, Unlisted(d, t)) = Unlisted(d, t)
    BY DEF Override, Unlisted
<1>2. ~Refused(d, t)
    BY DEF Refused
<1>3. ASSUME t.unlisted = {}, t.cleared = {} PROVE Unlisted(d, t) = d.mail_items
    <2>1. d.mail_items = [i \in DOMAIN d.mail_items |-> d.mail_items[i]]
        BY DEF Tables
    <2> QED
        BY <1>3, <2>1 DEF Unlisted
<1> QED
    BY <1>1, <1>2, <1>3

(* The row of a draft. *)
Drafts ==
    [receiver : Player, sender : Player, kind : {"normal", "auction"}, money : 0..(Word - 1), cod : Nat,
     item : Item \union {None}, returned : BOOLEAN]

(* A draft has such a row, and nothing else has. *)
LEMMA RowOfDraft ==
    ASSUME NEW draft \in Drafts
    PROVE  /\ RowOf(draft) \in MailRow /\ DOMAIN RowOf(draft) = MailColumns /\ RowOf(draft) # None
           /\ RowOf(draft).receiver = draft.receiver /\ RowOf(draft).money = draft.money
           /\ RowOf(draft).cod = draft.cod
<1>1. RowOf(draft) \in MailRow
    BY DEF RowOf, Drafts, MailColumns, MailRow
<1>2. DOMAIN RowOf(draft) = MailColumns
    BY DEF RowOf
<1> QED
    BY <1>1, <1>2, Keys DEF RowOf, MailColumns

(* A draft becomes a mail. *)
PutDraft(d, m, draft) ==
    IF draft.item = None THEN PutMail(d, m, RowOf(draft))
    ELSE PutItem(PutMail(d, m, RowOf(draft)), draft.item, m)

DraftIsPut(d, m, draft, gold, loose) ==
    LET e == PutDraft(d, m, draft)
    IN  /\ Sound(e, gold - Value(draft.money), loose \ {draft.item})
        /\ Touches(d, e, {}, {})
        /\ e.money = d.money /\ e.instance = d.instance /\ e.inventory = d.inventory
        /\ e.auctionhouse = d.auctionhouse /\ e.fees = d.fees /\ e.lost = d.lost
        /\ e.mail = [d.mail EXCEPT ![m] = RowOf(draft)]
        /\ e.mail_items = IF draft.item = None THEN d.mail_items
                          ELSE [d.mail_items EXCEPT ![draft.item] = m]
        /\ Inside(e, m) = {draft.item} \ {None}

(* The mail and its item are there then. *)
LEMMA DraftMoves ==
    ASSUME NEW d, NEW gold, NEW loose, Sound(d, gold, loose),
           NEW m \in MailId, d.mail[m] = None, NEW draft \in Drafts,
           draft.item \in loose \union {None}
    PROVE  DraftIsPut(d, m, draft, gold, loose)
<1> DEFINE f == PutMail(d, m, RowOf(draft))
           e == PutItem(f, draft.item, m)
<1>0. d \in Tables /\ RowOf(draft) \in MailRow /\ RowOf(draft).money = draft.money /\ draft.money < Word
    BY RowOfDraft, WordIs DEF Sound, Drafts
<1>1. /\ Sound(f, gold - Value(draft.money), loose) /\ Touches(d, f, {}, {})
      /\ ButMail(d, f) /\ f.mail = [d.mail EXCEPT ![m] = RowOf(draft)]
    BY <1>0, MailComes
<1> HIDE DEF f
<1>2. f.mail[m] # None /\ Inside(f, m) = {}
    <2>1. f.mail[m] # None
        BY <1>0, <1>1, RowOfDraft DEF Tables
    <2>2. \A i \in d.instance : d.mail_items[i] # m
        BY <1>0, Keys DEF Sound, Placed, InMail
    <2> QED
        BY <1>1, <2>1, <2>2 DEF Inside, ButMail
<1>3. CASE draft.item = None
    <2>1. None \notin loose
        BY <1>1, Keys DEF Sound, Placed, Tables
    <2>2. loose \ {draft.item} = loose
        BY <1>3, <2>1
    <2> QED
        BY <1>1, <1>2, <1>3, <2>2 DEF PutDraft, f, ButMail, DraftIsPut
<1>4. CASE draft.item # None
    <2>1. draft.item \in loose
        BY <1>4
    <2>2. /\ Sound(e, gold - Value(draft.money), loose \ {draft.item}) /\ Touches(f, e, {}, {m})
          /\ ButItems(f, e) /\ e.mail_items = [f.mail_items EXCEPT ![draft.item] = m]
        <3> DEFINE i == draft.item
                   rest == gold - Value(draft.money)
        <3>1. i \in loose /\ Sound(f, rest, loose)
            BY <1>1, <2>1
        <3> HIDE DEF i, rest
        <3>2. LET h == PutItem(f, i, m)
              IN  /\ Sound(h, rest, loose \ {i}) /\ Touches(f, h, {}, {m})
                  /\ ButItems(f, h) /\ h.mail_items = [f.mail_items EXCEPT ![i] = m]
            BY <1>2, <3>1, MailGets, SMTT(40)
        <3> QED
            BY <3>2 DEF i, rest
    <2> HIDE DEF e
    <2>3. Touches(d, e, {}, {})
        <3>1. m \notin RowsOf(d.mail)
            BY DEF RowsOf
        <3>2. Touches(d, e, {}, {m})
            BY <1>1, <2>2, TouchesBoth DEF ButMail, ButItems
        <3> QED
            BY <3>1, <3>2 DEF Touches
    <2>4. Inside(e, m) = {draft.item} \ {None}
        <3>1. draft.item \in d.instance /\ e.instance = d.instance /\ f.mail_items \in [Item -> MailId \union {None}]
              /\ d.instance \subseteq Item /\ f.instance = d.instance
            BY <1>0, <1>1, <2>1, <2>2 DEF Sound, Placed, ButMail, ButItems, Tables
        <3>2. \A i \in d.instance : i # draft.item => e.mail_items[i] # m
            BY <1>2, <2>2, <3>1 DEF Inside
        <3>3. e.mail_items[draft.item] = m
            BY <2>2, <3>1
        <3> QED
            BY <1>4, <3>1, <3>2, <3>3 DEF Inside
    <2> QED
        BY <1>1, <1>4, <2>2, <2>3, <2>4 DEF PutDraft, e, f, ButMail, ButItems, DraftIsPut
<1> QED
    BY <1>3, <1>4

(* Its drafts have ids of their own, which no mail has, and items of their own.*)
Postable(d, drafts) ==
    /\ mailid \in MailId \union {MaxMail + 1}
    /\ drafts \in Seq(Drafts)
    /\ CanPost(drafts)
    /\ \A m \in RowsOf(d.mail) : m < mailid
    /\ \A k, l \in 1..Len(drafts) : drafts[k].item = drafts[l].item /\ drafts[k].item # None => k = l

(* Without drafts it is as it was. *)
LEMMA PostedNone ==
    ASSUME NEW d, NEW t, DOMAIN t = DOMAIN NoWrites, mailid \in Nat
    PROVE  /\ Apply(d, Posted(t, <<>>)) = Apply(d, t)
           /\ Refused(d, Posted(t, <<>>)) = Refused(d, t)
<1> DEFINE s == Posted(t, <<>>)
<1>1. IdsOf(<<>>) = {}
    BY DEF IdsOf
<1>2. /\ s.money = t.money /\ s.destroyed = t.destroyed /\ s.inventory = t.inventory
      /\ s.auctionhouse = t.auctionhouse /\ s.fees = t.fees /\ s.created = t.created
      /\ s.unlisted = t.unlisted /\ s.cleared = t.cleared /\ s.lost = t.lost
      /\ s.mail = [x \in DOMAIN t.mail |-> t.mail[x]]
      /\ s.listed = [x \in DOMAIN t.listed |-> t.listed[x]]
    BY <1>1 DEF Posted, Override, NoWrites
<1> HIDE DEF s
<1>5. Unlisted(d, s) = Unlisted(d, t) /\ DOMAIN s.listed = DOMAIN t.listed
    BY <1>2 DEF Unlisted
<1>3. Override(s.listed, Unlisted(d, s)) = Override(t.listed, Unlisted(d, t))
    BY <1>2, <1>5 DEF Override
<1>6. Refused(d, s) = Refused(d, t)
    BY <1>5 DEF Refused
<1>4. Written(d.mail, s.mail, MailColumns) = Written(d.mail, t.mail, MailColumns)
    BY <1>2 DEF Written
<1> QED
    BY <1>2, <1>3, <1>4, <1>6 DEF Apply, s

(* The mails of drafts with an item, and the mail of an item. *)
WithItem(drafts) == {m \in IdsOf(drafts) : DraftOf(drafts, m).item # None}
MailWith(drafts, i) == CHOOSE m \in WithItem(drafts) : DraftOf(drafts, m).item = i

(* What is written with the drafts. *)
LEMMA PostedIs ==
    ASSUME NEW t, DOMAIN t = DOMAIN NoWrites, NEW drafts
    PROVE  LET s == Posted(t, drafts)
           IN  /\ s.money = t.money /\ s.destroyed = t.destroyed /\ s.inventory = t.inventory
               /\ s.auctionhouse = t.auctionhouse /\ s.fees = t.fees /\ s.login = t.login
               /\ s.created = t.created /\ s.unlisted = t.unlisted /\ s.cleared = t.cleared
               /\ s.lost = t.lost
               /\ s.mail = Override([m \in IdsOf(drafts) |-> RowOf(DraftOf(drafts, m))], t.mail)
               /\ s.listed =
                     Override([i \in {DraftOf(drafts, m).item : m \in WithItem(drafts)} |-> MailWith(drafts, i)],
                              t.listed)
BY DEF Posted, NoWrites, WithItem, MailWith

(* The last draft comes after the others. *)
LEMMA PostedLast ==
    ASSUME NEW d \in Tables, NEW t, DOMAIN t = DOMAIN NoWrites, NEW drafts, NEW draft \in Drafts,
           Postable(d, Append(drafts, draft)), drafts \in Seq(Drafts),
           Apply(d, Posted(t, drafts)) \in Tables,
           t.listed = <<>>, ~Refused(d, Posted(t, drafts)),
           draft.item # None => Apply(d, Posted(t, drafts)).mail_items[draft.item] = None
    PROVE  /\ Apply(d, Posted(t, Append(drafts, draft))) =
                 PutDraft(Apply(d, Posted(t, drafts)), mailid + Len(drafts), draft)
           /\ Postable(d, drafts) /\ mailid + Len(drafts) \in MailId
           /\ ~Refused(d, Posted(t, Append(drafts, draft)))
<1> DEFINE all == Append(drafts, draft)
           n == Len(drafts)
           m == mailid + n
           s == Posted(t, drafts)
           r == Posted(t, all)
           e == Apply(d, s)
<1>1. /\ all \in Seq(Drafts) /\ Len(all) = n + 1 /\ n \in Nat /\ all[n + 1] = draft
      /\ \A k \in 1..n : all[k] = drafts[k]
    BY AppendProperties, LenProperties
<1>2. mailid \in Nat /\ m \in Nat /\ m \in MailId
    BY <1>1, StoreAssumption DEF Postable, CanPost, MailId
<1> HIDE DEF all, n
<1>a. Postable(d, all)
    BY DEF all
<1>3. Postable(d, drafts)
    BY <1>1, <1>2, <1>a, StoreAssumption DEF Postable, CanPost, MailId, n
<1>4. /\ IdsOf(drafts) = mailid..(m - 1) /\ IdsOf(all) = mailid..m /\ m - mailid + 1 = n + 1
      /\ IdsOf(all) = IdsOf(drafts) \union {m} /\ m \notin IdsOf(drafts)
      /\ \A k \in IdsOf(drafts) : k - mailid + 1 \in 1..n
    BY <1>1, <1>2 DEF IdsOf, n
<1>5. /\ \A k \in IdsOf(drafts) : DraftOf(all, k) = DraftOf(drafts, k)
      /\ DraftOf(all, m) = draft
    BY <1>1, <1>2, <1>4 DEF DraftOf
<1>6. \A k, l \in IdsOf(all) :
         DraftOf(all, k).item = DraftOf(all, l).item /\ DraftOf(all, k).item # None => k = l
    <2> SUFFICES ASSUME NEW k \in IdsOf(all), NEW l \in IdsOf(all),
                        DraftOf(all, k).item = DraftOf(all, l).item, DraftOf(all, k).item # None
                 PROVE  k = l
        OBVIOUS
    <2>1. k - mailid + 1 \in 1..Len(all) /\ l - mailid + 1 \in 1..Len(all) /\ k \in Int /\ l \in Int
        BY <1>1, <1>2, <1>4, SMTT(40)
    <2>2. all[k - mailid + 1].item = all[l - mailid + 1].item /\ all[k - mailid + 1].item # None
        BY DEF DraftOf
    <2>3. k - mailid + 1 = l - mailid + 1
        BY <1>a, <2>1, <2>2 DEF Postable
    <2> QED
        BY <1>2, <2>1, <2>3
<1>7. /\ WithItem(all) = IF draft.item = None THEN WithItem(drafts) ELSE WithItem(drafts) \union {m}
      /\ WithItem(drafts) \subseteq WithItem(all)
    BY <1>4, <1>5 DEF WithItem
<1>8. \A i \in {DraftOf(drafts, k).item : k \in WithItem(drafts)} :
         MailWith(all, i) = MailWith(drafts, i) /\ i # draft.item
    <2> SUFFICES ASSUME NEW k \in WithItem(drafts)
                 PROVE  LET i == DraftOf(drafts, k).item
                        IN  MailWith(all, i) = MailWith(drafts, i) /\ i # draft.item
        OBVIOUS
    <2> DEFINE i == DraftOf(drafts, k).item
    <2>1. k \in WithItem(all) /\ DraftOf(all, k).item = i /\ i # None /\ k \in IdsOf(drafts)
        BY <1>5, <1>7 DEF WithItem
    <2>2. \A l \in WithItem(all) : DraftOf(all, l).item = i => l = k
        BY <1>6, <2>1 DEF WithItem
    <2>3. MailWith(all, i) = k
        BY <2>1, <2>2 DEF MailWith
    <2>4. \A l \in WithItem(drafts) : DraftOf(drafts, l).item = i => l = k
        BY <1>5, <1>7, <2>2 DEF WithItem
    <2>5. MailWith(drafts, i) = k
        BY <2>4 DEF MailWith
    <2>6. i # draft.item
        BY <1>4, <1>5, <1>6, <2>1
    <2> QED
        BY <2>3, <2>5, <2>6
<1>9. draft.item # None => MailWith(all, draft.item) = m
    <2> SUFFICES ASSUME draft.item # None PROVE MailWith(all, draft.item) = m
        OBVIOUS
    <2>1. m \in WithItem(all) /\ DraftOf(all, m).item = draft.item
        BY <1>5, <1>7
    <2>2. \A l \in WithItem(all) : DraftOf(all, l).item = draft.item => l = m
        BY <1>6, <2>1 DEF WithItem
    <2> QED
        BY <2>1, <2>2 DEF MailWith
<1>b. /\ s.money = t.money /\ s.destroyed = t.destroyed /\ s.inventory = t.inventory
      /\ s.auctionhouse = t.auctionhouse /\ s.fees = t.fees
      /\ r.money = t.money /\ r.destroyed = t.destroyed /\ r.inventory = t.inventory
      /\ r.auctionhouse = t.auctionhouse /\ r.fees = t.fees
      /\ s.created = t.created /\ s.lost = t.lost /\ r.created = t.created /\ r.lost = t.lost
      /\ s.unlisted = t.unlisted /\ s.cleared = t.cleared
      /\ r.unlisted = t.unlisted /\ r.cleared = t.cleared
    BY PostedIs, ZenonT(60)
<1>c. /\ s.mail = Override([k \in IdsOf(drafts) |-> RowOf(DraftOf(drafts, k))], t.mail)
      /\ r.mail = Override([k \in IdsOf(all) |-> RowOf(DraftOf(all, k))], t.mail)
    BY PostedIs
<1>d. /\ s.listed = Override([i \in {DraftOf(drafts, k).item : k \in WithItem(drafts)} |->
                                    MailWith(drafts, i)], t.listed)
      /\ r.listed = Override([i \in {DraftOf(all, k).item : k \in WithItem(all)} |->
                                    MailWith(all, i)], t.listed)
    BY PostedIs
<1>m. /\ ~Refused(d, s)
      /\ draft.item # None => e.mail_items[draft.item] = None
    OBVIOUS
<1> HIDE DEF s, r, m
<1>n. Unlisted(d, r) = Unlisted(d, s)
    BY <1>b DEF Unlisted
<1>e. /\ DOMAIN r.mail = (DOMAIN s.mail) \union {m}
      /\ r.mail[m] = RowOf(draft)
      /\ \A k \in DOMAIN s.mail : k # m => r.mail[k] = s.mail[k]
    BY <1>4, <1>5, <1>c DEF Override
<1>f. Written(d.mail, r.mail, MailColumns) = [Written(d.mail, s.mail, MailColumns) EXCEPT ![m] = RowOf(draft)]
    BY <1>2, <1>e, RowOfDraft, ZenonT(60) DEF Written
<1>g. {DraftOf(all, k).item : k \in WithItem(all)} =
         {DraftOf(drafts, k).item : k \in WithItem(drafts)} \union ({draft.item} \ {None})
    <2>1. \A k \in WithItem(drafts) : DraftOf(all, k) = DraftOf(drafts, k)
        BY <1>5 DEF WithItem
    <2> QED
        BY <1>5, <1>7, <2>1
<1>h. Override(r.listed, Unlisted(d, s)) =
         IF draft.item = None THEN Override(s.listed, Unlisted(d, s))
         ELSE [Override(s.listed, Unlisted(d, s)) EXCEPT ![draft.item] = m]
    <2> DEFINE J == {DraftOf(drafts, k).item : k \in WithItem(drafts)}
               u == [i \in J |-> MailWith(drafts, i)]
               v == [i \in J \union ({draft.item} \ {None}) |-> MailWith(all, i)]
    <2>1. s.listed = Override(u, t.listed) /\ r.listed = Override(v, t.listed)
        BY <1>d, <1>g
    <2>2. CASE draft.item = None
        <3>1. v = u
            BY <1>8, <2>2
        <3> QED
            BY <2>1, <2>2, <3>1
    <2>3. CASE draft.item # None
        <3>1. /\ DOMAIN v = (DOMAIN u) \union {draft.item} /\ v[draft.item] = m
              /\ \A i \in DOMAIN u : v[i] = u[i] /\ i # draft.item
            BY <1>8, <1>9, <2>3
        <3>2. draft.item \in DOMAIN Unlisted(d, s)
            BY <2>3 DEF Drafts, Tables, Unlisted
        <3> HIDE DEF u, v, J
        <3>3. /\ DOMAIN r.listed = (DOMAIN s.listed) \union {draft.item}
              /\ r.listed[draft.item] = m
              /\ \A i \in DOMAIN s.listed : i # draft.item => r.listed[i] = s.listed[i]
            BY <2>1, <3>1 DEF Override
        <3> QED
            BY <2>3, <3>2, <3>3 DEF Override
    <2> QED
        BY <2>2, <2>3
<1>i. /\ e.money = Override(t.money, d.money)
      /\ e.instance = (d.instance \union t.created) \ t.destroyed
      /\ e.inventory = Override(t.inventory, d.inventory)
      /\ e.mail = Written(d.mail, s.mail, MailColumns)
      /\ e.mail_items = Override(s.listed, Unlisted(d, s))
      /\ e.auctionhouse = Written(d.auctionhouse, t.auctionhouse, AuctionColumns)
      /\ e.fees = d.fees + t.fees /\ e.lost = d.lost \union t.lost
    BY <1>b, <1>m DEF Apply
<1>o. ~Refused(d, r)
    <2> SUFFICES ASSUME NEW i \in DOMAIN r.listed PROVE Unlisted(d, r)[i] = None
        BY DEF Refused
    <2>1. \A j \in DOMAIN s.listed : Unlisted(d, s)[j] = None
        BY <1>m DEF Refused
    <2>2. DOMAIN s.listed = {DraftOf(drafts, k).item : k \in WithItem(drafts)}
        BY <1>d DEF Override
    <2>3. DOMAIN r.listed = (DOMAIN s.listed) \union ({draft.item} \ {None})
        BY <1>d, <1>g, <2>2 DEF Override
    <2>4. CASE i \in DOMAIN s.listed
        BY <1>n, <2>1, <2>4
    <2>5. CASE i = draft.item /\ i # None
        <3>1. i \notin DOMAIN s.listed
            BY <1>8, <2>2, <2>5
        <3>2. i \in DOMAIN Unlisted(d, s)
            BY <2>5 DEF Drafts, Tables, Unlisted
        <3>3. e.mail_items[i] = Unlisted(d, s)[i]
            BY <1>i, <3>1, <3>2 DEF Override
        <3> QED
            BY <1>m, <1>n, <2>5, <3>3
    <2> QED
        BY <2>3, <2>4, <2>5
<1>j. e \in Tables
    BY DEF s
<1> DEFINE h == PutDraft(e, m, draft)
<1> HIDE DEF e
<1>k. /\ h \in Tables /\ h.money = e.money /\ h.instance = e.instance /\ h.inventory = e.inventory
      /\ h.mail = [e.mail EXCEPT ![m] = RowOf(draft)]
      /\ h.mail_items = IF draft.item = None THEN e.mail_items ELSE [e.mail_items EXCEPT ![draft.item] = m]
      /\ h.auctionhouse = e.auctionhouse /\ h.fees = e.fees /\ h.lost = e.lost
    <2> DEFINE f == PutMail(e, m, RowOf(draft))
    <2>1. ButMail(e, f) /\ f.mail = [e.mail EXCEPT ![m] = RowOf(draft)]
        BY <1>2, <1>j, RowOfDraft, PutMailPuts
    <2>2. f \in Tables
        BY <2>1 DEF ButMail
    <2> HIDE DEF f
    <2>3. CASE draft.item = None
        BY <2>1, <2>2, <2>3 DEF PutDraft, f, ButMail
    <2>4. CASE draft.item # None
        <3>1. draft.item \in Item
            BY <2>4 DEF Drafts
        <3> DEFINE i == draft.item
        <3> HIDE DEF i
        <3>2. ButItems(f, PutItem(f, i, m)) /\ PutItem(f, i, m).mail_items = [f.mail_items EXCEPT ![i] = m]
            BY <1>2, <2>2, <3>1, PutItemPuts DEF i
        <3>3. h = PutItem(f, i, m)
            BY <2>4 DEF PutDraft, f, i
        <3> HIDE DEF h
        <3> QED
            BY <2>1, <2>4, <3>2, <3>3 DEF ButMail, ButItems, i
    <2> QED
        BY <2>3, <2>4
<1> HIDE DEF h
<1>l. Apply(d, r) = h
    BY <1>b, <1>f, <1>h, <1>i, <1>k, <1>n, <1>o, ApplyIs
<1> QED
    BY <1>2, <1>3, <1>l, <1>o DEF h, e, s, r, m, n, all

(* The drafts are in the tables. *)
DraftsIn(d, drafts) ==
    \A m \in IdsOf(drafts) :
        /\ d.mail[m] = RowOf(DraftOf(drafts, m))
        /\ Inside(d, m) = {DraftOf(drafts, m).item} \ {None}

(* A transaction t makes b of the tables d, and e with its drafts.             *)
Effect(d, t, b, drafts, e, gold, loose) ==
    /\ d \in Tables /\ b \in Tables
    /\ DOMAIN t = DOMAIN NoWrites /\ t.listed = <<>>
    /\ mailid \in 1..MaxMail + 1
    /\ drafts \in Seq(Drafts)
    /\ \A m \in RowsOf(b.mail) \union RowsOf(d.mail) : m < mailid
    /\ e = Apply(d, Posted(t, drafts)) /\ ~Refused(d, Posted(t, drafts))
    /\ Sound(e, gold, loose)
    /\ Touches(b, e, {}, {})
    /\ e.money = b.money /\ e.inventory = b.inventory /\ e.instance = b.instance
    /\ e.auctionhouse = b.auctionhouse
    /\ DraftsIn(e, drafts)
    /\ RowsOf(e.mail) \subseteq RowsOf(b.mail) \union IdsOf(drafts)

(* Without drafts. *)
LEMMA EffectNone ==
    ASSUME NEW d \in Tables, NEW t, DOMAIN t = DOMAIN NoWrites, t.listed = <<>>,
           NEW b, b = Apply(d, t),
           NEW gold, NEW loose, Sound(b, gold, loose),
           mailid \in 1..MaxMail + 1,
           \A m \in RowsOf(b.mail) \union RowsOf(d.mail) : m < mailid
    PROVE  Effect(d, t, b, <<>>, b, gold, loose)
<1>1. IdsOf(<<>>) = {} /\ mailid \in Nat
    BY StoreAssumption DEF IdsOf
<1>2. b = Apply(d, Posted(t, <<>>)) /\ ~Refused(d, Posted(t, <<>>))
    <2>1. ~Refused(d, t)
        BY DEF Refused
    <2> QED
        BY <1>1, <2>1, PostedNone
<1>3. Touches(b, b, {}, {})
    BY DEF Touches
<1> QED
    BY <1>1, <1>2, <1>3 DEF Effect, DraftsIn, Sound

(* With one draft more. *)
LEMMA EffectLast ==
    ASSUME NEW d, NEW t, NEW b, NEW drafts, NEW e, NEW gold, NEW loose,
           Effect(d, t, b, drafts, e, gold, loose),
           NEW draft \in Drafts, draft.item \in loose \union {None},
           CanPost(Append(drafts, draft))
    PROVE  \E f : Effect(d, t, b, Append(drafts, draft), f, gold - Value(draft.money), loose \ {draft.item})
<1> DEFINE all == Append(drafts, draft)
           n == Len(drafts)
           m == mailid + n
           f == PutDraft(e, m, draft)
<1>1. /\ all \in Seq(Drafts) /\ Len(all) = n + 1 /\ n \in Nat /\ all[n + 1] = draft
      /\ \A k \in 1..n : all[k] = drafts[k]
    BY AppendProperties, LenProperties DEF Effect
<1> HIDE DEF all, n, f
<1>a. CanPost(all)
    BY DEF all
<1>2. mailid \in Nat \ {0} /\ m \in Nat /\ m \in MailId
    BY <1>1, <1>a, StoreAssumption DEF Effect, CanPost, MailId
<1>3. /\ IdsOf(drafts) = mailid..(m - 1) /\ IdsOf(all) = IdsOf(drafts) \union {m}
      /\ \A k \in IdsOf(drafts) : DraftOf(all, k) = DraftOf(drafts, k)
      /\ DraftOf(all, m) = draft
    <2>1. /\ IdsOf(drafts) = mailid..(m - 1) /\ IdsOf(all) = IdsOf(drafts) \union {m}
        BY <1>1, <1>2 DEF IdsOf, n
    <2>2. \A k \in IdsOf(drafts) : k - mailid + 1 \in 1..n
        BY <1>1, <1>2, <2>1
    <2>3. m - mailid + 1 = n + 1
        BY <1>1, <1>2
    <2> QED
        BY <1>1, <2>1, <2>2, <2>3 DEF DraftOf
<1>4. d \in Tables /\ b \in Tables /\ e \in Tables /\ e = Apply(d, Posted(t, drafts)) /\ drafts \in Seq(Drafts)
    BY DEF Effect, Sound
<1>5. \A k, l \in 1..Len(all) : all[k].item = all[l].item /\ all[k].item # None => k = l
    <2>1. \A k \in 1..n : /\ k + mailid - 1 \in IdsOf(drafts) /\ DraftOf(drafts, k + mailid - 1) = drafts[k]
        BY <1>1, <1>2, <1>3 DEF DraftOf
    <2>2. \A k \in 1..n : Inside(e, k + mailid - 1) = {all[k].item} \ {None}
        <3>1. \A l \in IdsOf(drafts) : Inside(e, l) = {DraftOf(drafts, l).item} \ {None}
            BY DEF Effect, DraftsIn
        <3> QED
            BY <1>1, <2>1, <3>1
    <2>3. \A k \in 1..n : all[k].item # None =>
             /\ all[k].item \in e.instance /\ e.mail_items[all[k].item] = k + mailid - 1
        BY <2>2 DEF Inside
    <2>4. \A k, l \in 1..n : all[k].item = all[l].item /\ all[k].item # None => k = l
        BY <1>2, <2>3
    <2>5. \A k \in 1..n : all[k].item # None => all[k].item \notin loose
        <3> SUFFICES ASSUME NEW k \in 1..n, all[k].item # None PROVE all[k].item \notin loose
            OBVIOUS
        <3>1. k + mailid - 1 # None
            <4>1. k + mailid - 1 \in MailId
                BY <1>1, <1>2, StoreAssumption DEF MailId
            <4> QED
                BY <4>1, Keys
        <3> QED
            BY <2>3, <3>1 DEF Effect, Sound, Placed, InMail
    <2> QED
        BY <1>1, <2>4, <2>5
<1>6. Postable(d, all)
    <2>1. mailid \in MailId \union {MaxMail + 1}
        BY StoreAssumption DEF Effect, MailId
    <2>2. \A k \in RowsOf(d.mail) : k < mailid
        BY DEF Effect
    <2> QED
        BY <1>1, <1>5, <1>a, <2>1, <2>2 DEF Postable
<1>7. Apply(d, Posted(t, all)) = f /\ ~Refused(d, Posted(t, all))
    <2>1. draft.item # None => e.mail_items[draft.item] = None
        BY DEF Effect, Sound, Placed, InMail
    <2>2. /\ DOMAIN t = DOMAIN NoWrites /\ t.listed = <<>> /\ ~Refused(d, Posted(t, drafts))
          /\ Apply(d, Posted(t, drafts)) \in Tables
        BY <1>4 DEF Effect
    <2> QED
        BY <1>4, <1>6, <2>1, <2>2, PostedLast DEF f, n, all
<1>8. e.mail[m] = None
    <2>1. m \notin RowsOf(e.mail)
        BY <1>2, <1>1, <1>3 DEF Effect
    <2> QED
        BY <1>2, <1>4, <2>1, Rows
<1>9. /\ Sound(f, gold - Value(draft.money), loose \ {draft.item})
      /\ Touches(e, f, {}, {})
      /\ f.money = e.money /\ f.instance = e.instance /\ f.inventory = e.inventory
      /\ f.auctionhouse = e.auctionhouse
      /\ f.mail = [e.mail EXCEPT ![m] = RowOf(draft)]
      /\ Inside(f, m) = {draft.item} \ {None}
    <2>1. Sound(e, gold, loose)
        BY DEF Effect
    <2>2. m \in MailId
        BY <1>2
    <2> HIDE DEF m
    <2>3. DraftIsPut(e, m, draft, gold, loose)
        BY <1>8, <2>1, <2>2, DraftMoves
    <2> QED
        BY <2>3 DEF f, DraftIsPut
<1>b. Touches(b, f, {}, {})
    BY <1>4, <1>9, TouchesBoth DEF Effect
<1>c. f \in Tables
    BY <1>9 DEF Sound
<1>d. f.mail[m] = RowOf(draft) /\ \A k \in MailId : k # m => f.mail[k] = e.mail[k]
    BY <1>2, <1>4, <1>9 DEF Tables
<1>e. IdsOf(drafts) \subseteq RowsOf(e.mail) /\ IdsOf(drafts) \subseteq MailId
    <2>1. \A k \in IdsOf(drafts) : k \in MailId /\ DraftOf(drafts, k) \in Drafts
        <3>1. \A k \in IdsOf(drafts) : k \in MailId /\ k - mailid + 1 \in 1..Len(drafts)
            BY <1>1, <1>2, <1>3, StoreAssumption DEF MailId, n
        <3>2. \A k \in 1..Len(drafts) : drafts[k] \in Drafts
            BY <1>4, ElementOfSeq
        <3> QED
            BY <3>1, <3>2 DEF DraftOf
    <2>2. \A k \in IdsOf(drafts) : e.mail[k] # None
        BY <2>1, RowOfDraft DEF Effect, DraftsIn
    <2> QED
        BY <1>4, <2>1, <2>2, Rows
<1>f. DraftsIn(f, all)
    <2>1. \A k \in IdsOf(drafts) : f.mail[k] = e.mail[k] /\ Inside(f, k) = Inside(e, k)
        BY <1>9, <1>e DEF Touches
    <2> QED
        BY <1>3, <1>9, <1>d, <2>1 DEF DraftsIn, Effect
<1>g. RowsOf(f.mail) \subseteq RowsOf(b.mail) \union IdsOf(all)
    <2>1. \A k \in RowsOf(f.mail) : k = m \/ k \in RowsOf(e.mail)
        BY <1>4, <1>c, <1>d, Rows
    <2> QED
        BY <1>3, <2>1 DEF Effect
<1>h. /\ DOMAIN t = DOMAIN NoWrites /\ t.listed = <<>> /\ mailid \in 1..MaxMail + 1 /\ \A k \in RowsOf(b.mail) \union RowsOf(d.mail) : k < mailid
      /\ e.money = b.money /\ e.inventory = b.inventory /\ e.instance = b.instance /\ e.auctionhouse = b.auctionhouse
    BY DEF Effect
<1>i. Effect(d, t, b, all, f, gold - Value(draft.money), loose \ {draft.item})
    BY <1>1, <1>4, <1>7, <1>9, <1>b, <1>f, <1>g, <1>h DEF Effect
<1> QED
    BY <1>i DEF all

-----------------------------------------------------------------------------
(* Mailboxes and characters in memory, and what the tables say of them.        *)

(* Mailboxes: the mails in memory, each of which is in the tables d, for p. *)
MailMaps == UNION {[D -> MemoryMail] : D \in SUBSET MailId}

IsThere(d, p, m, x) ==
    /\ d.mail[m] # None
    /\ d.mail[m].receiver = p
    /\ d.mail[m].money = x.money
    /\ d.mail[m].cod = x.cod
    /\ Inside(d, m) = {x.item} \ {None}

Mailbox(d, p, mails) ==
    /\ mails \in MailMaps
    /\ \A m \in DOMAIN mails : IsThere(d, p, m, mails[m])

(* What a mailbox is. *)
LEMMA Mails ==
    ASSUME NEW mails \in MailMaps
    PROVE  /\ DOMAIN mails \subseteq MailId /\ \A m \in DOMAIN mails : mails[m] \in MemoryMail
           /\ mails = [m \in DOMAIN mails |-> mails[m]]
BY DEF MailMaps

(* The mails D go, with what is in them. *)
Purge(d, D) ==
    [money |-> d.money,
     instance |-> {i \in d.instance : d.mail_items[i] \notin D},
     inventory |-> d.inventory,
     mail |-> [m \in MailId |-> IF m \in D THEN None ELSE d.mail[m]],
     mail_items |-> [i \in Item |-> IF d.mail_items[i] \in D THEN None ELSE d.mail_items[i]],
     auctionhouse |-> d.auctionhouse,
     fees |-> d.fees + Total(Part(MailGolds(d), D)),
     lost |-> d.lost]

(* The gold and the items of purged mails leave the game with them: the tables *)
(* that were sound are.                                                        *)
LEMMA PurgeMoves ==
    ASSUME NEW d, NEW gold, NEW loose, Sound(d, gold, loose), NEW D \in SUBSET RowsOf(d.mail)
    PROVE  LET e == Purge(d, D)
           IN  /\ Sound(e, gold, loose)
               /\ Touches(d, e, {}, D)
               /\ e.money = d.money /\ e.inventory = d.inventory /\ e.auctionhouse = d.auctionhouse
               /\ RowsOf(e.mail) = RowsOf(d.mail) \ D
               /\ \A p \in Player : ItemsOf(e, p) = ItemsOf(d, p)
<1> DEFINE e == Purge(d, D)
           f == MailGolds(d)
           h == MailGolds(e)
<1>1. /\ d \in Tables /\ D \subseteq MailId /\ RowsOf(d.mail) \subseteq MailId
      /\ d.instance \in SUBSET Item /\ d.mail_items \in [Item -> MailId \union {None}]
      /\ d.mail \in [MailId -> MailRow \union {None}] /\ None \notin D
    BY Rows, Keys DEF Sound, Tables
<1>2. /\ e.money = d.money /\ e.inventory = d.inventory /\ e.auctionhouse = d.auctionhouse
      /\ e.instance = {i \in d.instance : d.mail_items[i] \notin D}
      /\ e.mail = [m \in MailId |-> IF m \in D THEN None ELSE d.mail[m]]
      /\ e.mail_items = [i \in Item |-> IF d.mail_items[i] \in D THEN None ELSE d.mail_items[i]]
      /\ e.fees = d.fees + Total(Part(f, D)) /\ e.lost = d.lost
    BY DEF Purge
<1>3. /\ f \in [MailId -> Nat] /\ Total(f) = Total(Part(f, D)) + Total(Part(f, MailId \ D))
      /\ Total(Part(f, D)) \in Nat /\ Total(Part(f, MailId \ D)) \in Nat
    <2>1. f \in [MailId -> Nat]
        BY <1>1, Golds
    <2> HIDE DEF f
    <2>2. IsFiniteSet(MailId)
        BY Keys
    <2>3. IsFiniteSet(D) /\ IsFiniteSet(MailId \ D)
        BY <1>1, <2>2, FS_Subset
    <2>4. Part(f, D) \in [D -> Nat] /\ Part(f, MailId \ D) \in [MailId \ D -> Nat]
        BY <1>1, <2>1 DEF Part
    <2>5. SumOf(Part(f, D)) \in Nat /\ SumOf(Part(f, MailId \ D)) \in Nat
        BY <2>3, <2>4, SumNat
    <2>6. SumOf(f) = SumOf(Part(f, D)) + SumOf(Part(f, MailId \ D))
        BY <1>1, <2>1, <2>2, SumSplit
    <2> QED
        BY <2>1, <2>5, <2>6, TotalIsSum
<1>4. e \in Tables
    BY <1>1, <1>3 DEF Purge, Tables
<1> HIDE DEF e
<1>5. h \in [MailId -> Nat] /\ Total(h) = Total(Part(f, MailId \ D))
    <2>1. h \in [MailId -> Nat]
        BY <1>4, Golds
    <2>2. Part(h, MailId \ D) = Part(f, MailId \ D)
        BY <1>1, <1>2 DEF Part, MailGolds
    <2>3. \A m \in D : Part(h, D)[m] = 0
        BY <1>1, <1>2 DEF Part, MailGolds, MailGold
    <2> HIDE DEF h
    <2>4. IsFiniteSet(MailId)
        BY Keys
    <2>5. IsFiniteSet(D) /\ IsFiniteSet(MailId \ D)
        BY <1>1, <2>4, FS_Subset
    <2>6. Part(h, D) \in [D -> Nat] /\ Part(h, MailId \ D) \in [MailId \ D -> Nat]
        BY <1>1, <2>1 DEF Part
    <2>7. SumOf(Part(h, D)) = 0
        BY <2>3, <2>5, <2>6, SumZero
    <2>8. SumOf(h) = SumOf(Part(h, D)) + SumOf(Part(h, MailId \ D))
        BY <1>1, <2>1, <2>4, SumSplit
    <2>9. SumOf(Part(h, MailId \ D)) \in Nat
        BY <2>5, <2>6, SumNat
    <2> QED
        BY <2>1, <2>2, <2>7, <2>8, <2>9, TotalIsSum
<1>6. BidGolds(e) = BidGolds(d)
    BY <1>2 DEF BidGolds
<1>7. Gold(e) + e.fees + gold = Endowment
    <2>1. Gold(d) + d.fees + gold = Endowment /\ gold \in Int
        BY DEF Sound
    <2>2. Total(d.money) \in Nat /\ Total(BidGolds(d)) \in Nat /\ d.fees \in Nat
        BY <1>1, Golds
    <2> HIDE DEF f, h
    <2>3. Gold(d) = Total(d.money) + Total(f) + Total(BidGolds(d))
        BY DEF Gold, f
    <2>4. Gold(e) = Total(d.money) + Total(h) + Total(BidGolds(d))
        BY <1>2, <1>6 DEF Gold, h
    <2> QED
        BY <1>2, <1>3, <1>5, <2>1, <2>2, <2>3, <2>4
<1>8. RowsOf(e.mail) = RowsOf(d.mail) \ D
    BY <1>1, <1>2 DEF RowsOf
<1>9. \A m \in MailId \ D : Inside(e, m) = Inside(d, m)
    BY <1>1, <1>2 DEF Inside
<1>10. \A p \in Player : ItemsOf(e, p) = ItemsOf(d, p)
    <2>1. \A i \in d.instance : d.mail_items[i] \in D => ~InBag(d, i)
        BY <1>1 DEF Sound, Placed, InMail
    <2> QED
        BY <1>2, <2>1, Keys DEF ItemsOf, InBag
<1>11. Touches(d, e, {}, D)
    BY <1>1, <1>2, <1>9, <1>10 DEF Touches
<1>12. Placed(e, loose)
    <2>1. Placed(d, loose)
        BY DEF Sound
    <2>2. \A i \in d.instance : OnSale(e, i) <=> OnSale(d, i)
        BY <1>2 DEF OnSale
    <2>3. \A i \in e.instance : /\ i \in d.instance /\ i \in Item /\ e.mail_items[i] = d.mail_items[i]
                                /\ d.mail_items[i] \notin D
        BY <1>1, <1>2
    <2>4. \A i \in e.instance : /\ InBag(e, i) <=> InBag(d, i)
                                /\ InMail(e, i) <=> InMail(d, i)
                                /\ OnSale(e, i) <=> OnSale(d, i)
        BY <1>2, <2>2, <2>3 DEF InBag, InMail
    <2>5. loose \subseteq e.instance
        BY <1>1, <1>2, <2>1 DEF Placed, InMail
    <2>6. \A i \in e.instance : InMail(e, i) => e.mail[e.mail_items[i]] # None
        BY <1>1, <1>2, <2>1, <2>3, <2>4 DEF Placed, InMail
    <2>7. \A a \in RowsOf(e.auctionhouse) : e.auctionhouse[a].item \in e.instance
        <3> SUFFICES ASSUME NEW a \in RowsOf(e.auctionhouse) PROVE e.auctionhouse[a].item \in e.instance
            OBVIOUS
        <3> DEFINE i == e.auctionhouse[a].item
        <3>1. i \in d.instance /\ OnSale(d, i)
            BY <1>2, <2>1 DEF Placed, OnSale
        <3>2. ~InMail(d, i)
            BY <2>1, <3>1 DEF Placed
        <3> QED
            BY <1>1, <1>2, <3>1, <3>2 DEF InMail
    <2> QED
        BY <1>2, <2>1, <2>3, <2>4, <2>5, <2>6, <2>7 DEF Placed
<1>13. SumsInOrder(e) /\ \A p \in Player : e.money[p] <= MaxMoney
    <2>1. MailsInOrder(e)
        <3> SUFFICES ASSUME NEW k \in RowsOf(e.mail) PROVE e.mail[k].money < Word
            BY DEF MailsInOrder
        <3>1. k \in RowsOf(d.mail) /\ e.mail[k] = d.mail[k]
            BY <1>1, <1>2, Keys DEF RowsOf, Sound, Tables
        <3> QED
            BY <3>1 DEF Sound, SumsInOrder, MailsInOrder
    <2> QED
        BY <1>2, <2>1 DEF Sound, SumsInOrder, BidsInOrder
<1>14. Sound(e, gold, loose)
    BY <1>4, <1>7, <1>12, <1>13 DEF Sound
<1> QED
    BY <1>2, <1>8, <1>10, <1>11, <1>14 DEF e

(* The mails that the save of a mailbox deletes, and writes.                   *)
Deleted(c) == {m \in DOMAIN c.mails : c.mails[m].state = "deleted"}
Changed(c) == {m \in DOMAIN c.mails : c.mails[m].state = "changed"}

(* The columns that the save of a mail writes, and the row then. *)
SumsOf(x, y) == [money |-> x, cod |-> y]
WithSums(row, x, y) == [row EXCEPT !.money = x, !.cod = y]

(* Writing the columns changes the sums, and leaves the rest of the row. *)
LEMMA UpdateOfMail ==
    ASSUME NEW row \in MailRow, NEW x, NEW y
    PROVE  Override(SumsOf(x, y), row) = WithSums(row, x, y)
<1> DEFINE u == [money |-> x, cod |-> y]
           v == Override(u, row)
           e == [row EXCEPT !.money = x, !.cod = y]
<1>1. DOMAIN row = MailColumns /\ row = [k \in MailColumns |-> row[k]]
    BY DEF MailRow, MailColumns
<1>2. /\ DOMAIN u = {"money", "cod"} /\ u["money"] = x /\ u["cod"] = y
      /\ {"money", "cod"} \union MailColumns = MailColumns
    BY DEF MailColumns
<1>3. e = [k \in MailColumns |-> IF k = "cod" THEN y ELSE IF k = "money" THEN x ELSE row[k]]
    BY <1>1 DEF MailColumns
<1> HIDE DEF u, e
<1>4. v = [k \in MailColumns |-> IF k \in DOMAIN u THEN u[k] ELSE row[k]]
    BY <1>1, <1>2 DEF Override
<1>5. \A k \in MailColumns : (IF k \in DOMAIN u THEN u[k] ELSE row[k])
                                = IF k = "cod" THEN y ELSE IF k = "money" THEN x ELSE row[k]
    BY <1>2
<1> HIDE DEF v
<1>6. v = e
    BY <1>3, <1>4, <1>5
<1> QED
    BY <1>6 DEF v, u, e, SumsOf, WithSums

(* What is left in mail_items when more mails are cleared. *)
LEMMA MoreCleared ==
    ASSUME NEW d \in Tables, NEW s, NEW t, NEW D, None \notin D,
           s.unlisted = t.unlisted, s.cleared = t.cleared \union D
    PROVE  LET g == Unlisted(d, t)
           IN  Unlisted(d, s) = [i \in Item |-> IF g[i] \in D THEN None ELSE g[i]]
<1> DEFINE g == Unlisted(d, t)
<1>1. DOMAIN d.mail_items = Item
    BY DEF Tables
<1>2. \A i \in Item : g[i] = IF i \in t.unlisted \/ d.mail_items[i] \in t.cleared THEN None ELSE d.mail_items[i]
    BY <1>1 DEF Unlisted
<1> HIDE DEF g
<1>3. \A i \in Item : (IF i \in s.unlisted \/ d.mail_items[i] \in s.cleared THEN None ELSE d.mail_items[i])
                         = IF g[i] \in D THEN None ELSE g[i]
    BY <1>2
<1>4. Unlisted(d, s) = [i \in Item |-> IF g[i] \in D THEN None ELSE g[i]]
    BY <1>1, <1>3 DEF Unlisted
<1> QED
    BY <1>4 DEF g

(* What is written when mails are changed, and deleted. *)
Emptied(g, D) == [m \in MailId |-> IF m \in D THEN None ELSE g[m]]

RowsAre(C, D, x, y, f, g, w) ==
    /\ \A m \in C : f[m] # None /\ g[m] = WithSums(f[m], x[m], y[m])
    /\ \A m \in MailId \ C : g[m] = f[m]
    /\ DOMAIN w = C \union D
    /\ \A m \in D : w[m] = None
    /\ \A m \in C : w[m] = SumsOf(x[m], y[m])

(* Those writes make the changed rows, without the deleted ones. *)
LEMMA RowsWritten ==
    ASSUME NEW C \in SUBSET MailId, NEW D \in SUBSET MailId, NEW x \in [C -> Nat], NEW y \in [C -> Nat],
           NEW f \in [MailId -> MailRow \union {None}], NEW g \in [MailId -> MailRow \union {None}],
           C \intersect D = {},
           NEW w, RowsAre(C, D, x, y, f, g, w)
    PROVE  Written(f, Override(w, <<>>), MailColumns) = Emptied(g, D)
<1> DEFINE s == Override(w, <<>>)
<1> USE DEF RowsAre
<1>1. DOMAIN s = C \union D /\ \A m \in C \union D : s[m] = w[m]
    BY DEF Override
<1> HIDE DEF s
<1>2. \A m \in C : /\ s[m] # None /\ DOMAIN s[m] # MailColumns
                   /\ Override(s[m], f[m]) = g[m]
    <2> SUFFICES ASSUME NEW m \in C
                 PROVE  /\ s[m] # None /\ DOMAIN s[m] # MailColumns
                        /\ Override(s[m], f[m]) = g[m]
        OBVIOUS
    <2> DEFINE u == SumsOf(x[m], y[m])
    <2>1. u \in MailUpdate
        BY DEF MailUpdate, SumsOf
    <2>2. u # None
        BY <2>1, NoneAssumption
    <2>3. DOMAIN u # MailColumns
        <3>1. "receiver" \in MailColumns /\ "receiver" \notin DOMAIN u
            BY DEF MailColumns, SumsOf
        <3> QED
            BY <3>1
    <2>4. f[m] \in MailRow /\ s[m] = u /\ g[m] = WithSums(f[m], x[m], y[m])
        BY <1>1
    <2>5. Override(u, f[m]) = WithSums(f[m], x[m], y[m])
        BY <2>4, UpdateOfMail
    <2> HIDE DEF u
    <2> QED
        BY <2>2, <2>3, <2>4, <2>5
<1>3. \A m \in D : s[m] = None
    BY <1>1
<1>4. \A m \in MailId : (IF m \notin DOMAIN s THEN f[m]
                         ELSE IF s[m] = None \/ DOMAIN s[m] = MailColumns THEN s[m]
                         ELSE IF f[m] = None THEN None
                         ELSE Override(s[m], f[m])) = IF m \in D THEN None ELSE g[m]
    <2> TAKE m \in MailId
    <2>1. CASE m \in D
        BY <1>1, <1>3, <2>1
    <2>2. CASE m \in C
        BY <1>1, <1>2, <2>2
    <2>3. CASE m \notin C \union D
        BY <1>1, <2>3
    <2> QED
        BY <2>1, <2>2, <2>3
<1>5. DOMAIN f = MailId
    OBVIOUS
<1>6. Written(f, s, MailColumns) = [m \in MailId |-> IF m \in D THEN None ELSE g[m]]
    BY <1>4, <1>5 DEF Written
<1> QED
    BY <1>6 DEF s, Emptied

(* The save of a mailbox deletes mails, if all others have their rows: b are   *)
(* the tables with the other writes of the transaction t and with what the     *)
(* changed mails of the mailbox say.                                           *)
OtherWrites(d, t, b) ==
    /\ b.money = Override(t.money, d.money)
    /\ b.instance = d.instance /\ t.created \subseteq d.instance
    /\ b.inventory = Override(t.inventory, d.inventory)
    /\ b.mail_items = Unlisted(d, t)
    /\ b.auctionhouse = Written(d.auctionhouse, t.auctionhouse, AuctionColumns)
    /\ b.fees = d.fees + t.fees /\ b.lost = d.lost \union t.lost

ChangedRows(d, c, b) ==
    /\ \A m \in Changed(c) : /\ d.mail[m] # None
                             /\ b.mail[m] = WithSums(d.mail[m], c.mails[m].money, c.mails[m].cod)
    /\ \A m \in MailId \ Changed(c) : b.mail[m] = d.mail[m]

NoMails(t) ==
    /\ DOMAIN t = DOMAIN NoWrites
    /\ t.mail = <<>> /\ t.destroyed = {} /\ t.fees \in Nat
    /\ t.listed = <<>> /\ t.cleared = {}

(* What the save writes. *)
LEMMA SaveMailWrites ==
    ASSUME NEW t, NoMails(t), NEW c, c.mailsLoaded = TRUE
    PROVE  LET s == SaveMail(t, c)
               D == Deleted(c)
               C == Changed(c)
           IN  /\ s.money = t.money /\ s.inventory = t.inventory /\ s.auctionhouse = t.auctionhouse
               /\ s.login = t.login /\ s.destroyed = {c.mails[m].item : m \in D} \ {None}
               /\ s.fees = t.fees + Total([m \in D |-> Value(c.mails[m].money)])
               /\ s.mail = Override([m \in C \union D |->
                                       IF m \in D THEN None
                                       ELSE SumsOf(c.mails[m].money, c.mails[m].cod)], <<>>)
               /\ s.listed = <<>> /\ s.unlisted = t.unlisted /\ s.cleared = D
               /\ s.created = t.created /\ s.lost = t.lost
               /\ DOMAIN s = DOMAIN NoWrites
BY DEF SaveMail, NoWrites, Deleted, Changed, NoMails, SumsOf

(* The save of a mailbox writes the changed mails and purges the deleted. *)
LEMMA SaveMailIs ==
    ASSUME NEW d \in Tables, NEW t, NoMails(t), NEW c, c.mailsLoaded = TRUE, NEW p,
           NEW b \in Tables, Mailbox(b, p, c.mails), OtherWrites(d, t, b), ChangedRows(d, c, b)
    PROVE  /\ Apply(d, SaveMail(t, c)) = Purge(b, Deleted(c))
           /\ DOMAIN SaveMail(t, c) = DOMAIN NoWrites
           /\ SaveMail(t, c).login = t.login /\ SaveMail(t, c).listed = <<>>
           /\ Deleted(c) \subseteq RowsOf(b.mail)
<1> DEFINE D == Deleted(c)
           C == Changed(c)
           s == SaveMail(t, c)
           lost == {c.mails[m].item : m \in D} \ {None}
           w == [m \in C \union D |-> IF m \in D THEN None ELSE SumsOf(c.mails[m].money, c.mails[m].cod)]
           taken == [m \in D |-> Value(c.mails[m].money)]
           h == Purge(b, D)
<1>1. /\ s.money = t.money /\ s.inventory = t.inventory /\ s.auctionhouse = t.auctionhouse
      /\ s.login = t.login /\ s.destroyed = lost /\ s.fees = t.fees + Total(taken)
      /\ s.mail = Override(w, <<>>) /\ s.listed = <<>> /\ s.unlisted = t.unlisted /\ s.cleared = D
      /\ s.created = t.created /\ s.lost = t.lost
      /\ DOMAIN s = DOMAIN NoWrites
    BY SaveMailWrites, ZenonT(60)
<1>2. /\ C \subseteq MailId /\ D \subseteq MailId /\ C \subseteq DOMAIN c.mails /\ D \subseteq DOMAIN c.mails
      /\ D \intersect C = {}
      /\ \A m \in DOMAIN c.mails : c.mails[m] \in MemoryMail /\ IsThere(b, p, m, c.mails[m])
    BY Mails DEF Mailbox, Deleted, Changed
<1>3. /\ b.mail \in [MailId -> MailRow \union {None}] /\ d.mail \in [MailId -> MailRow \union {None}]
      /\ d.instance \subseteq Item /\ b.mail_items \in [Item -> MailId \union {None}]
      /\ d.mail_items \in [Item -> MailId \union {None}] /\ d.fees \in Nat /\ b.fees \in Nat
    BY DEF Tables
<1>4. D \subseteq RowsOf(b.mail)
    BY <1>2, <1>3 DEF RowsOf, IsThere
<1>5. lost = {i \in d.instance : b.mail_items[i] \in D} /\ b.instance = d.instance
    <2>1. ASSUME NEW i \in lost PROVE i \in b.instance /\ b.mail_items[i] \in D
        <3>1. PICK m \in D : i = c.mails[m].item /\ i # None
            OBVIOUS
        <3>2. i \in Inside(b, m)
            BY <1>2, <3>1 DEF IsThere
        <3> QED
            BY <3>2 DEF Inside
    <2>2. ASSUME NEW i \in b.instance, b.mail_items[i] \in D PROVE i \in lost
        <3> DEFINE m == b.mail_items[i]
        <3>1. i \in Inside(b, m) /\ m \in D
            BY <2>2 DEF Inside
        <3>2. i \in {c.mails[m].item} \ {None}
            BY <1>2, <3>1 DEF IsThere
        <3> QED
            BY <3>1, <3>2
    <2>3. b.instance = d.instance
        BY DEF OtherWrites
    <2> QED
        BY <2>1, <2>2, <2>3
<1>6. Written(d.mail, s.mail, MailColumns) = [m \in MailId |-> IF m \in D THEN None ELSE b.mail[m]]
    <2> DEFINE x == [m \in C |-> c.mails[m].money]
               y == [m \in C |-> c.mails[m].cod]
               f == d.mail
               g == b.mail
    <2>1. x \in [C -> Nat] /\ y \in [C -> Nat]
        BY <1>2 DEF MemoryMail
    <2>2. DOMAIN w = C \union D /\ \A m \in D : w[m] = None
        OBVIOUS
    <2>3. \A m \in C : w[m] = SumsOf(x[m], y[m])
        BY <1>2
    <2>4. /\ \A m \in C : f[m] # None /\ g[m] = WithSums(f[m], x[m], y[m])
          /\ \A m \in MailId \ C : g[m] = f[m]
        BY DEF ChangedRows
    <2>5. f \in [MailId -> MailRow \union {None}] /\ g \in [MailId -> MailRow \union {None}]
        BY <1>3
    <2>6. s.mail = Override(w, <<>>)
        BY <1>1
    <2>7. C \in SUBSET MailId /\ D \in SUBSET MailId /\ C \intersect D = {}
        BY <1>2
    <2> HIDE DEF s, w, x, y, f, g, C, D
    <2>8. Written(f, Override(w, <<>>), MailColumns) = Emptied(g, D)
        <3>1. RowsAre(C, D, x, y, f, g, w)
            BY <2>2, <2>3, <2>4 DEF RowsAre
        <3> QED
            BY <2>1, <2>5, <2>7, <3>1, RowsWritten
    <2> QED
        BY <2>6, <2>8 DEF f, g, Emptied
<1>7. /\ ~Refused(d, s)
      /\ Override(s.listed, Unlisted(d, s)) =
            [i \in Item |-> IF b.mail_items[i] \in D THEN None ELSE b.mail_items[i]]
    <2>1. /\ s.listed = <<>> /\ s.unlisted = t.unlisted /\ s.cleared = t.cleared \union D
          /\ b.mail_items = Unlisted(d, t) /\ None \notin D
        BY <1>1, <1>2, Keys DEF NoMails, OtherWrites
    <2> HIDE DEF s, D
    <2> QED
        BY <2>1, NothingListed, MoreCleared
<1>8. Total(taken) \in Nat /\ Total(Part(MailGolds(b), D)) = Total(taken)
    <2>1. \A m \in D : Value(c.mails[m].money) = MailGolds(b)[m]
        BY <1>2 DEF MailGolds, MailGold, IsThere
    <2>2. taken = Part(MailGolds(b), D)
        BY <2>1 DEF Part
    <2>3. taken \in [D -> Nat]
        BY <1>2 DEF MemoryMail, Value
    <2> HIDE DEF taken, D
    <2>4. IsFiniteSet(D)
        BY <1>2, Keys, FS_Subset
    <2>5. SumOf(taken) \in Nat
        BY <2>3, <2>4, SumNat
    <2> QED
        BY <2>2, <2>5, TotalIsSum
<1>9. /\ h.money = b.money /\ h.instance = {i \in b.instance : b.mail_items[i] \notin D}
      /\ h.inventory = b.inventory
      /\ h.mail = [m \in MailId |-> IF m \in D THEN None ELSE b.mail[m]]
      /\ h.mail_items = [i \in Item |-> IF b.mail_items[i] \in D THEN None ELSE b.mail_items[i]]
      /\ h.auctionhouse = b.auctionhouse /\ h.fees = b.fees + Total(Part(MailGolds(b), D))
      /\ h.lost = b.lost
    BY DEF Purge
<1>10. h \in Tables /\ h.fees = d.fees + (t.fees + Total(taken))
    <2> DEFINE sum == Total(Part(MailGolds(b), D))
               mails == [m \in MailId |-> IF m \in D THEN None ELSE b.mail[m]]
               items == [i \in Item |-> IF b.mail_items[i] \in D THEN None ELSE b.mail_items[i]]
               rest == {i \in b.instance : b.mail_items[i] \notin D}
    <2>1. sum \in Nat /\ sum = Total(taken)
        BY <1>8
    <2>2. b.fees \in Nat /\ b.fees = d.fees + t.fees /\ t.fees \in Nat
        BY <1>3 DEF OtherWrites, NoMails
    <2>3. /\ mails \in [MailId -> MailRow \union {None}] /\ items \in [Item -> MailId \union {None}]
          /\ rest \in SUBSET Item
        BY <1>3, <1>5
    <2>4. h = [money |-> b.money, instance |-> rest, inventory |-> b.inventory, mail |-> mails,
               mail_items |-> items, auctionhouse |-> b.auctionhouse, fees |-> b.fees + sum,
               lost |-> b.lost]
        BY DEF Purge
    <2> HIDE DEF sum, mails, items, rest, h, taken
    <2>5. h \in Tables
        <3>1. b.fees + sum \in Nat
            BY <2>1, <2>2
        <3>2. /\ b.money \in [Player -> Nat] /\ b.inventory \in [Item -> Player \union {None}]
              /\ b.auctionhouse \in [AuctionId -> AuctionRow \union {None}] /\ b.lost \in SUBSET Item
            BY DEF Tables
        <3> QED
            BY <2>3, <2>4, <3>1, <3>2 DEF Tables
    <2>6. h.fees = d.fees + (t.fees + Total(taken))
        BY <1>3, <2>1, <2>2, <2>4
    <2> QED
        BY <2>5, <2>6
<1>11. h.instance = (d.instance \union s.created) \ s.destroyed
    <2>1. s.created \subseteq d.instance
        BY <1>1 DEF OtherWrites
    <2> QED
        BY <1>1, <1>5, <1>9, <2>1
<1>12. h.fees = d.fees + s.fees
    BY <1>1, <1>10
<1>13. h.mail_items = Override(s.listed, Unlisted(d, s)) /\ ~Refused(d, s) /\ h.lost = d.lost \union s.lost
    BY <1>1, <1>7, <1>9 DEF OtherWrites
<1>14. h.mail = Written(d.mail, s.mail, MailColumns)
    BY <1>6, <1>9
<1>15. /\ h.money = Override(s.money, d.money) /\ h.inventory = Override(s.inventory, d.inventory)
       /\ h.auctionhouse = Written(d.auctionhouse, s.auctionhouse, AuctionColumns)
    BY <1>1, <1>9 DEF OtherWrites
<1> HIDE DEF h, s
<1>16. Apply(d, s) = h
    BY <1>10, <1>11, <1>12, <1>13, <1>14, <1>15, ApplyIs
<1> QED
    BY <1>1, <1>4, <1>16 DEF h, s

(* A character p in memory is what the tables d say. *)
CharRec ==
    [state : {"offline", "loading", "online"}, money : 0..MaxMoney, bag : SUBSET Item, mMitems : SUBSET Item,
     mails : MailMaps, mailsLoaded : BOOLEAN, mailsUpdated : BOOLEAN]

Current(d, p, c) ==
    /\ c \in CharRec
    /\ c.state # "online" => c.mails = <<>> /\ ~c.mailsLoaded
    /\ ~c.mailsLoaded => c.mails = <<>>
    /\ c.state = "online" => /\ c.money = d.money[p] /\ c.bag = ItemsOf(d, p)
                             /\ Mailbox(d, p, c.mails)
                             /\ \A m \in DOMAIN c.mails : c.mails[m].item \in c.mMitems \union {None}

(* The tables d and e have the same of p, but for new mails. *)
SameMail(p, d, e) ==
    \A m \in RowsOf(d.mail) :
        d.mail[m].receiver = p => e.mail[m] = d.mail[m] /\ Inside(e, m) = Inside(d, m)

Same(p, d, e) ==
    /\ e.money[p] = d.money[p] /\ ItemsOf(e, p) = ItemsOf(d, p)
    /\ SameMail(p, d, e)

(* What was the same stays so. *)
LEMMA SameMailBoth ==
    ASSUME NEW d \in Tables, NEW e \in Tables, NEW h \in Tables, NEW p,
           SameMail(p, d, e), SameMail(p, e, h)
    PROVE  SameMail(p, d, h)
BY Rows DEF SameMail

(* So for all that is the same of a player.                                    *)
LEMMA SameBoth ==
    ASSUME NEW d \in Tables, NEW e \in Tables, NEW h \in Tables, NEW p,
           Same(p, d, e), Same(p, e, h)
    PROVE  Same(p, d, h)
BY SameMailBoth DEF Same

(* It is the same for who is not touched. *)
LEMMA NotTouched ==
    ASSUME NEW d, NEW e, NEW P, NEW D, Touches(d, e, P, D), NEW q \in Player,
           \A m \in RowsOf(d.mail) : d.mail[m].receiver = q => m \notin D
    PROVE  SameMail(q, d, e) /\ (q \notin P => Same(q, d, e))
BY DEF Touches, SameMail, Same

(* Who is current stays so. *)
LEMMA SameCurrent ==
    ASSUME NEW d \in Tables, NEW e \in Tables, NEW q, NEW c, Current(d, q, c), Same(q, d, e)
    PROVE  Current(e, q, c)
<1>1. ASSUME Mailbox(d, q, c.mails)
      PROVE  Mailbox(e, q, c.mails)
    <2>1. \A m \in DOMAIN c.mails : m \in RowsOf(d.mail) /\ d.mail[m].receiver = q
        BY <1>1, Mails, Rows DEF Mailbox, IsThere
    <2>2. \A m \in DOMAIN c.mails : e.mail[m] = d.mail[m] /\ Inside(e, m) = Inside(d, m)
        BY <2>1 DEF Same, SameMail
    <2> QED
        BY <1>1, <2>2 DEF Mailbox, IsThere
<1> QED
    BY <1>1 DEF Current, Same

(* The mails of drafts that are there are received. *)
LEMMA ReceivedCurrent ==
    ASSUME NEW d \in Tables, NEW drafts \in Seq(Drafts), DraftsIn(d, drafts), IdsOf(drafts) \subseteq MailId,
           \A m \in IdsOf(drafts) : DraftOf(drafts, m) \in Drafts,
           NEW c, NEW q \in Player, Current(d, q, c[q])
    PROVE  /\ Current(d, q, Received(c, drafts)[q])
           /\ Received(c, drafts)[q].state = c[q].state
           /\ Received(c, drafts)[q].mailsLoaded = c[q].mailsLoaded
           /\ ~c[q].mailsLoaded => Received(c, drafts)[q] = c[q]
<1> DEFINE new == {m \in IdsOf(drafts) : DraftOf(drafts, m).receiver = q}
           w == [m \in new |-> InMemory(DraftOf(drafts, m), DraftOf(drafts, m).item)]
           items == {DraftOf(drafts, m).item : m \in new} \ {None}
           mails == Override(w, c[q].mails)
           r == Received(c, drafts)[q]
<1>1. CASE c[q].state # "online" \/ ~c[q].mailsLoaded
    <2>1. r = c[q]
        BY <1>1 DEF Received
    <2> HIDE DEF r
    <2>2. c[q].state # "online" => ~c[q].mailsLoaded
        BY DEF Current
    <2> QED
        BY <2>1, <2>2 DEF r
<1>2. CASE c[q].state = "online" /\ c[q].mailsLoaded
    <2>1. r = [c[q] EXCEPT !.mails = mails, !.mMitems = @ \union items]
        BY <1>2 DEF Received
    <2>2. \A m \in new : /\ w[m] \in MemoryMail /\ IsThere(d, q, m, w[m])
        <3> SUFFICES ASSUME NEW m \in new
                     PROVE  w[m] \in MemoryMail /\ IsThere(d, q, m, w[m])
            OBVIOUS
        <3> DEFINE draft == DraftOf(drafts, m)
        <3>1. draft \in Drafts /\ draft.receiver = q /\ m \in IdsOf(drafts)
            OBVIOUS
        <3>2. d.mail[m] = RowOf(draft) /\ Inside(d, m) = {draft.item} \ {None}
            BY <3>1 DEF DraftsIn
        <3>3. w[m] = InMemory(draft, draft.item)
            OBVIOUS
        <3> HIDE DEF draft, w
        <3>4. InMemory(draft, draft.item) \in MemoryMail
            BY <3>1 DEF InMemory, Drafts, MemoryMail
        <3>5. IsThere(d, q, m, InMemory(draft, draft.item))
            BY <3>1, <3>2, RowOfDraft DEF IsThere, InMemory
        <3> QED
            BY <3>3, <3>4, <3>5
    <2>3. /\ DOMAIN w = new /\ new \subseteq MailId /\ items \subseteq Item
          /\ \A m \in new : w[m].item \in items \union {None}
        BY DEF Drafts, InMemory
    <2>4. c[q].mails \in MailMaps /\ \A m \in DOMAIN c[q].mails : IsThere(d, q, m, c[q].mails[m])
        BY <1>2 DEF Current, Mailbox
    <2> DEFINE old == c[q].mails
    <2>5. DOMAIN old \subseteq MailId /\ \A m \in DOMAIN old : old[m] \in MemoryMail
        BY <2>4, Mails
    <2> HIDE DEF w, new, old, items
    <2>6. mails = [m \in new \union DOMAIN old |-> IF m \in new THEN w[m] ELSE old[m]]
        BY <2>3 DEF Override, old
    <2>7. mails \in [new \union DOMAIN old -> MemoryMail]
        BY <2>2, <2>5, <2>6
    <2>8. mails \in MailMaps
        BY <2>3, <2>5, <2>7 DEF MailMaps
    <2>9. \A m \in DOMAIN mails : IsThere(d, q, m, mails[m])
        BY <2>2, <2>4, <2>6 DEF old
    <2> HIDE DEF mails, r
    <2>10. c[q] \in CharRec /\ c[q].money = d.money[q] /\ c[q].bag = ItemsOf(d, q)
        BY <1>2 DEF Current
    <2>11. /\ r \in CharRec /\ r.state = c[q].state /\ r.money = c[q].money /\ r.bag = c[q].bag
           /\ r.mails = mails /\ r.mailsLoaded = c[q].mailsLoaded
           /\ r.mMitems = c[q].mMitems \union items
        BY <2>1, <2>3, <2>8, <2>10 DEF CharRec
    <2>14. \A m \in DOMAIN r.mails : r.mails[m].item \in r.mMitems \union {None}
        <3>1. \A m \in DOMAIN old : old[m].item \in c[q].mMitems \union {None}
            BY <1>2 DEF Current, old
        <3> QED
            BY <2>3, <2>6, <2>11, <3>1
    <2>12. Mailbox(d, q, r.mails)
        BY <2>8, <2>9, <2>11 DEF Mailbox
    <2>13. Current(d, q, r)
        BY <1>2, <2>10, <2>11, <2>12, <2>14 DEF Current
    <2> QED
        BY <1>2, <2>11, <2>13 DEF r
<1> QED
    BY <1>1, <1>2 DEF Current, CharRec

(* The ids of drafts. *)
LEMMA IdsOfDrafts ==
    ASSUME NEW drafts \in Seq(Drafts), CanPost(drafts), mailid \in 1..MaxMail + 1
    PROVE  /\ IdsOf(drafts) \subseteq MailId
           /\ \A m \in IdsOf(drafts) : DraftOf(drafts, m) \in Drafts
           /\ mailid + Len(drafts) \in 1..MaxMail + 1 /\ mailid + Len(drafts) >= mailid
           /\ \A m \in IdsOf(drafts) : m < mailid + Len(drafts)
<1>1. Len(drafts) \in Nat /\ mailid \in Nat \ {0} /\ MaxMail \in Nat
    BY LenProperties, StoreAssumption
<1>2. \A m \in IdsOf(drafts) : m \in Nat /\ m - mailid + 1 \in 1..Len(drafts) /\ m \in 1..MaxMail
    BY <1>1 DEF IdsOf, CanPost
<1>3. \A k \in 1..Len(drafts) : drafts[k] \in Drafts
    BY ElementOfSeq
<1>4. mailid + Len(drafts) \in 1..MaxMail + 1
    BY <1>1 DEF CanPost
<1> QED
    BY <1>1, <1>2, <1>3, <1>4 DEF DraftOf, MailId

-----------------------------------------------------------------------------
(* The writes of the handlers, and what they make of a character in memory.    *)

(* Tables that are not written stay. *)
LEMMA NotWritten ==
    ASSUME NEW d \in Tables
    PROVE  /\ Override(<<>>, d.money) = d.money
           /\ Override(<<>>, d.inventory) = d.inventory
           /\ Written(d.mail, <<>>, MailColumns) = d.mail
           /\ Written(d.auctionhouse, <<>>, AuctionColumns) = d.auctionhouse
<1>1. \A S, T : \A f \in [S -> T] : Override(<<>>, f) = f
    BY DEF Override
<1>3. /\ d.money \in [Player -> Nat] /\ d.inventory \in [Item -> Player \union {None}]
      /\ d.mail_items \in [Item -> MailId \union {None}]
      /\ d.auctionhouse \in [AuctionId -> AuctionRow \union {None}]
      /\ d.mail \in [MailId -> MailRow \union {None}]
    BY DEF Tables
<1>4. Override(<<>>, d.money) = d.money
    BY <1>1, <1>3
<1>5. Override(<<>>, d.inventory) = d.inventory
    BY <1>1, <1>3
<1>7. Written(d.mail, <<>>, MailColumns) = d.mail
    <2>1. DOMAIN <<>> = {} /\ d.mail = [m \in DOMAIN d.mail |-> d.mail[m]]
        BY <1>3
    <2> QED
        BY <2>1 DEF Written
<1>8. Written(d.auctionhouse, <<>>, AuctionColumns) = d.auctionhouse
    <2>1. DOMAIN <<>> = {} /\ d.auctionhouse = [a \in DOMAIN d.auctionhouse |-> d.auctionhouse[a]]
        BY <1>3
    <2> QED
        BY <2>1 DEF Written
<1> QED
    BY <1>4, <1>5, <1>7, <1>8

(* The gold of a player is written. *)
GoldIsWritten(d, t, p, v, s) ==
    /\ Override(s.money, d.money) = [d.money EXCEPT ![p] = v]
    /\ DOMAIN s = DOMAIN NoWrites
    /\ s.inventory = t.inventory /\ s.listed = t.listed /\ s.mail = t.mail
    /\ s.unlisted = t.unlisted /\ s.cleared = t.cleared /\ s.created = t.created /\ s.lost = t.lost
    /\ s.auctionhouse = t.auctionhouse /\ s.fees = t.fees /\ s.destroyed = t.destroyed
    /\ s.login = t.login

(* SaveGoldToDB writes it, and nothing else. *)
LEMMA GoldWritten ==
    ASSUME NEW d \in Tables, NEW p \in Player, NEW t, NEW c, t.money = <<>>, DOMAIN t = DOMAIN NoWrites
    PROVE  GoldIsWritten(d, t, p, c.money, SaveGoldToDB(t, p, c))
<1> DEFINE s == SaveGoldToDB(t, p, c)
           v == c.money
<1>1. /\ s.money = Override(Only(p, v), <<>>)
      /\ DOMAIN s = DOMAIN NoWrites
      /\ s.inventory = t.inventory /\ s.listed = t.listed /\ s.mail = t.mail
      /\ s.unlisted = t.unlisted /\ s.cleared = t.cleared /\ s.created = t.created /\ s.lost = t.lost
      /\ s.auctionhouse = t.auctionhouse /\ s.fees = t.fees /\ s.destroyed = t.destroyed
      /\ s.login = t.login
    BY DEF SaveGoldToDB, NoWrites
<1>2. d.money \in [Player -> Nat]
    BY DEF Tables
<1> HIDE DEF s, v
<1> DEFINE f == d.money
           w == Override(Only(p, v), <<>>)
<1>3. DOMAIN w = {p} /\ w[p] = v
    BY DEF Override, Only
<1>4. DOMAIN f = Player /\ f = [q \in Player |-> f[q]]
    BY <1>2
<1> HIDE DEF f, w
<1>5. Override(w, f) = [q \in Player |-> IF q = p THEN v ELSE f[q]]
    BY <1>3, <1>4 DEF Override
<1>6. Override(w, f) = [f EXCEPT ![p] = v]
    BY <1>4, <1>5
<1> QED
    BY <1>1, <1>6 DEF w, f, s, v, GoldIsWritten

(* A mail that is there, saved, is there. *)
LEMMA SavedIsThere ==
    ASSUME NEW d, NEW e, NEW p, NEW m, NEW x \in MemoryMail, IsThere(d, p, m, x),
           e.mail[m] = d.mail[m], Inside(e, m) = Inside(d, m)
    PROVE  LET y == [x EXCEPT !.state = "unchanged"]
           IN  y \in MemoryMail /\ IsThere(e, p, m, y)
<1> DEFINE y == [x EXCEPT !.state = "unchanged"]
<1>1. /\ y \in MemoryMail /\ y.money = x.money /\ y.cod = x.cod /\ y.item = x.item
    BY DEF MemoryMail
<1> HIDE DEF y
<1>2. IsThere(e, p, m, y)
    BY <1>1 DEF IsThere
<1> QED
    BY <1>1, <1>2 DEF y

(* A mailbox after its save, without the deleted mails. *)
LEMMA SavedIsCurrent ==
    ASSUME NEW d \in Tables, NEW e, NEW p \in Player, NEW c, Current(d, p, c), c.state = "online",
           c.mailsLoaded = TRUE,
           Touches(d, e, {}, Deleted(c))
    PROVE  /\ Current(e, p, MailSaved(c)) /\ MailSaved(c).mailsLoaded = TRUE
           /\ MailSaved(c).state = "online"
<1> DEFINE kept == {m \in DOMAIN c.mails : c.mails[m].state # "deleted"}
           mails == [m \in kept |-> [c.mails[m] EXCEPT !.state = "unchanged"]]
           s == MailSaved(c)
<1>1. s = [c EXCEPT !.mails = mails, !.mailsUpdated = FALSE]
    BY DEF MailSaved
<1>2. c \in CharRec /\ Mailbox(d, p, c.mails) /\ c.money = d.money[p] /\ c.bag = ItemsOf(d, p)
    BY DEF Current
<1>3. \A m \in DOMAIN c.mails : /\ m \in MailId /\ c.mails[m] \in MemoryMail /\ IsThere(d, p, m, c.mails[m])
                                /\ m \in RowsOf(d.mail)
    BY <1>2, Mails, Rows DEF Mailbox, IsThere
<1>4. \A m \in kept : e.mail[m] = d.mail[m] /\ Inside(e, m) = Inside(d, m)
    BY <1>3 DEF Touches, Deleted
<1>5. \A m \in kept : mails[m] \in MemoryMail /\ IsThere(e, p, m, mails[m])
    <2> SUFFICES ASSUME NEW m \in kept PROVE mails[m] \in MemoryMail /\ IsThere(e, p, m, mails[m])
        OBVIOUS
    <2> DEFINE x == c.mails[m]
    <2>1. x \in MemoryMail /\ IsThere(d, p, m, x) /\ mails[m] = [x EXCEPT !.state = "unchanged"]
        BY <1>3
    <2>2. e.mail[m] = d.mail[m] /\ Inside(e, m) = Inside(d, m)
        BY <1>4
    <2> HIDE DEF x, mails, kept
    <2> QED
        BY <2>1, <2>2, SavedIsThere
<1>6. mails \in MailMaps /\ DOMAIN mails = kept
    <2>1. kept \in SUBSET MailId
        BY <1>3
    <2>2. mails = [m \in kept |-> mails[m]] /\ DOMAIN mails = kept
        OBVIOUS
    <2> HIDE DEF mails, kept
    <2>3. mails \in [kept -> MemoryMail]
        BY <1>5, <2>2
    <2> QED
        BY <2>1, <2>2, <2>3 DEF MailMaps
<1> HIDE DEF mails, s
<1>7. /\ s \in CharRec /\ s.state = "online" /\ s.money = c.money /\ s.bag = c.bag /\ s.mails = mails
      /\ s.mailsLoaded = TRUE /\ s.mMitems = c.mMitems
    BY <1>1, <1>2, <1>6 DEF CharRec
<1>8. Mailbox(e, p, s.mails)
    BY <1>5, <1>6, <1>7 DEF Mailbox
<1>9. e.money[p] = d.money[p] /\ ItemsOf(e, p) = ItemsOf(d, p)
    BY DEF Touches
<1>11. \A m \in DOMAIN s.mails : s.mails[m].item \in s.mMitems \union {None}
    <2>1. \A m \in kept : mails[m].item = c.mails[m].item
        BY <1>3 DEF mails, MemoryMail
    <2>2. \A m \in DOMAIN c.mails : c.mails[m].item \in c.mMitems \union {None}
        BY DEF Current
    <2> QED
        BY <1>6, <1>7, <2>1, <2>2
<1>10. Current(e, p, s)
    BY <1>2, <1>7, <1>8, <1>9, <1>11 DEF Current
<1> QED
    BY <1>7, <1>10 DEF s

(* What the save of a mailbox makes of the tables b with the other writes.     *)
MailIsSaved(d, t, p, c, b, e, gold, loose) ==
    /\ e = Apply(d, SaveMail(t, c))
    /\ DOMAIN SaveMail(t, c) = DOMAIN NoWrites /\ SaveMail(t, c).login = t.login
    /\ SaveMail(t, c).listed = <<>>
    /\ Sound(e, gold, loose)
    /\ Touches(b, e, {}, IF c.mailsLoaded THEN Deleted(c) ELSE {})
    /\ e.auctionhouse = b.auctionhouse
    /\ RowsOf(e.mail) \subseteq RowsOf(b.mail)
    /\ Current(e, p, MailSaved(c)) /\ MailSaved(c).mailsLoaded = c.mailsLoaded
    /\ MailSaved(c).state = c.state

(* The tables after the save of a mailbox are sound and say what is in memory. *)
LEMMA SaveMailMoves ==
    ASSUME NEW d \in Tables, NEW t, NoMails(t), NEW p \in Player, NEW c, NEW b, NEW gold, NEW loose,
           Sound(b, gold, loose), Current(b, p, c), c.state = "online",
           OtherWrites(d, t, b), c.mailsLoaded => ChangedRows(d, c, b), ~c.mailsLoaded => b.mail = d.mail
    PROVE  \E e : MailIsSaved(d, t, p, c, b, e, gold, loose)
<1>1. b \in Tables /\ c.mailsLoaded \in BOOLEAN
    BY DEF Sound, Current, CharRec
<1>2. CASE c.mailsLoaded
    <2> DEFINE e == Purge(b, Deleted(c))
    <2>0. c.mailsLoaded = TRUE
        BY <1>1, <1>2
    <2>1. Mailbox(b, p, c.mails)
        BY DEF Current
    <2>2. /\ Apply(d, SaveMail(t, c)) = e
          /\ DOMAIN SaveMail(t, c) = DOMAIN NoWrites
          /\ SaveMail(t, c).login = t.login /\ SaveMail(t, c).listed = <<>>
          /\ Deleted(c) \in SUBSET RowsOf(b.mail)
        BY <1>1, <1>2, <2>0, <2>1, SaveMailIs
    <2>3. /\ Sound(e, gold, loose)
          /\ Touches(b, e, {}, Deleted(c))
          /\ e.auctionhouse = b.auctionhouse
          /\ RowsOf(e.mail) = RowsOf(b.mail) \ Deleted(c)
        BY <2>2, PurgeMoves
    <2> HIDE DEF e
    <2>4. /\ Current(e, p, MailSaved(c)) /\ MailSaved(c).mailsLoaded = TRUE
          /\ MailSaved(c).state = "online"
        BY <1>1, <2>0, <2>3, SavedIsCurrent
    <2>5. MailIsSaved(d, t, p, c, b, e, gold, loose)
        BY <1>2, <2>0, <2>2, <2>3, <2>4 DEF MailIsSaved
    <2> QED
        BY <2>5
<1>3. CASE ~c.mailsLoaded
    <2>1. SaveMail(t, c) = t /\ MailSaved(c) = c
        BY <1>3 DEF SaveMail, MailSaved
    <2>2. Apply(d, t) = b
        <3>1. Written(d.mail, t.mail, MailColumns) = d.mail
            <4>1. t.mail = <<>>
                BY DEF NoMails
            <4> QED
                BY <4>1, NotWritten
        <3>2. (d.instance \union t.created) \ t.destroyed = d.instance
            BY DEF NoMails, OtherWrites
        <3>3. ~Refused(d, t) /\ Override(t.listed, Unlisted(d, t)) = Unlisted(d, t)
            BY NothingListed DEF NoMails
        <3> QED
            BY <1>1, <1>3, <3>1, <3>2, <3>3, ApplyIs DEF OtherWrites
    <2>3. Touches(b, b, {}, {})
        BY DEF Touches
    <2>4. MailIsSaved(d, t, p, c, b, b, gold, loose)
        BY <1>3, <2>1, <2>2, <2>3 DEF MailIsSaved, NoMails
    <2> QED
        BY <2>4
<1> QED
    BY <1>1, <1>2, <1>3

(* A character who is nowhere. *)
LEMMA OfflineIsCurrent == \A d, p : Current(d, p, Offline)
<1>1. <<>> \in MailMaps
    <2>1. <<>> \in [{} -> MemoryMail]
        OBVIOUS
    <2>2. {} \in SUBSET MailId
        OBVIOUS
    <2> QED
        BY <2>1, <2>2 DEF MailMaps
<1>2. Offline \in CharRec
    BY <1>1, MailAssumption DEF Offline, CharRec
<1>3. /\ Offline.state # "online" /\ Offline.mails = <<>> /\ ~Offline.mailsLoaded
    BY DEF Offline
<1> QED
    BY <1>2, <1>3 DEF Current

(* The item of a mail. *)
LEMMA ItemInside ==
    ASSUME NEW d, NEW gold, NEW loose, Sound(d, gold, loose), NEW m \in MailId
    PROVE  Inside(d, m) = {ItemIn(d, m)} \ {None} /\ ItemIn(d, m) \in Item \union {None}
<1>1. d.instance \subseteq Item /\ None \notin Item
    BY Keys DEF Sound, Tables
<1>2. \A i, j \in Inside(d, m) : i = j
    BY Keys DEF Sound, Placed, Inside, InMail
<1>3. ItemIn(d, m) = IF Inside(d, m) = {} THEN None ELSE CHOOSE i \in Inside(d, m) : TRUE
    BY DEF ItemIn, Inside
<1>4. CASE Inside(d, m) = {}
    BY <1>3, <1>4
<1>5. CASE Inside(d, m) # {}
    <2>1. ItemIn(d, m) \in Inside(d, m)
        BY <1>3, <1>5
    <2>2. ItemIn(d, m) \in Item
        BY <1>1, <2>1 DEF Inside
    <2> QED
        BY <1>1, <1>2, <2>1, <2>2
<1> QED
    BY <1>4, <1>5

(* What is inside is the item that ItemIn finds.                               *)
LEMMA ItemOfInside ==
    ASSUME NEW d, NEW gold, NEW loose, Sound(d, gold, loose), NEW m \in MailId,
           NEW i \in Item \union {None}, Inside(d, m) = {i} \ {None}
    PROVE  i = ItemIn(d, m)
<1>1. Inside(d, m) = {ItemIn(d, m)} \ {None} /\ ItemIn(d, m) \in Item \union {None}
    BY ItemInside
<1> QED
    BY <1>1

(* The character c is x but for gold and bag. *)
OwnsOther(x, c, money, bag) ==
    /\ c \in CharRec /\ c.money = money /\ c.bag = bag
    /\ c.state = x.state /\ c.mails = x.mails /\ c.mailsLoaded = x.mailsLoaded
    /\ c.mMitems = x.mMitems

(* Payments, with a change of the bag. *)
LEMMA PaidIs ==
    ASSUME NEW x \in CharRec, NEW sum \in Nat, sum <= x.money, NEW bag \in SUBSET Item
    PROVE  /\ OwnsOther(x, Paid(x, sum), x.money - sum, x.bag)
           /\ OwnsOther(x, [Paid(x, sum) EXCEPT !.bag = bag], x.money - sum, bag)
<1>1. x.money \in 0..MaxMoney /\ MaxMoney \in Nat
    BY MailAssumption DEF CharRec
<1>2. (IF x.money > sum THEN x.money - sum ELSE 0) = x.money - sum /\ x.money - sum \in 0..MaxMoney
    BY <1>1
<1>3. Paid(x, sum) = [x EXCEPT !.money = x.money - sum]
    BY <1>2 DEF Paid, CharRec
<1> QED
    BY <1>2, <1>3 DEF OwnsOther, CharRec

(* The character c is what the tables say, if its gold and its bag are, and    *)
(* nothing has happened to its mails.                                          *)
LEMMA OwnsCurrent ==
    ASSUME NEW d \in Tables, NEW e \in Tables, NEW p \in Player, NEW x, Current(d, p, x), x.state = "online",
           NEW c, NEW money, NEW bag, OwnsOther(x, c, money, bag),
           e.money[p] = money, ItemsOf(e, p) = bag, SameMail(p, d, e)
    PROVE  Current(e, p, c)
<1>1. Mailbox(d, p, x.mails)
    BY DEF Current
<1>2. \A m \in DOMAIN x.mails : m \in RowsOf(d.mail) /\ d.mail[m].receiver = p
    BY <1>1, Mails, Rows DEF Mailbox, IsThere
<1>3. \A m \in DOMAIN x.mails : e.mail[m] = d.mail[m] /\ Inside(e, m) = Inside(d, m)
    BY <1>2 DEF SameMail
<1>4. Mailbox(e, p, x.mails)
    BY <1>1, <1>3 DEF Mailbox, IsThere
<1> QED
    BY <1>4 DEF Current, OwnsOther

(* The gold of a player is written last. *)
LEMMA GoldApplied ==
    ASSUME NEW d \in Tables, NEW p \in Player, NEW t, NEW c, DOMAIN t = DOMAIN NoWrites,
           t.listed = <<>>, NEW b \in Tables, b = Apply(d, t), c.money \in Nat
    PROVE  LET s == SaveGoldToDB(t, p, c)
           IN  /\ Apply(d, s) = PutMoney(b, p, c.money)
               /\ DOMAIN s = DOMAIN NoWrites /\ s.login = t.login /\ s.listed = <<>>
               /\ NoMails(t) => NoMails(s)
<1> DEFINE s == SaveGoldToDB(t, p, c)
           v == c.money
           e == PutMoney(b, p, v)
<1>1. /\ s.money = Override(Only(p, v), t.money)
      /\ DOMAIN s = DOMAIN NoWrites
      /\ s.inventory = t.inventory /\ s.listed = t.listed /\ s.mail = t.mail
      /\ s.unlisted = t.unlisted /\ s.cleared = t.cleared /\ s.created = t.created /\ s.lost = t.lost
      /\ s.auctionhouse = t.auctionhouse /\ s.fees = t.fees /\ s.destroyed = t.destroyed
      /\ s.login = t.login
    BY DEF SaveGoldToDB, NoWrites
<1>8. /\ ~Refused(d, s) /\ ~Refused(d, t)
      /\ Override(s.listed, Unlisted(d, s)) = Override(t.listed, Unlisted(d, t))
    <2>1. Unlisted(d, s) = Unlisted(d, t)
        BY <1>1 DEF Unlisted
    <2> QED
        BY <1>1, <2>1, NothingListed
<1>2. /\ b.money = Override(t.money, d.money) /\ b.instance = (d.instance \union t.created) \ t.destroyed
      /\ b.inventory = Override(t.inventory, d.inventory)
      /\ b.mail = Written(d.mail, t.mail, MailColumns)
      /\ b.mail_items = Override(t.listed, Unlisted(d, t))
      /\ b.auctionhouse = Written(d.auctionhouse, t.auctionhouse, AuctionColumns)
      /\ b.fees = d.fees + t.fees /\ b.lost = d.lost \union t.lost
    BY <1>8 DEF Apply
<1>3. v \in Nat
    OBVIOUS
<1> HIDE DEF s, v
<1>4. ButMoney(b, e) /\ e.money = [b.money EXCEPT ![p] = v]
    BY <1>3, PutMoneyPuts
<1> HIDE DEF e
<1>5. Override(s.money, d.money) = [b.money EXCEPT ![p] = v]
    <2> DEFINE f == d.money
               w == t.money
               h == b.money
    <2>1. h \in [Player -> Nat] /\ f \in [Player -> Nat] /\ h = Override(w, f)
        BY <1>2 DEF Tables
    <2>2. s.money = Override(Only(p, v), w)
        BY <1>1
    <2> HIDE DEF f, w, h
    <2>3. /\ DOMAIN s.money = {p} \union DOMAIN w /\ s.money[p] = v
          /\ \A q \in DOMAIN w : q # p => s.money[q] = w[q]
        BY <2>2 DEF Override, Only
    <2>4. DOMAIN h = (DOMAIN w) \union (DOMAIN f) /\ DOMAIN f = Player /\ DOMAIN h = Player
        BY <2>1 DEF Override
    <2>5. \A q \in Player : h[q] = IF q \in DOMAIN w THEN w[q] ELSE f[q]
        BY <2>1, <2>4 DEF Override
    <2>6. Override(s.money, f) = [q \in Player |-> IF q \in DOMAIN s.money THEN s.money[q] ELSE f[q]]
        BY <2>3, <2>4 DEF Override
    <2>7. \A q \in Player : (IF q \in DOMAIN s.money THEN s.money[q] ELSE f[q]) = IF q = p THEN v ELSE h[q]
        BY <2>3, <2>5
    <2>8. Override(s.money, f) = [h EXCEPT ![p] = v]
        BY <2>1, <2>6, <2>7
    <2> QED
        BY <2>8 DEF f, h
<1>6. e \in Tables
    BY <1>4 DEF ButMoney
<1>7. Apply(d, s) = e
    BY <1>1, <1>2, <1>4, <1>5, <1>6, <1>8, ApplyIs DEF ButMoney
<1> QED
    BY <1>1, <1>7 DEF s, v, e, NoMails

(* The item i, if it is one, has left its bag. *)
Drop(d, i) == PutInventory(d, [j \in Item |-> IF j = i THEN None ELSE d.inventory[j]])

IsDropped(d, e, p, i, gold, loose) ==
    /\ Sound(e, gold, loose \union ({i} \ {None}))
    /\ ButInventory(d, e)
    /\ e.inventory = [j \in Item |-> IF j = i THEN None ELSE d.inventory[j]]
    /\ Touches(d, e, {p}, {})
    /\ ItemsOf(e, p) = ItemsOf(d, p) \ {i}

(* An item that is dropped is loose, and moves no gold.                        *)
LEMMA DropMoves ==
    ASSUME NEW d, NEW gold, NEW loose, Sound(d, gold, loose),
           NEW p \in Player, NEW i \in ItemsOf(d, p) \union {None}
    PROVE  IsDropped(d, Drop(d, i), p, i, gold, loose)
<1> DEFINE new == [j \in Item |-> IF j = i THEN None ELSE d.inventory[j]]
           e == PutInventory(d, new)
<1>1. /\ d \in Tables /\ d.inventory \in [Item -> Player \union {None}] /\ d.instance \subseteq Item
      /\ None \notin Item /\ None \notin Player
    BY Keys DEF Sound, Tables
<1>2. CASE i = None
    <2>1. new = d.inventory
        BY <1>1, <1>2
    <2>2. /\ Sound(e, gold, loose) /\ ButInventory(d, e) /\ e.inventory = new /\ Touches(d, e, {p}, {})
        <3>1. \A j \in d.instance : IF d.inventory[j] \in {p} THEN new[j] \in {p} ELSE new[j] = d.inventory[j]
            BY <2>1
        <3>2. new \in [Item -> Player \union {None}]
            BY <1>1, <2>1
        <3> DEFINE P == {p}
        <3>3. P \in SUBSET Player /\ \A j \in d.instance : IF d.inventory[j] \in P THEN new[j] \in P ELSE new[j] = d.inventory[j]
            BY <3>1
        <3> HIDE DEF new, P
        <3>4. Sound(e, gold, loose) /\ ButInventory(d, e) /\ e.inventory = new /\ Touches(d, e, P, {})
            BY <3>2, <3>3, BagsExchange
        <3> QED
            BY <3>4 DEF P
    <2>3. ItemsOf(e, p) = ItemsOf(d, p) \ {i}
        <3>1. e.inventory = d.inventory /\ e.instance = d.instance
            BY <2>1, <2>2 DEF ButInventory
        <3> QED
            BY <1>1, <1>2, <3>1 DEF ItemsOf
    <2>4. loose \union ({i} \ {None}) = loose
        BY <1>2
    <2> QED
        BY <2>2, <2>3, <2>4 DEF IsDropped, Drop
<1>3. CASE i # None
    <2>0. i \in d.instance /\ d.inventory[i] = p
        BY <1>3 DEF ItemsOf
    <2>1. new = [d.inventory EXCEPT ![i] = None]
        BY <1>1, <2>0
    <2> HIDE DEF new
    <2>2. /\ Sound(e, gold, loose \union {i}) /\ ButInventory(d, e)
          /\ e.inventory = [d.inventory EXCEPT ![i] = None] /\ Touches(d, e, {p}, {})
        BY <2>0, <2>1, BagLoses
    <2> HIDE DEF e
    <2>3. ItemsOf(e, p) = ItemsOf(d, p) \ {i}
        BY <1>1, <2>0, <2>2 DEF ItemsOf, ButInventory
    <2>4. loose \union ({i} \ {None}) = loose \union {i}
        BY <1>3
    <2> QED
        BY <2>1, <2>2, <2>3, <2>4 DEF IsDropped, Drop, new, e
<1> QED
    BY <1>2, <1>3

(* A handler drops it by deleting its row of the inventory.                    *)
LEMMA DropWritten ==
    ASSUME NEW d \in Tables, NEW i \in Item \union {None}
    PROVE  Override([j \in {i} \ {None} |-> None], d.inventory)
             = [j \in Item |-> IF j = i THEN None ELSE d.inventory[j]]
<1> DEFINE w == [j \in {i} \ {None} |-> None]
           g == d.inventory
<1>1. DOMAIN w = {i} \ {None} /\ \A j \in DOMAIN w : w[j] = None
    OBVIOUS
<1>2. g \in [Item -> Player \union {None}] /\ None \notin Item
    BY Keys DEF Tables
<1>3. (DOMAIN w) \union DOMAIN g = Item /\ \A j \in Item : j \in DOMAIN w <=> j = i
    BY <1>1, <1>2
<1> HIDE DEF w, g
<1>4. Override(w, g) = [j \in Item |-> IF j \in DOMAIN w THEN w[j] ELSE g[j]]
    BY <1>3 DEF Override
<1>5. \A j \in Item : (IF j \in DOMAIN w THEN w[j] ELSE g[j]) = IF j = i THEN None ELSE g[j]
    BY <1>1, <1>3
<1> QED
    BY <1>4, <1>5 DEF w, g

(* A purse is changed last: all of it. *)
IsPaid(d, t, b, p, c, sum, gold, loose) ==
    LET s == SaveGoldToDB(t, p, c)
        e == Apply(d, s)
    IN  /\ DOMAIN s = DOMAIN NoWrites /\ s.login = t.login /\ s.listed = <<>>
        /\ NoMails(t) => NoMails(s)
        /\ Sound(e, gold + sum, loose)
        /\ ButMoney(b, e) /\ e.money = [b.money EXCEPT ![p] = c.money]
        /\ Touches(b, e, {p}, {})

(* A payment is written by SaveGoldToDB after the other writes.                *)
LEMMA PaidMoves ==
    ASSUME NEW d \in Tables, NEW t, DOMAIN t = DOMAIN NoWrites, t.listed = <<>>,
           NEW b, b = Apply(d, t), NEW gold, NEW loose, Sound(b, gold, loose),
           NEW p \in Player, NEW c \in CharRec, NEW sum \in Int, c.money = b.money[p] - sum
    PROVE  IsPaid(d, t, b, p, c, sum, gold, loose)
<1> DEFINE s == SaveGoldToDB(t, p, c)
           e == PutMoney(b, p, c.money)
           v == c.money
<1>1. b \in Tables /\ c.money \in Nat /\ c.money <= MaxMoney /\ b.money[p] \in Nat /\ gold \in Int
    BY MailAssumption DEF Sound, CharRec, Tables
<1>2. /\ Apply(d, s) = e /\ DOMAIN s = DOMAIN NoWrites /\ s.login = t.login /\ s.listed = <<>>
      /\ NoMails(t) => NoMails(s)
    BY <1>1, GoldApplied
<1>3. v \in Nat /\ v <= MaxMoney /\ gold + b.money[p] - v = gold + sum
    BY <1>1
<1> HIDE DEF v, s, e
<1>5. ASSUME NEW w \in Nat, w <= MaxMoney
      PROVE  LET h == PutMoney(b, p, w)
             IN  /\ Sound(h, gold + b.money[p] - w, loose)
                 /\ ButMoney(b, h) /\ h.money = [b.money EXCEPT ![p] = w]
                 /\ Touches(b, h, {p}, {})
    BY <1>5, MoneyMoves, SMTT(40)
<1>4. LET h == PutMoney(b, p, v)
      IN  /\ Sound(h, gold + b.money[p] - v, loose)
          /\ ButMoney(b, h) /\ h.money = [b.money EXCEPT ![p] = v]
          /\ Touches(b, h, {p}, {})
    BY <1>3, <1>5
<1> QED
    BY <1>2, <1>3, <1>4 DEF IsPaid, v, s, e

(* The draft of a handler is one. *)
LEMMA DraftIsDraft ==
    ASSUME NEW r \in Player, NEW p \in Player, NEW kind \in {"normal", "auction"}, NEW money \in 0..(Word - 1), NEW cod \in Nat,
           NEW i \in Item \union {None}, NEW returned \in BOOLEAN
    PROVE  LET draft == [Draft(r, p, kind) EXCEPT !.money = money, !.cod = cod, !.item = i, !.returned = returned]
           IN  draft \in Drafts /\ draft.money = money /\ draft.item = i
BY DEF Draft, Drafts

(* One draft. *)
LEMMA EffectOne ==
    ASSUME NEW d \in Tables, NEW t, DOMAIN t = DOMAIN NoWrites, t.listed = <<>>,
           NEW b, b = Apply(d, t),
           NEW gold, NEW loose, Sound(b, gold, loose),
           mailid \in 1..MaxMail + 1,
           \A m \in RowsOf(b.mail) \union RowsOf(d.mail) : m < mailid,
           NEW draft \in Drafts, draft.item \in loose \union {None}, CanPost(<<draft>>)
    PROVE  \E e : Effect(d, t, b, <<draft>>, e, gold - Value(draft.money), loose \ {draft.item})
<1>1. Effect(d, t, b, <<>>, b, gold, loose)
    BY EffectNone
<1>2. Append(<<>>, draft) = <<draft>>
    OBVIOUS
<1> DEFINE none == <<>>
<1>3. Effect(d, t, b, none, b, gold, loose) /\ CanPost(Append(none, draft)) /\ Append(none, draft) = <<draft>>
    BY <1>1, <1>2
<1> HIDE DEF none
<1>4. \E e : Effect(d, t, b, Append(none, draft), e, gold - Value(draft.money), loose \ {draft.item})
    BY <1>3, EffectLast
<1> QED
    BY <1>3, <1>4

(* What a payment is for: the tables b with the other writes of a transaction, *)
(* from the tables d, in which a character p is what x says.                   *)
Buys(d, p, x, t, b, bag, gold, loose) ==
    /\ d \in Tables /\ Current(d, p, x) /\ x.state = "online"
    /\ DOMAIN t = DOMAIN NoWrites /\ t.login = None /\ t.listed = <<>>
    /\ b = Apply(d, t) /\ Sound(b, gold, loose) /\ Touches(d, b, {p}, {})
    /\ b.money = d.money /\ b.mail = d.mail
    /\ ItemsOf(b, p) = bag
    /\ mailid \in 1..MaxMail + 1 /\ \A m \in RowsOf(d.mail) : m < mailid

(* And the tables e with the payment too. *)
Bought(d, p, s, b, c, e, gold, loose) ==
    /\ DOMAIN s = DOMAIN NoWrites /\ s.login = None /\ s.listed = <<>>
    /\ e = Apply(d, s)
    /\ Effect(d, s, e, <<>>, e, gold, loose)
    /\ Touches(d, e, {p}, {})
    /\ Current(e, p, c)
    /\ e.auctionhouse = b.auctionhouse

(* A payment of p, for what the tables b have, leaves p what the tables say.   *)
LEMMA BuyMoves ==
    ASSUME NEW d, NEW p \in Player, NEW x, NEW t, NEW b, NEW bag, NEW gold, NEW loose,
           Buys(d, p, x, t, b, bag, gold, loose),
           NEW sum \in Int, NEW c, NEW money, money = x.money - sum, OwnsOther(x, c, money, bag)
    PROVE  \E e : Bought(d, p, SaveGoldToDB(t, p, c), b, c, e, gold + sum, loose)
<1> DEFINE s == SaveGoldToDB(t, p, c)
           e == Apply(d, s)
<1>1. /\ d \in Tables /\ b \in Tables /\ b.money = d.money /\ x.money = d.money[p] /\ c \in CharRec
      /\ c.money = b.money[p] - sum
    BY DEF Buys, Sound, Current, OwnsOther
<1>2. IsPaid(d, t, b, p, c, sum, gold, loose)
    BY <1>1, PaidMoves DEF Buys
<1>3. /\ DOMAIN s = DOMAIN NoWrites /\ s.login = None /\ s.listed = <<>> /\ Sound(e, gold + sum, loose) /\ ButMoney(b, e)
      /\ e.money = [b.money EXCEPT ![p] = c.money] /\ Touches(b, e, {p}, {})
    BY <1>2 DEF IsPaid, Buys
<1>4. e = Apply(d, s)
    OBVIOUS
<1> HIDE DEF e, s
<1>5. e \in Tables /\ e.mail = d.mail /\ e.auctionhouse = b.auctionhouse /\ ItemsOf(e, p) = bag /\ e.money[p] = money
    <2>1. b.money \in [Player -> Nat]
        BY <1>1 DEF Tables
    <2> QED
        BY <1>3, <2>1 DEF ButMoney, ItemsOf, OwnsOther, Buys
<1>6. Touches(d, e, {p}, {})
    <2>1. Touches(d, e, {p} \union {p}, {} \union {})
        BY <1>1, <1>3, TouchesBoth DEF Buys
    <2> QED
        BY <2>1, TouchesMore
<1>7. Current(e, p, c)
    <2>1. SameMail(p, d, e)
        BY <1>6 DEF Touches, SameMail
    <2>2. Current(d, p, x) /\ x.state = "online"
        BY DEF Buys
    <2> QED
        BY <1>1, <1>5, <2>1, <2>2, OwnsCurrent
<1>8. Effect(d, s, e, <<>>, e, gold + sum, loose)
    <2>1. mailid \in 1..MaxMail + 1 /\ \A m \in RowsOf(e.mail) \union RowsOf(d.mail) : m < mailid
        BY <1>5 DEF Buys
    <2> QED
        BY <1>1, <1>3, <1>4, <2>1, EffectNone
<1>9. Bought(d, p, s, b, c, e, gold + sum, loose)
    BY <1>3, <1>4, <1>5, <1>6, <1>7, <1>8 DEF Bought
<1> QED
    BY <1>9 DEF s

(* The write of one row of the inventory changes that row.                     *)
LEMMA InventoryWritten ==
    ASSUME NEW d \in Tables, NEW i \in Item, NEW v
    PROVE  Override(Only(i, v), d.inventory) = [d.inventory EXCEPT ![i] = v]
<1>1. d.inventory \in [Item -> Player \union {None}]
    BY DEF Tables
<1> DEFINE g == d.inventory
<1>2. g = [j \in Item |-> g[j]] /\ DOMAIN g = Item
    BY <1>1
<1> HIDE DEF g
<1>3. Override(Only(i, v), g) = [j \in Item |-> IF j = i THEN v ELSE g[j]]
    BY <1>2 DEF Override, Only
<1> QED
    BY <1>2, <1>3 DEF g

(* The same of a row of mail_items,                                            *)
LEMMA ItemWritten ==
    ASSUME NEW d \in Tables, NEW i \in Item, NEW v
    PROVE  Override(Only(i, v), d.mail_items) = [d.mail_items EXCEPT ![i] = v]
<1>1. d.mail_items \in [Item -> MailId \union {None}]
    BY DEF Tables
<1> DEFINE g == d.mail_items
<1>2. g = [j \in Item |-> g[j]] /\ DOMAIN g = Item
    BY <1>1
<1> HIDE DEF g
<1>3. Override(Only(i, v), g) = [j \in Item |-> IF j = i THEN v ELSE g[j]]
    BY <1>2 DEF Override, Only
<1> QED
    BY <1>2, <1>3 DEF g

(* of a row of auctionhouse that is inserted or deleted,                       *)
LEMMA AuctionWritten ==
    ASSUME NEW d \in Tables, NEW a \in AuctionId, NEW row, row = None \/ DOMAIN row = AuctionColumns
    PROVE  Written(d.auctionhouse, Only(a, row), AuctionColumns) = [d.auctionhouse EXCEPT ![a] = row]
<1>1. d.auctionhouse \in [AuctionId -> AuctionRow \union {None}]
    BY DEF Tables
<1> DEFINE g == d.auctionhouse
           w == Only(a, row)
<1>2. g = [j \in AuctionId |-> g[j]] /\ DOMAIN g = AuctionId
    BY <1>1
<1>3. DOMAIN w = {a} /\ w[a] = row
    BY DEF Only
<1> HIDE DEF g, w
<1>4. Written(g, w, AuctionColumns) = [j \in AuctionId |-> IF j = a THEN row ELSE g[j]]
    BY <1>2, <1>3 DEF Written
<1> QED
    BY <1>2, <1>4 DEF g, w

(* and of such a row of mail.                                                  *)
LEMMA MailWritten ==
    ASSUME NEW d \in Tables, NEW m \in MailId, NEW row, row = None \/ DOMAIN row = MailColumns
    PROVE  Written(d.mail, Only(m, row), MailColumns) = [d.mail EXCEPT ![m] = row]
<1>1. d.mail \in [MailId -> MailRow \union {None}]
    BY DEF Tables
<1> DEFINE g == d.mail
           w == Only(m, row)
<1>2. g = [j \in MailId |-> g[j]] /\ DOMAIN g = MailId
    BY <1>1
<1>3. DOMAIN w = {m} /\ w[m] = row
    BY DEF Only
<1> HIDE DEF g, w
<1>4. Written(g, w, MailColumns) = [j \in MailId |-> IF j = m THEN row ELSE g[j]]
    BY <1>2, <1>3 DEF Written
<1> QED
    BY <1>2, <1>4 DEF g, w

(* The mails that the house sends. *)
LEMMA AuctionMailIs ==
    ASSUME NEW r \in Player, NEW money \in Nat, money < Word, NEW i \in Item \union {None}
    PROVE  LET draft == AuctionMail(r, money, i)
           IN  draft \in Drafts /\ draft.money = money /\ draft.item = i
<1>1. money \in 0..(Word - 1)
    BY WordIs
<1> QED
    BY <1>1 DEF AuctionMail, Draft, Drafts

(* What one draft more, if any, takes. *)
GoldOf(more) == IF more = <<>> THEN 0 ELSE Value(more[1].money)
ItemsOfAll(more) == IF more = <<>> THEN {} ELSE {more[1].item}

MayPost(more, loose) ==
    \/ more = <<>>
    \/ \E draft \in Drafts : more = <<draft>> /\ draft.item \in loose \union {None}

(* More drafts, with items and gold of their own, after others.                *)
LEMMA EffectMore ==
    ASSUME NEW d, NEW t, NEW b, NEW drafts, NEW e, NEW gold, NEW loose,
           Effect(d, t, b, drafts, e, gold, loose),
           NEW more, MayPost(more, loose), CanPost(drafts \o more)
    PROVE  \E h : Effect(d, t, b, drafts \o more, h, gold - GoldOf(more), loose \ ItemsOfAll(more))
<1>1. drafts \in Seq(Drafts) /\ gold \in Int
    BY DEF Effect, Sound
<1>2. CASE more = <<>>
    <2>1. drafts \o more = drafts
        BY <1>1, <1>2, ConcatProperties
    <2>2. gold - GoldOf(more) = gold /\ loose \ ItemsOfAll(more) = loose
        BY <1>1, <1>2 DEF GoldOf, ItemsOfAll
    <2> QED
        BY <2>1, <2>2
<1>3. CASE more # <<>>
    <2>1. PICK draft \in Drafts : more = <<draft>> /\ draft.item \in loose \union {None}
        BY <1>3 DEF MayPost
    <2>2. drafts \o more = Append(drafts, draft)
        BY <1>1, <2>1
    <2>3. GoldOf(more) = Value(draft.money) /\ ItemsOfAll(more) = {draft.item}
        BY <1>3, <2>1 DEF GoldOf, ItemsOfAll
    <2>4. \E h : Effect(d, t, b, Append(drafts, draft), h, gold - Value(draft.money), loose \ {draft.item})
        BY <2>1, <2>2, EffectLast
    <2> QED
        BY <2>2, <2>3, <2>4
<1> QED
    BY <1>2, <1>3

(* Ids that do for all do for fewer. *)
LEMMA CanPostFewer ==
    ASSUME NEW drafts \in Seq(Drafts), NEW more \in Seq(Drafts), CanPost(drafts \o more), mailid \in Nat
    PROVE  CanPost(drafts)
<1>1. Len(drafts \o more) = Len(drafts) + Len(more) /\ Len(drafts) \in Nat /\ Len(more) \in Nat
    BY ConcatProperties, LenProperties
<1> QED
    BY <1>1, StoreAssumption DEF CanPost

(* The cut is a part of the bid. *)
LEMMA CutIsLess ==
    ASSUME NEW bid \in Nat
    PROVE  GetAuctionCut(bid) \in Nat /\ GetAuctionCut(bid) <= bid
<1>1. CutPercent \in Nat /\ CutPercent <= 100
    BY AuctionAssumption
<1>2. bid * CutPercent \in Nat /\ bid * CutPercent <= bid * 100
    BY <1>1
<1> DEFINE y == bid * CutPercent
<1>3. y \in Nat /\ y <= bid * 100
    BY <1>2
<1> HIDE DEF y
<1>4. y \div 100 \in Nat /\ y \div 100 <= bid
    BY <1>3
<1> QED
    BY <1>4 DEF GetAuctionCut, y

(* A bid. *)
WithBid(row, p, price) == [row EXCEPT !.bidder = p, !.bid = price]
Bid(p, price) == [bidder |-> p, bid |-> price]

(* A bid updates its columns in the row of the auction.                        *)
LEMMA BidWritten ==
    ASSUME NEW d \in Tables, NEW a \in AuctionId, d.auctionhouse[a] # None, NEW p \in Player, NEW price \in Nat
    PROVE  Written(d.auctionhouse, Only(a, Bid(p, price)), AuctionColumns)
             = [d.auctionhouse EXCEPT ![a] = WithBid(d.auctionhouse[a], p, price)]
<1> DEFINE u == Bid(p, price)
           g == d.auctionhouse
           w == Only(a, u)
           row == g[a]
<1>1. g \in [AuctionId -> AuctionRow \union {None}] /\ row \in AuctionRow /\ row # None
    BY DEF Tables
<1>2. u # None
    <2>1. u \in AuctionUpdate
        BY DEF Bid, AuctionUpdate
    <2> QED
        BY <2>1, NoneAssumption
<1>3. DOMAIN u # AuctionColumns
    <2>1. "item" \in AuctionColumns /\ "item" \notin DOMAIN u
        BY DEF AuctionColumns, Bid
    <2> QED
        BY <2>1
<1>4. Override(u, row) = WithBid(row, p, price)
    <2> DEFINE v == WithBid(row, p, price)
    <2>1. DOMAIN row = AuctionColumns /\ row = [k \in AuctionColumns |-> row[k]]
        BY <1>1 DEF AuctionRow, AuctionColumns
    <2>2. /\ DOMAIN u = {"bidder", "bid"} /\ u["bidder"] = p /\ u["bid"] = price
          /\ {"bidder", "bid"} \union AuctionColumns = AuctionColumns
        BY DEF AuctionColumns, Bid
    <2> HIDE DEF u, row
    <2>3. v = [k \in AuctionColumns |-> IF k = "bid" THEN price ELSE IF k = "bidder" THEN p ELSE row[k]]
        BY <2>1 DEF AuctionColumns, WithBid
    <2>4. Override(u, row) = [k \in AuctionColumns |-> IF k \in DOMAIN u THEN u[k] ELSE row[k]]
        BY <2>1, <2>2 DEF Override
    <2>5. \A k \in AuctionColumns : (IF k \in DOMAIN u THEN u[k] ELSE row[k])
                                      = IF k = "bid" THEN price ELSE IF k = "bidder" THEN p ELSE row[k]
        BY <2>2
    <2> HIDE DEF v
    <2>6. Override(u, row) = v
        BY <2>3, <2>4, <2>5
    <2> QED
        BY <2>6 DEF v
<1>5. DOMAIN w = {a} /\ w[a] = u
    BY DEF Only
<1>6. g = [j \in AuctionId |-> g[j]] /\ DOMAIN g = AuctionId
    BY <1>1
<1>7. row = g[a]
    OBVIOUS
<1> HIDE DEF u, w, row, g
<1>8. Written(g, w, AuctionColumns) = [j \in AuctionId |-> IF j = a THEN WithBid(row, p, price) ELSE g[j]]
    <2>1. \A j \in AuctionId : (IF j \notin DOMAIN w THEN g[j]
                                ELSE IF w[j] = None \/ DOMAIN w[j] = AuctionColumns THEN w[j]
                                ELSE IF g[j] = None THEN None
                                ELSE Override(w[j], g[j])) = IF j = a THEN WithBid(row, p, price) ELSE g[j]
        BY <1>1, <1>2, <1>3, <1>4, <1>5, <1>7
    <2> QED
        BY <1>6, <2>1 DEF Written
<1>9. Written(g, w, AuctionColumns) = [g EXCEPT ![a] = WithBid(row, p, price)]
    BY <1>6, <1>8
<1> QED
    BY <1>7, <1>9 DEF g, w, u

(* What a purse holds keeps its value in a mail; what a mail is worth is gold. *)
LEMMA ValueOfBid ==
    ASSUME NEW sum \in Nat
    PROVE  /\ Value(sum) \in Nat /\ Value(sum) <= sum /\ Value(0) = 0
           /\ sum <= MaxMoney => Value(sum) = sum
<1>1. Half \in Nat /\ MaxMoney \in Nat /\ MaxMoney < Half
    BY StoreAssumption, MailAssumption
<1> QED
    BY <1>1 DEF Value

(* Who is outbidden gets his gold back by mail. *)
LEMMA RefundIs ==
    ASSUME NEW a, auctions[a] \in AuctionRow, auctions[a].bidder = None => auctions[a].bid = 0,
           auctions[a].bid <= MaxMoney, NEW p
    PROVE  /\ MayPost(Outbidded(p, a), {}) /\ ItemsOfAll(Outbidded(p, a)) \subseteq {None}
           /\ GoldOf(Outbidded(p, a)) = IF auctions[a].bidder = p THEN 0 ELSE auctions[a].bid
           /\ Outbidded(p, a) \in Seq(Drafts)
<1> DEFINE row == auctions[a]
           draft == AuctionMail(row.bidder, row.bid, None)
           out == Outbidded(p, a)
<1>1. /\ row.bidder \in Player \union {None} /\ row.bid \in Nat /\ row.bid <= MaxMoney
      /\ Value(row.bid) = row.bid
    <2>1. row.bidder \in Player \union {None} /\ row.bid \in Nat /\ row.bid <= MaxMoney
        BY DEF AuctionRow
    <2> QED
        BY <2>1, ValueOfBid
<1>2. out = IF row.bidder \in {None, p} THEN <<>> ELSE <<draft>>
    BY DEF Outbidded, RefundMail
<1> HIDE DEF row, out
<1>3. CASE row.bidder \in {None, p}
    <2>1. out = <<>>
        BY <1>2, <1>3
    <2> QED
        BY <1>3, <2>1 DEF MayPost, ItemsOfAll, GoldOf, row, out
<1>4. CASE row.bidder \notin {None, p}
    <2>1. row.bidder \in Player /\ None \in Item \union {None}
        BY <1>1, <1>4
    <2>2. draft \in Drafts /\ draft.money = row.bid /\ draft.item = None
        BY <1>1, <2>1, AuctionMailIs, WordIs
    <2> HIDE DEF draft
    <2>3. out = <<draft>> /\ out # <<>> /\ out[1] = draft
        BY <1>2, <1>4
    <2> QED
        BY <1>1, <1>4, <2>2, <2>3 DEF MayPost, ItemsOfAll, GoldOf, row, out
<1> QED
    BY <1>3, <1>4

(* What is written when an auction ends, and the items S are left nowhere.     *)
EndWrites(a, fee, S) == [NoWrites EXCEPT !.auctionhouse = Only(a, None), !.fees = fee, !.lost = S]

Ends(d, a, fee, S, b) ==
    /\ b = Apply(d, EndWrites(a, fee, S))
    /\ DOMAIN EndWrites(a, fee, S) = DOMAIN NoWrites /\ EndWrites(a, fee, S).login = None
    /\ EndWrites(a, fee, S).listed = <<>>
    /\ Sound(b, (d.auctionhouse[a].bid + d.auctionhouse[a].deposit) - fee, {d.auctionhouse[a].item} \ S)
    /\ Touches(d, b, {}, {})
    /\ b.money = d.money /\ b.mail = d.mail /\ b.inventory = d.inventory /\ b.instance = d.instance
    /\ b.auctionhouse = [d.auctionhouse EXCEPT ![a] = None]

(* The row goes: its item is loose or lost, and its gold but for the fee.      *)
LEMMA EndMoves ==
    ASSUME NEW d, Sound(d, 0, {}), NEW a \in AuctionId, d.auctionhouse[a] # None, NEW fee \in Nat,
           NEW S \in SUBSET {d.auctionhouse[a].item}
    PROVE  \E b : Ends(d, a, fee, S, b)
<1> DEFINE row == d.auctionhouse[a]
           sum == row.bid + row.deposit
           t == EndWrites(a, fee, S)
           b1 == PutAuction(d, a, None)
           b2 == PutFee(b1, fee)
           b == Lose(b2, S)
           L == {row.item}
<1>1. d \in Tables /\ row \in AuctionRow /\ sum \in Nat
    <2>1. d \in Tables /\ row \in AuctionRow
        BY DEF Sound, Tables
    <2> QED
        BY <2>1 DEF AuctionRow
<1>2. /\ t.money = <<>> /\ t.destroyed = {} /\ t.mail = <<>> /\ t.listed = <<>> /\ t.fees = fee
      /\ t.inventory = <<>> /\ t.auctionhouse = Only(a, None) /\ t.login = None /\ DOMAIN t = DOMAIN NoWrites
      /\ t.created = {} /\ t.unlisted = {} /\ t.cleared = {} /\ t.lost = S
    BY DEF NoWrites, EndWrites
<1>3. /\ Sound(b1, sum, L) /\ ButAuctions(d, b1) /\ b1.auctionhouse = [d.auctionhouse EXCEPT ![a] = None]
      /\ Touches(d, b1, {}, {})
    <2>1. LET e == PutAuction(d, a, None)
          IN  /\ Sound(e, 0 + (d.auctionhouse[a].bid + d.auctionhouse[a].deposit), {} \union {d.auctionhouse[a].item})
              /\ ButAuctions(d, e) /\ e.auctionhouse = [d.auctionhouse EXCEPT ![a] = None]
              /\ Touches(d, e, {}, {})
        BY AuctionGoes
    <2>2. 0 + (d.auctionhouse[a].bid + d.auctionhouse[a].deposit) = sum /\ {} \union {d.auctionhouse[a].item} = L
        BY <1>1
    <2> QED
        BY <2>1, <2>2
<1>9. S \in SUBSET L
    OBVIOUS
<1> HIDE DEF t, b1, sum, L
<1>4. Sound(b2, sum - fee, L) /\ ButFees(b1, b2) /\ b2.fees = b1.fees + fee /\ Touches(b1, b2, {}, {})
    BY <1>3, FeesMove
<1> HIDE DEF b2
<1>10. Sound(b, sum - fee, L \ S) /\ ButLost(b2, b) /\ b.lost = b2.lost \union S /\ Touches(b2, b, {}, {})
    BY <1>4, <1>9, ItemsAreLost
<1> HIDE DEF b
<1>5. /\ b.money = d.money /\ b.instance = d.instance /\ b.mail = d.mail /\ b.mail_items = d.mail_items
      /\ b.fees = d.fees + fee /\ b.inventory = d.inventory /\ b \in Tables /\ b1 \in Tables /\ b2 \in Tables
      /\ b.auctionhouse = [d.auctionhouse EXCEPT ![a] = None] /\ b.lost = d.lost \union S
    BY <1>3, <1>4, <1>10 DEF ButAuctions, ButFees, ButLost
<1>6. b = Apply(d, t)
    <2>1. Written(d.auctionhouse, t.auctionhouse, AuctionColumns) = b.auctionhouse
        <3>1. Written(d.auctionhouse, Only(a, None), AuctionColumns) = [d.auctionhouse EXCEPT ![a] = None]
            BY <1>1, AuctionWritten
        <3> QED
            BY <1>2, <1>5, <3>1
    <2>2. (d.instance \union t.created) \ t.destroyed = d.instance /\ d.fees + t.fees = b.fees
        BY <1>2, <1>5
    <2>3. /\ Override(t.money, d.money) = d.money /\ Override(t.inventory, d.inventory) = d.inventory
          /\ Written(d.mail, t.mail, MailColumns) = d.mail
        BY <1>1, <1>2, NotWritten
    <2>4. ~Refused(d, t) /\ Override(t.listed, Unlisted(d, t)) = d.mail_items
        BY <1>1, <1>2, NothingListed
    <2> QED
        BY <1>2, <1>5, <2>1, <2>2, <2>3, <2>4, ApplyIs
<1>7. Touches(d, b, {}, {})
    <2>1. Touches(d, b2, {} \union {}, {} \union {})
        BY <1>1, <1>3, <1>4, <1>5, TouchesBoth
    <2>2. Touches(d, b, ({} \union {}) \union {}, ({} \union {}) \union {})
        BY <1>1, <1>5, <1>10, <2>1, TouchesBoth
    <2> QED
        BY <2>2, TouchesMore
<1>8. Ends(d, a, fee, S, b)
    <2>1. Sound(b, (d.auctionhouse[a].bid + d.auctionhouse[a].deposit) - fee, {d.auctionhouse[a].item} \ S)
        BY <1>10 DEF sum, L
    <2>2. b = Apply(d, EndWrites(a, fee, S))
        BY <1>6 DEF t
    <2>3. /\ DOMAIN EndWrites(a, fee, S) = DOMAIN NoWrites /\ EndWrites(a, fee, S).login = None
          /\ EndWrites(a, fee, S).listed = <<>>
        BY <1>2 DEF t
    <2> QED
        BY <1>5, <1>7, <2>1, <2>2, <2>3 DEF Ends
<1> QED
    BY <1>8

(* The mail with the item of an auction, which is lost if there is none. *)
LEMMA ItemMailIs ==
    ASSUME NEW r \in Player, NEW i \in Item
    PROVE  LET kept == {i} \ ({i} \ mAitems)
           IN  /\ MayPost(ItemMail(r, i), kept) /\ kept \ ItemsOfAll(ItemMail(r, i)) = {}
               /\ GoldOf(ItemMail(r, i)) = 0 /\ ItemMail(r, i) \in Seq(Drafts)
<1> DEFINE draft == AuctionMail(r, 0, i)
           out == ItemMail(r, i)
<1>1. draft \in Drafts /\ draft.money = 0 /\ draft.item = i /\ Value(0) = 0
    BY AuctionMailIs, ValueOfBid, WordIs
<1>2. out = IF i \in mAitems THEN <<draft>> ELSE <<>>
    BY DEF ItemMail
<1> HIDE DEF draft, out
<1>3. CASE i \in mAitems
    <2>1. out = <<draft>> /\ out # <<>> /\ out[1] = draft
        BY <1>2, <1>3
    <2> QED
        BY <1>1, <1>3, <2>1 DEF MayPost, ItemsOfAll, GoldOf, out
<1>4. CASE i \notin mAitems
    <2>1. out = <<>> /\ out \in Seq(Drafts)
        BY <1>2, <1>4
    <2> QED
        BY <1>4, <2>1 DEF MayPost, ItemsOfAll, GoldOf, out
<1> QED
    BY <1>3, <1>4

(* The mail with the gold of a sale. *)
LEMMA SuccessfulIs ==
    ASSUME NEW row \in AuctionRow, row.bid <= MaxMoney, row.deposit <= MaxMoney, NEW loose
    PROVE  LET more == <<SuccessfulMail(row)>>
           IN  /\ MayPost(more, loose) /\ ItemsOfAll(more) = {None}
               /\ GoldOf(more) = row.bid + row.deposit - Fee(row) /\ Fee(row) \in Nat
               /\ more \in Seq(Drafts)
<1> DEFINE draft == SuccessfulMail(row)
           more == <<draft>>
           sum == row.bid + row.deposit - GetAuctionCut(row.bid)
<1>1. row.owner \in Player /\ row.bid \in Nat /\ row.deposit \in Nat
    BY DEF AuctionRow
<1>2. sum \in Nat /\ sum < Word /\ None \in Item \union {None}
    <2>1. GetAuctionCut(row.bid) \in Nat /\ GetAuctionCut(row.bid) <= row.bid
        BY <1>1, CutIsLess
    <2>2. MaxMoney \in Nat /\ MaxMoney < Half /\ Half \in Nat /\ Word = 2 * Half
        BY WordIs, MailAssumption DEF Word
    <2> QED
        BY <1>1, <2>1, <2>2
<1> HIDE DEF sum
<1>3. draft = AuctionMail(row.owner, sum, None)
    BY DEF SuccessfulMail, sum
<1>4. draft \in Drafts /\ draft.money = sum /\ draft.item = None
    BY <1>1, <1>2, <1>3, AuctionMailIs
<1>6. /\ Fee(row) = row.bid + row.deposit - Value(draft.money)
      /\ Fee(row) \in Nat /\ Value(draft.money) = row.bid + row.deposit - Fee(row)
    <2>1. Fee(row) = row.bid + row.deposit - Value(draft.money)
        BY DEF Fee
    <2>2. Value(sum) \in Nat /\ Value(sum) <= row.bid + row.deposit
        <3>1. sum <= row.bid + row.deposit
            <4>1. GetAuctionCut(row.bid) \in Nat
                BY <1>1, CutIsLess
            <4> QED
                BY <1>1, <4>1 DEF sum
        <3>2. Value(sum) \in Nat /\ Value(sum) <= sum
            BY <1>2, ValueOfBid
        <3> QED
            BY <1>1, <1>2, <3>1, <3>2
    <2> HIDE DEF draft
    <2> QED
        BY <1>1, <1>4, <2>1, <2>2
<1> HIDE DEF draft
<1>5. more # <<>> /\ more[1] = draft
    OBVIOUS
<1>7. /\ MayPost(more, loose) /\ ItemsOfAll(more) = {None}
      /\ GoldOf(more) = row.bid + row.deposit - Fee(row) /\ more \in Seq(Drafts)
    <2>1. GoldOf(more) = Value(draft.money)
        BY <1>5 DEF GoldOf
    <2>2. ItemsOfAll(more) = {None}
        BY <1>4, <1>5 DEF ItemsOfAll
    <2>3. MayPost(more, loose) /\ more \in Seq(Drafts)
        BY <1>4 DEF MayPost
    <2> QED
        BY <1>6, <2>1, <2>2, <2>3
<1> QED
    BY <1>6, <1>7 DEF draft

(* Two drafts more, or lists of them. *)
LEMMA EffectTwo ==
    ASSUME NEW d, NEW t, NEW b, NEW drafts, NEW e, NEW gold, NEW loose,
           Effect(d, t, b, drafts, e, gold, loose),
           NEW more, NEW last, MayPost(more, loose), more \in Seq(Drafts),
           MayPost(last, loose \ ItemsOfAll(more)), last \in Seq(Drafts),
           CanPost((drafts \o more) \o last)
    PROVE  \E h : Effect(d, t, b, (drafts \o more) \o last, h, gold - GoldOf(more) - GoldOf(last),
                         (loose \ ItemsOfAll(more)) \ ItemsOfAll(last))
<1>1. drafts \in Seq(Drafts) /\ mailid \in Nat /\ drafts \o more \in Seq(Drafts)
    <2>1. drafts \in Seq(Drafts) /\ mailid \in Nat
        BY StoreAssumption DEF Effect
    <2> QED
        BY <2>1, ConcatProperties
<1>2. CanPost(drafts \o more)
    BY <1>1, CanPostFewer
<1>3. PICK h : Effect(d, t, b, drafts \o more, h, gold - GoldOf(more), loose \ ItemsOfAll(more))
    BY <1>2, EffectMore
<1> QED
    BY <1>3, EffectMore

(* The first drafts. *)
LEMMA EffectFirst ==
    ASSUME NEW d, NEW t, NEW b, NEW e, NEW gold, NEW loose,
           Effect(d, t, b, <<>>, e, gold, loose),
           NEW more, MayPost(more, loose), more \in Seq(Drafts), CanPost(more)
    PROVE  \E h : Effect(d, t, b, more, h, gold - GoldOf(more), loose \ ItemsOfAll(more))
<1> DEFINE none == <<>>
<1>1. none \o more = more
    BY ConcatProperties
<1>2. Effect(d, t, b, none, e, gold, loose) /\ CanPost(none \o more)
    BY <1>1
<1> HIDE DEF none
<1>3. \E h : Effect(d, t, b, none \o more, h, gold - GoldOf(more), loose \ ItemsOfAll(more))
    BY <1>2, EffectMore
<1> QED
    BY <1>1, <1>3

(* An item that may be posted may be posted with others there. *)
LEMMA MayPostMore ==
    ASSUME NEW more, NEW S, NEW T, MayPost(more, S), S \subseteq T
    PROVE  MayPost(more, T)
BY DEF MayPost

(* A mail goes, and its item is loose. *)
MailGone(d, m, i, b) ==
    /\ Sound(b, Value(d.mail[m].money), {i} \ {None})
    /\ Touches(d, b, {}, {m})
    /\ b.money = d.money /\ b.instance = d.instance /\ b.inventory = d.inventory
    /\ b.auctionhouse = d.auctionhouse /\ b.fees = d.fees /\ b.lost = d.lost
    /\ b.mail = [d.mail EXCEPT ![m] = None]
    /\ b.mail_items = IF i = None THEN d.mail_items ELSE [d.mail_items EXCEPT ![i] = None]

(* There are tables that a mail has left so.                                   *)
LEMMA MailLeaves ==
    ASSUME NEW d, Sound(d, 0, {}), NEW m \in MailId, d.mail[m] # None, NEW i \in Item \union {None},
           Inside(d, m) = {i} \ {None}
    PROVE  \E b : MailGone(d, m, i, b)
<1>0. d \in Tables /\ Value(d.mail[m].money) \in Nat /\ m # None
    <2>1. d \in Tables /\ d.mail[m].money \in Nat /\ m # None
        BY Keys DEF Sound, Tables, MailRow
    <2> QED
        BY <2>1, ValueOfBid
<1>1. CASE i = None
    <2> DEFINE b == PutMail(d, m, None)
    <2>1. /\ Sound(b, 0 + Value(d.mail[m].money), {}) /\ ButMail(d, b) /\ b.mail = [d.mail EXCEPT ![m] = None]
          /\ Touches(d, b, {}, {m})
        BY <1>1, MailGoes
    <2> HIDE DEF b
    <2>2. 0 + Value(d.mail[m].money) = Value(d.mail[m].money) /\ {i} \ {None} = {}
        BY <1>0, <1>1
    <2>3. MailGone(d, m, i, b)
        BY <1>1, <2>1, <2>2 DEF MailGone, ButMail
    <2> QED
        BY <2>3
<1>2. CASE i # None
    <2> DEFINE b1 == PutItem(d, i, None)
               b == PutMail(b1, m, None)
               J == {i}
    <2>1. i \in d.instance /\ d.mail_items[i] = m
        BY <1>2 DEF Inside
    <2>2. /\ Sound(b1, 0, J) /\ ButItems(d, b1) /\ b1.mail_items = [d.mail_items EXCEPT ![i] = None]
          /\ Touches(d, b1, {}, {m})
        <3>1. /\ Sound(b1, 0, {} \union {i}) /\ ButItems(d, b1) /\ b1.mail_items = [d.mail_items EXCEPT ![i] = None]
              /\ Touches(d, b1, {}, {m})
            BY <2>1, MailLoses
        <3> QED
            BY <3>1
    <2> HIDE DEF b1, J
    <2>3. b1.mail[m] # None /\ Inside(b1, m) = {}
        <3>1. d.mail_items \in [Item -> MailId \union {None}] /\ i \in Item
            BY <1>0, <1>2 DEF Tables
        <3> QED
            BY <1>0, <1>2, <2>2, <3>1 DEF Inside, ButItems
    <2>4. /\ Sound(b, 0 + Value(b1.mail[m].money), J) /\ ButMail(b1, b) /\ b.mail = [b1.mail EXCEPT ![m] = None]
          /\ Touches(b1, b, {}, {m})
        BY <2>2, <2>3, MailGoes
    <2> HIDE DEF b
    <2>5. 0 + Value(b1.mail[m].money) = Value(d.mail[m].money) /\ {i} \ {None} = J
        BY <1>0, <1>2, <2>2 DEF ButItems, J
    <2>6. Touches(d, b, {}, {m})
        <3>1. b1 \in Tables /\ b \in Tables
            BY <2>2, <2>4 DEF Sound
        <3>2. Touches(d, b, {} \union {}, {m} \union {m})
            BY <1>0, <2>2, <2>4, <3>1, TouchesBoth
        <3> QED
            BY <3>2, TouchesMore
    <2>7. MailGone(d, m, i, b)
        BY <1>2, <2>2, <2>4, <2>5, <2>6 DEF MailGone, ButItems, ButMail
    <2> QED
        BY <2>7
<1> QED
    BY <1>1, <1>2

(* What is written when a mail goes, with the gold fee and the items S.        *)
GoneWrites(m, fee, S) ==
    [NoWrites EXCEPT !.mail = Only(m, None), !.cleared = {m}, !.fees = fee, !.lost = S]

Goes(d, m, i, fee, S, b) ==
    LET t == GoneWrites(m, fee, S)
    IN  /\ b = Apply(d, t)
        /\ DOMAIN t = DOMAIN NoWrites /\ t.login = None /\ t.listed = <<>>
        /\ Sound(b, Value(d.mail[m].money) - fee, ({i} \ {None}) \ S)
        /\ Touches(d, b, {}, {m})
        /\ b.auctionhouse = d.auctionhouse
        /\ b.mail = [d.mail EXCEPT ![m] = None]

(* The transaction that makes it go. *)
LEMMA MailIsGone ==
    ASSUME NEW d, Sound(d, 0, {}), NEW m \in MailId, d.mail[m] # None, NEW i \in Item \union {None},
           Inside(d, m) = {i} \ {None}, NEW fee \in Nat, NEW S \in SUBSET ({i} \ {None})
    PROVE  \E b : Goes(d, m, i, fee, S, b)
<1> DEFINE t == GoneWrites(m, fee, S)
           L == {i} \ {None}
           items == Unlisted(d, t)
           v == Value(d.mail[m].money)
<1>1. PICK b1 : MailGone(d, m, i, b1)
    BY MailLeaves
<1> DEFINE b2 == PutItems(b1, items)
           b3 == PutFee(b2, fee)
           b == Lose(b3, S)
<1>2. /\ d \in Tables /\ d.mail_items \in [Item -> MailId \union {None}] /\ DOMAIN d.mail_items = Item
      /\ None \notin MailId /\ d.fees \in Nat
    BY Keys DEF Sound, Tables
<1>3. /\ t.money = <<>> /\ t.destroyed = {} /\ t.mail = Only(m, None) /\ t.listed = <<>> /\ t.fees = fee
      /\ t.inventory = <<>> /\ t.auctionhouse = <<>> /\ t.login = None /\ DOMAIN t = DOMAIN NoWrites
      /\ t.created = {} /\ t.unlisted = {} /\ t.cleared = {m} /\ t.lost = S
    BY DEF NoWrites, GoneWrites
<1> HIDE DEF t
<1>4. /\ items \in [Item -> MailId \union {None}]
      /\ \A j \in Item : items[j] = IF d.mail_items[j] = m THEN None ELSE d.mail_items[j]
    BY <1>2, <1>3 DEF Unlisted
<1>5. /\ Sound(b1, v, L) /\ Touches(d, b1, {}, {m})
      /\ b1.money = d.money /\ b1.instance = d.instance /\ b1.inventory = d.inventory
      /\ b1.auctionhouse = d.auctionhouse /\ b1.fees = d.fees /\ b1.lost = d.lost
      /\ b1.mail = [d.mail EXCEPT ![m] = None]
      /\ b1.mail_items = IF i = None THEN d.mail_items ELSE [d.mail_items EXCEPT ![i] = None]
    BY <1>1 DEF MailGone
<1>6. \A j \in b1.instance : items[j] = b1.mail_items[j]
    <2> SUFFICES ASSUME NEW j \in d.instance PROVE items[j] = b1.mail_items[j]
        BY <1>5
    <2>1. j \in Item /\ (d.mail_items[j] = m <=> j \in {i} \ {None})
        BY <1>2 DEF Inside, Tables
    <2>2. items[j] = IF d.mail_items[j] = m THEN None ELSE d.mail_items[j]
        BY <1>4, <2>1
    <2>3. b1.mail_items[j] = IF j = i THEN None ELSE d.mail_items[j]
        <3>1. CASE i = None
            BY <1>5, <2>1, <3>1, Keys
        <3>2. CASE i # None
            BY <1>2, <1>5, <2>1, <3>2
        <3> QED
            BY <3>1, <3>2
    <2>4. d.mail_items[j] = m <=> j = i
        BY <2>1, Keys
    <2> HIDE DEF items
    <2> QED
        BY <2>2, <2>3, <2>4
<1> HIDE DEF items, L, v
<1>7. Sound(b2, v, L) /\ ButItems(b1, b2) /\ b2.mail_items = items /\ Touches(b1, b2, {}, {})
    BY <1>4, <1>5, <1>6, OthersMove, ZenonT(60)
<1> HIDE DEF b2
<1>8. Sound(b3, v - fee, L) /\ ButFees(b2, b3) /\ b3.fees = b2.fees + fee /\ Touches(b2, b3, {}, {})
    BY <1>7, FeesMove
<1> HIDE DEF b3
<1>9. Sound(b, v - fee, L \ S) /\ ButLost(b3, b) /\ b.lost = b3.lost \union S /\ Touches(b3, b, {}, {})
    <2>1. S \in SUBSET L
        BY DEF L
    <2> QED
        BY <1>8, <2>1, ItemsAreLost
<1> HIDE DEF b
<1>10. /\ b.money = d.money /\ b.instance = d.instance /\ b.mail = [d.mail EXCEPT ![m] = None] /\ b.mail_items = items
       /\ b.fees = d.fees + fee /\ b.inventory = d.inventory /\ b.auctionhouse = d.auctionhouse
       /\ b.lost = d.lost \union S
       /\ b \in Tables /\ b1 \in Tables /\ b2 \in Tables /\ b3 \in Tables
    BY <1>5, <1>7, <1>8, <1>9 DEF ButItems, ButFees, ButLost
<1>11. Touches(d, b, {}, {m})
    <2>1. Touches(d, b2, {} \union {}, {m} \union {})
        BY <1>2, <1>5, <1>7, <1>10, TouchesBoth
    <2>2. Touches(d, b3, ({} \union {}) \union {}, ({m} \union {}) \union {})
        BY <1>2, <1>8, <1>10, <2>1, TouchesBoth
    <2>3. Touches(d, b, (({} \union {}) \union {}) \union {}, (({m} \union {}) \union {}) \union {})
        BY <1>2, <1>9, <1>10, <2>2, TouchesBoth
    <2> QED
        BY <2>3, TouchesMore
<1>12. b = Apply(d, t)
    <2>1. Written(d.mail, Only(m, None), MailColumns) = [d.mail EXCEPT ![m] = None]
        BY <1>2, MailWritten
    <2>2. /\ Override(t.money, d.money) = d.money /\ Override(t.inventory, d.inventory) = d.inventory
          /\ Written(d.auctionhouse, t.auctionhouse, AuctionColumns) = d.auctionhouse
        BY <1>2, <1>3, NotWritten
    <2>3. ~Refused(d, t) /\ Override(t.listed, Unlisted(d, t)) = items
        BY <1>2, <1>3, NothingListed DEF items
    <2>4. (d.instance \union t.created) \ t.destroyed = d.instance
        BY <1>3
    <2> QED
        BY <1>3, <1>10, <2>1, <2>2, <2>3, <2>4, ApplyIs
<1>13. Goes(d, m, i, fee, S, b)
    BY <1>3, <1>9, <1>10, <1>11, <1>12 DEF Goes, t, v, L
<1> QED
    BY <1>13

(* The character x without the mail m, and with the items gone no longer in a  *)
(* mail.                                                                       *)
WithoutOne(x, m, gone) ==
    [x EXCEPT !.mails = [k \in (DOMAIN @) \ {m} |-> @[k]], !.mMitems = @ \ gone]

(* The tables b are d without the mail m of x, where the items gone may be.    *)
MailWent(d, b, x, m, gone) ==
    /\ m \in DOMAIN x.mails /\ gone \subseteq {x.mails[m].item}
    /\ d \in Tables /\ b \in Tables /\ Touches(d, b, {}, {m})

(* The mailbox without the mail. *)
LEMMA WithoutMail ==
    ASSUME NEW d, NEW b, NEW p \in Player, NEW x, Current(d, p, x), x.state = "online",
           NEW m, NEW gone, MailWent(d, b, x, m, gone)
    PROVE  LET c == WithoutOne(x, m, gone)
           IN  Current(b, p, c) /\ c.mailsLoaded = x.mailsLoaded
<1> DEFINE c == WithoutOne(x, m, gone)
<1>0. /\ m \in DOMAIN x.mails /\ gone \subseteq {x.mails[m].item}
      /\ d \in Tables /\ b \in Tables /\ Touches(d, b, {}, {m})
    BY DEF MailWent
<1> DEFINE mails == [k \in (DOMAIN x.mails) \ {m} |-> x.mails[k]]
<1>1. /\ x \in CharRec /\ Mailbox(d, p, x.mails) /\ x.money = d.money[p] /\ x.bag = ItemsOf(d, p)
      /\ ~x.mailsLoaded => x.mails = <<>>
      /\ \A k \in DOMAIN x.mails : x.mails[k].item \in x.mMitems \union {None}
    BY <1>0 DEF Current
<1>2. \A k \in DOMAIN x.mails : /\ k \in MailId /\ x.mails[k] \in MemoryMail /\ IsThere(d, p, k, x.mails[k])
                                /\ k \in RowsOf(d.mail)
    BY <1>0, <1>1, Mails, Rows DEF Mailbox, IsThere
<1>3. mails \in MailMaps /\ DOMAIN mails = (DOMAIN x.mails) \ {m} /\ \A k \in DOMAIN mails : mails[k] = x.mails[k]
    <2>1. (DOMAIN x.mails) \ {m} \in SUBSET MailId
        BY <1>2
    <2>2. mails \in [(DOMAIN x.mails) \ {m} -> MemoryMail]
        BY <1>2
    <2> QED
        BY <2>1, <2>2 DEF MailMaps
<1>4. DOMAIN x.mails = {} => mails = x.mails
    <2>1. x.mails = [k \in DOMAIN x.mails |-> x.mails[k]]
        BY <1>1, Mails DEF CharRec
    <2> QED
        BY <2>1
<1>5. /\ c \in CharRec /\ c.state = "online" /\ c.money = x.money /\ c.bag = x.bag /\ c.mails = mails
      /\ c.mailsLoaded = x.mailsLoaded /\ c.mMitems = x.mMitems \ gone
    BY <1>1, <1>3 DEF CharRec, WithoutOne
<1> HIDE DEF mails, c
<1>6. Mailbox(b, p, mails)
    <2>1. \A k \in DOMAIN mails : b.mail[k] = d.mail[k] /\ Inside(b, k) = Inside(d, k)
        BY <1>0, <1>2, <1>3 DEF Touches
    <2> QED
        BY <1>2, <1>3, <2>1 DEF Mailbox, IsThere
<1>7. b.money[p] = d.money[p] /\ ItemsOf(b, p) = ItemsOf(d, p)
    BY <1>0 DEF Touches
<1>8. ~x.mailsLoaded => mails = <<>>
    BY <1>1, <1>4
<1>10. \A k \in DOMAIN mails : mails[k].item \in (x.mMitems \ gone) \union {None}
    <2> SUFFICES ASSUME NEW k \in DOMAIN mails, mails[k].item # None
                 PROVE  mails[k].item \in x.mMitems \ gone
        OBVIOUS
    <2>1. k \in DOMAIN x.mails /\ k # m /\ mails[k] = x.mails[k] /\ x.mails[k].item \in x.mMitems
        BY <1>0, <1>1, <1>3
    <2>2. x.mails[k].item \in Inside(d, k)
        BY <1>2, <2>1 DEF IsThere
    <2>3. x.mails[m].item # None => x.mails[m].item \in Inside(d, m)
        BY <1>0, <1>2 DEF IsThere
    <2>4. x.mails[m].item # x.mails[k].item
        BY <2>1, <2>2, <2>3 DEF Inside
    <2> QED
        BY <1>0, <2>1, <2>4
<1>9. Current(b, p, c)
    BY <1>1, <1>5, <1>6, <1>7, <1>8, <1>10 DEF Current
<1> QED
    BY <1>5, <1>9 DEF c

(* The character c is x but for gold, bag, and the mail m, which is y now. *)
Opens(x, c, m, y, money, bag) ==
    /\ c \in CharRec /\ c.money = money /\ c.bag = bag
    /\ c.state = x.state /\ c.mailsLoaded = x.mailsLoaded
    /\ c.mails = [x.mails EXCEPT ![m] = y]
    /\ \A k \in DOMAIN c.mails : c.mails[k].item \in c.mMitems \union {None}

(* A character with other gold, bag and one other mail is such a c.            *)
LEMMA OpenedIs ==
    ASSUME NEW x \in CharRec, NEW c, NEW m \in DOMAIN x.mails, NEW y \in MemoryMail,
           NEW money \in 0..MaxMoney, NEW bag \in SUBSET Item, NEW mails, mails = [x.mails EXCEPT ![m] = y],
           NEW items \in SUBSET Item, \A k \in DOMAIN mails : mails[k].item \in items \union {None},
           c = [x EXCEPT !.money = money, !.bag = bag, !.mMitems = items, !.mails = mails]
    PROVE  Opens(x, c, m, y, money, bag)
<1>1. mails \in MailMaps
    <2>1. /\ DOMAIN x.mails \in SUBSET MailId /\ \A k \in DOMAIN x.mails : x.mails[k] \in MemoryMail
        BY Mails DEF CharRec
    <2>2. mails \in [DOMAIN x.mails -> MemoryMail]
        BY <2>1
    <2> QED
        BY <2>1, <2>2 DEF MailMaps
<1>2. /\ x = [state |-> x.state, money |-> x.money, bag |-> x.bag, mMitems |-> x.mMitems,
              mails |-> x.mails, mailsLoaded |-> x.mailsLoaded,
              mailsUpdated |-> x.mailsUpdated]
      /\ x.state \in {"offline", "loading", "online"} /\ x.mailsLoaded \in BOOLEAN /\ x.mailsUpdated \in BOOLEAN
    BY DEF CharRec
<1>3. c = [state |-> x.state, money |-> money, bag |-> bag, mMitems |-> items, mails |-> mails, mailsLoaded |-> x.mailsLoaded,
           mailsUpdated |-> x.mailsUpdated]
    BY <1>2
<1>4. c \in CharRec
    BY <1>1, <1>2, <1>3 DEF CharRec
<1> QED
    BY <1>3, <1>4 DEF Opens

(* It is what the tables say, if they have changed in the same.                *)
LEMMA OpensCurrent ==
    ASSUME NEW d \in Tables, NEW b \in Tables, NEW p \in Player, NEW x, Current(d, p, x), x.state = "online",
           NEW c, NEW m \in DOMAIN x.mails, NEW y, NEW money, NEW bag, Opens(x, c, m, y, money, bag),
           b.money[p] = money, ItemsOf(b, p) = bag, Touches(d, b, {p}, {m}), IsThere(b, p, m, y)
    PROVE  Current(b, p, c)
<1>1. /\ x \in CharRec /\ Mailbox(d, p, x.mails) /\ c \in CharRec
      /\ ~x.mailsLoaded => x.mails = <<>>
    BY DEF Current, Opens
<1>2. /\ \A k \in DOMAIN x.mails : k \in MailId /\ IsThere(d, p, k, x.mails[k]) /\ k \in RowsOf(d.mail)
      /\ c.mails \in MailMaps
    BY <1>1, Mails, Rows DEF Mailbox, IsThere, CharRec
<1>3. DOMAIN c.mails = DOMAIN x.mails /\ \A k \in DOMAIN x.mails : c.mails[k] = IF k = m THEN y ELSE x.mails[k]
    BY DEF Opens
<1>4. Mailbox(b, p, c.mails)
    <2>1. \A k \in DOMAIN x.mails : k # m => b.mail[k] = d.mail[k] /\ Inside(b, k) = Inside(d, k)
        BY <1>2 DEF Touches
    <2>2. \A k \in DOMAIN c.mails : IsThere(b, p, k, c.mails[k])
        BY <1>2, <1>3, <2>1 DEF IsThere
    <2> QED
        BY <1>2, <2>2 DEF Mailbox
<1>5. ~c.mailsLoaded => FALSE
    <2>1. ~x.mailsLoaded => DOMAIN x.mails = {}
        BY <1>1
    <2> QED
        BY <2>1 DEF Opens
<1>6. /\ c.state = "online" /\ c.money = b.money[p] /\ c.bag = ItemsOf(b, p)
      /\ \A k \in DOMAIN c.mails : c.mails[k].item \in c.mMitems \union {None}
    BY DEF Opens
<1> QED
    BY <1>1, <1>4, <1>5, <1>6 DEF Current

(* Its changed mails are to be saved. *)
LEMMA OpensChanged ==
    ASSUME NEW d \in Tables, NEW b, NEW p \in Player, NEW x, Current(d, p, x), x.state = "online",
           NEW c, NEW m \in DOMAIN x.mails, NEW y, y.state = "changed", NEW money, NEW bag, Opens(x, c, m, y, money, bag),
           b.mail = [d.mail EXCEPT ![m] = WithSums(d.mail[m], y.money, y.cod)]
    PROVE  ChangedRows(d, c, b)
<1>1. /\ x \in CharRec /\ Mailbox(d, p, x.mails)
    BY DEF Current, Opens
<1>2. \A k \in DOMAIN x.mails : k \in MailId /\ d.mail[k] # None /\ d.mail[k] \in MailRow
                                /\ d.mail[k].money = x.mails[k].money /\ d.mail[k].cod = x.mails[k].cod
    <2>1. \A k \in DOMAIN x.mails : k \in MailId /\ IsThere(d, p, k, x.mails[k])
        BY <1>1, Mails DEF Mailbox
    <2> QED
        BY <2>1 DEF IsThere, Tables
<1>3. DOMAIN c.mails = DOMAIN x.mails /\ \A k \in DOMAIN x.mails : c.mails[k] = IF k = m THEN y ELSE x.mails[k]
    BY DEF Opens
<1>4. d.mail \in [MailId -> MailRow \union {None}]
    BY DEF Tables
<1>5. \A k \in MailId : k # m => b.mail[k] = d.mail[k]
    BY <1>4
<1>6. b.mail[m] = WithSums(d.mail[m], y.money, y.cod)
    BY <1>2, <1>4
<1>7. \A row \in MailRow : WithSums(row, row.money, row.cod) = row
    BY DEF MailRow, WithSums
<1>8. m \in Changed(c)
    BY <1>3 DEF Changed
<1>9. \A k \in Changed(c) : d.mail[k] # None /\ b.mail[k] = WithSums(d.mail[k], c.mails[k].money, c.mails[k].cod)
    <2> SUFFICES ASSUME NEW k \in Changed(c)
                 PROVE  d.mail[k] # None /\ b.mail[k] = WithSums(d.mail[k], c.mails[k].money, c.mails[k].cod)
        OBVIOUS
    <2>1. k \in DOMAIN x.mails
        BY <1>3 DEF Changed
    <2>2. CASE k = m
        BY <1>2, <1>3, <1>6, <2>1, <2>2
    <2>3. CASE k # m
        <3>1. b.mail[k] = d.mail[k] /\ c.mails[k] = x.mails[k]
            BY <1>2, <1>3, <1>5, <2>1, <2>3
        <3>2. WithSums(d.mail[k], d.mail[k].money, d.mail[k].cod) = d.mail[k]
            BY <1>2, <1>7, <2>1
        <3> QED
            BY <1>2, <2>1, <3>1, <3>2
    <2> QED
        BY <2>2, <2>3
<1> QED
    BY <1>5, <1>8, <1>9 DEF ChangedRows

(* What a transaction t takes out of the mail m of p, that says y then: b are  *)
(* the tables then, with the new purse too.                                    *)
Takes(d, t, p, x, c, m, y, b, gold) ==
    /\ NoMails(t) /\ t.login = None /\ t.money = <<>> /\ t.auctionhouse = <<>>
    /\ t.created \subseteq d.instance
    /\ Opens(x, c, m, y, c.money, c.bag)
    /\ Sound(b, gold, {}) /\ Touches(d, b, {p}, {m})
    /\ b.money = [d.money EXCEPT ![p] = c.money] /\ b.instance = d.instance
    /\ b.inventory = Override(t.inventory, d.inventory)
    /\ b.mail_items = Unlisted(d, t)
    /\ b.auctionhouse = d.auctionhouse /\ b.fees = d.fees + t.fees /\ b.lost = d.lost \union t.lost
    /\ b.mail = [d.mail EXCEPT ![m] = WithSums(d.mail[m], y.money, y.cod)]
    /\ RowsOf(b.mail) \subseteq RowsOf(d.mail)
    /\ ItemsOf(b, p) = c.bag /\ IsThere(b, p, m, y) /\ y.state = "changed"

(* The save of the mailbox after something was taken from a mail: what is in   *)
(* memory then is what the tables say.                                         *)
LEMMA TakenMoves ==
    ASSUME NEW d \in Tables, NEW p \in Player, NEW x, Current(d, p, x), x.state = "online",
           NEW t, NEW c, NEW m \in DOMAIN x.mails, NEW y, NEW b, NEW gold, Takes(d, t, p, x, c, m, y, b, gold)
    PROVE  \E e : MailIsSaved(d, SaveGoldToDB(t, p, c), p, c, b, e, gold, {})
<1> DEFINE s == SaveGoldToDB(t, p, c)
<1>1. GoldIsWritten(d, t, p, c.money, s)
    BY GoldWritten DEF Takes, NoMails
<1> HIDE DEF s
<1>2. NoMails(s)
    BY <1>1 DEF GoldIsWritten, NoMails, Takes
<1>3. Sound(b, gold, {}) /\ b \in Tables /\ c.state = "online"
    BY DEF Takes, Sound, Opens
<1>4. d.money \in [Player -> Nat]
    BY DEF Tables
<1>5. Current(b, p, c)
    <2>1. b.money[p] = c.money /\ ItemsOf(b, p) = c.bag /\ Touches(d, b, {p}, {m}) /\ IsThere(b, p, m, y)
          /\ Opens(x, c, m, y, c.money, c.bag)
        BY <1>4 DEF Takes
    <2> QED
        BY <1>3, <2>1, OpensCurrent
<1>6. ChangedRows(d, c, b)
    <2>1. b.mail = [d.mail EXCEPT ![m] = WithSums(d.mail[m], y.money, y.cod)] /\ y.state = "changed"
          /\ Opens(x, c, m, y, c.money, c.bag)
        BY DEF Takes
    <2> QED
        BY <2>1, OpensChanged
<1>7. OtherWrites(d, s, b)
    <2>1. Written(d.auctionhouse, t.auctionhouse, AuctionColumns) = d.auctionhouse
        BY NotWritten DEF Takes
    <2>2. b.money = Override(s.money, d.money)
        BY <1>1 DEF GoldIsWritten, Takes
    <2>3. /\ s.inventory = t.inventory /\ s.auctionhouse = t.auctionhouse /\ s.fees = t.fees
          /\ s.created = t.created /\ s.lost = t.lost /\ s.unlisted = t.unlisted /\ s.cleared = t.cleared
        BY <1>1 DEF GoldIsWritten
    <2>4. Unlisted(d, s) = Unlisted(d, t)
        BY <2>3 DEF Unlisted
    <2> QED
        BY <2>1, <2>2, <2>3, <2>4 DEF Takes, OtherWrites
<1>8. c.mailsLoaded
    <2>1. m \in DOMAIN x.mails => x.mailsLoaded
        BY DEF Current
    <2> QED
        BY <2>1 DEF Takes, Opens
<1>9. \E e : MailIsSaved(d, s, p, c, b, e, gold, {})
    BY <1>2, <1>3, <1>5, <1>6, <1>7, <1>8, SaveMailMoves
<1> QED
    BY <1>9 DEF s

(* A row with other sums. *)
LEMMA WithSumsIs ==
    ASSUME NEW row \in MailRow, NEW v \in Nat, NEW w \in Nat
    PROVE  /\ WithSums(row, v, w) \in MailRow /\ WithSums(row, v, w) # None
           /\ WithSums(row, v, w).receiver = row.receiver
           /\ WithSums(row, v, w).money = v /\ WithSums(row, v, w).cod = w
<1>1. WithSums(row, v, w) \in MailRow
    BY DEF WithSums, MailRow
<1>2. WithSums(row, v, w) # None
    BY <1>1, NoneAssumption
<1> QED
    BY <1>1, <1>2 DEF WithSums, MailRow

(* The gold of a mail, up to the limit of a purse; what is negative as an      *)
(* int32 is taken out of the purse.                                            *)
LEMMA WithMoneyIs ==
    ASSUME NEW x \in CharRec, NEW sum \in Nat, sum < Word
    PROVE  LET v == WithMoney(x, sum).money
           IN  /\ v \in 0..MaxMoney /\ x.money + Value(sum) - v \in Nat
               /\ WithMoney(x, sum) = [x EXCEPT !.money = v]
<1> DEFINE u == IF sum < Half THEN IF x.money < MaxMoney - sum THEN x.money + sum ELSE MaxMoney
                ELSE IF x.money > Word - sum THEN x.money - (Word - sum) ELSE 0
<1>1. x.money \in 0..MaxMoney /\ MaxMoney \in Nat /\ Half \in Nat /\ Word \in Nat
    BY MailAssumption, WordIs DEF CharRec
<1>2. WithMoney(x, sum) = [x EXCEPT !.money = u]
    BY DEF WithMoney, Earned, Paid
<1>3. u \in 0..MaxMoney /\ x.money + Value(sum) - u \in Nat
    BY <1>1 DEF Value
<1> HIDE DEF u
<1>4. WithMoney(x, sum).money = u
    BY <1>2 DEF CharRec
<1> QED
    BY <1>2, <1>3, <1>4

(* The gold of the mail m is in the purse of p, but for what is gone. *)
GoldTaken(d, p, m, v, gone, b) ==
    /\ Sound(b, 0, {}) /\ Touches(d, b, {p}, {m}) /\ Inside(b, m) = Inside(d, m)
    /\ b.money = [d.money EXCEPT ![p] = v] /\ b.instance = d.instance
    /\ b.inventory = d.inventory /\ b.mail_items = d.mail_items
    /\ b.auctionhouse = d.auctionhouse /\ b.fees = d.fees + gone /\ b.lost = d.lost
    /\ b.mail = [d.mail EXCEPT ![m] = WithSums(d.mail[m], 0, d.mail[m].cod)]

(* There are such tables: the gold of a mail is in the purse of its owner, but *)
(* for what exceeds the limit.                                                 *)
LEMMA GoldIsTaken ==
    ASSUME NEW d, Sound(d, 0, {}), NEW p \in Player, NEW m \in MailId, d.mail[m] # None,
           NEW v \in 0..MaxMoney, NEW gone \in Nat, gone + v = d.money[p] + Value(d.mail[m].money)
    PROVE  \E b : GoldTaken(d, p, m, v, gone, b)
<1> DEFINE row == WithSums(d.mail[m], 0, d.mail[m].cod)
<1> DEFINE b1 == PutMail(d, m, row)
           b2 == PutFee(b1, gone)
           b == PutMoney(b2, p, v)
           sum == Value(d.mail[m].money)
           L == {}
<1>1. /\ d \in Tables /\ d.mail[m] \in MailRow /\ sum \in Nat /\ d.mail[m].cod \in Nat /\ d.money[p] \in Nat
    <2>1. d \in Tables /\ d.mail[m] \in MailRow /\ d.mail[m].money \in Nat /\ d.mail[m].cod \in Nat /\ d.money[p] \in Nat
        BY DEF Sound, Tables, MailRow
    <2> QED
        BY <2>1, ValueOfBid
<1>2. row \in MailRow /\ row.money = 0 /\ Value(0) = 0 /\ 0 < Word
    <2> DEFINE r == d.mail[m]
               w == d.mail[m].cod
               none == 0
    <2>1. r \in MailRow /\ w \in Nat /\ none \in Nat /\ row = WithSums(r, none, w) /\ none = 0
        BY <1>1
    <2> HIDE DEF r, w, none
    <2> QED
        BY <2>1, WithSumsIs, ValueOfBid, WordIs
<1>a. Sound(d, 0, L)
    OBVIOUS
<1> HIDE DEF L, row
<1>3. Sound(b1, sum, L) /\ ButMail(d, b1) /\ b1.mail = [d.mail EXCEPT ![m] = row] /\ Touches(d, b1, {}, {m})
    <2>0. d.mail[m] # None /\ row \in MailRow /\ row.money < Word
        BY <1>2
    <2>1. LET e == PutMail(d, m, row)
          IN  /\ Sound(e, 0 + Value(d.mail[m].money) - Value(row.money), L)
              /\ ButMail(d, e) /\ e.mail = [d.mail EXCEPT ![m] = row]
              /\ Touches(d, e, {}, {m})
        BY <2>0, <1>a, MailIsChanged
    <2>2. 0 + Value(d.mail[m].money) - Value(row.money) = sum
        BY <1>1, <1>2
    <2> QED
        BY <2>1, <2>2
<1> HIDE DEF b1, sum
<1>4. Sound(b2, sum - gone, L) /\ ButFees(b1, b2) /\ b2.fees = b1.fees + gone /\ Touches(b1, b2, {}, {})
    BY <1>3, FeesMove
<1> HIDE DEF b2
<1>5. b2.money = d.money
    BY <1>3, <1>4 DEF ButFees, ButMail
<1>6. /\ Sound(b, 0, L) /\ ButMoney(b2, b) /\ b.money = [b2.money EXCEPT ![p] = v] /\ Touches(b2, b, {p}, {})
    <2> DEFINE gold == sum - gone
    <2>1. Sound(b2, gold, L) /\ v \in Nat /\ v <= MaxMoney
        BY <1>4, MailAssumption
    <2> HIDE DEF gold
    <2>2. LET e == PutMoney(b2, p, v)
          IN  /\ Sound(e, gold + b2.money[p] - v, L)
              /\ ButMoney(b2, e) /\ e.money = [b2.money EXCEPT ![p] = v]
              /\ Touches(b2, e, {p}, {})
        BY <2>1, MoneyMoves
    <2>3. gold + b2.money[p] - v = 0
        BY <1>1, <1>5, <2>1 DEF gold, sum
    <2> QED
        BY <2>2, <2>3
<1> HIDE DEF b
<1>7. b1 \in Tables /\ b2 \in Tables /\ b \in Tables
    BY <1>3, <1>4, <1>6 DEF ButMail, ButFees, ButMoney
<1>8. Touches(d, b, {p}, {m})
    <2>1. Touches(d, b2, {} \union {}, {m} \union {})
        BY <1>1, <1>3, <1>4, <1>7, TouchesBoth
    <2>2. Touches(d, b, ({} \union {}) \union {p}, ({m} \union {}) \union {})
        BY <1>1, <1>6, <1>7, <2>1, TouchesBoth
    <2> QED
        BY <2>2, TouchesMore
<1>9. /\ b.instance = d.instance /\ b.inventory = d.inventory /\ b.mail_items = d.mail_items
      /\ b.auctionhouse = d.auctionhouse /\ b.fees = d.fees + gone /\ b.mail = [d.mail EXCEPT ![m] = row]
      /\ b.money = [d.money EXCEPT ![p] = v] /\ b.lost = d.lost
    BY <1>3, <1>4, <1>5, <1>6 DEF ButMail, ButFees, ButMoney
<1>10. Inside(b, m) = Inside(d, m)
    BY <1>9 DEF Inside
<1>11. GoldTaken(d, p, m, v, gone, b)
    BY <1>6, <1>8, <1>9, <1>10 DEF L, GoldTaken, row
<1> QED
    BY <1>11

(* The item i of the mail m is in the bag of p, who has paid for it. *)
ItemTaken(d, p, m, i, sum, b) ==
    /\ Sound(b, sum, {}) /\ Touches(d, b, {p}, {m}) /\ Inside(b, m) = {}
    /\ ItemsOf(b, p) = ItemsOf(d, p) \union {i}
    /\ b.money = [d.money EXCEPT ![p] = d.money[p] - sum] /\ b.instance = d.instance
    /\ b.inventory = [d.inventory EXCEPT ![i] = p] /\ b.mail_items = [d.mail_items EXCEPT ![i] = None]
    /\ b.auctionhouse = d.auctionhouse /\ b.fees = d.fees /\ b.lost = d.lost
    /\ b.mail = [d.mail EXCEPT ![m] = WithSums(d.mail[m], d.mail[m].money, 0)]

(* There are such tables: the item of a mail is in the bag of its owner, and   *)
(* what he owes for it is not in any place yet.                                *)
LEMMA ItemIsTaken ==
    ASSUME NEW d, Sound(d, 0, {}), NEW p \in Player, NEW m \in MailId, d.mail[m] # None,
           NEW i \in Item, Inside(d, m) = {i}, NEW sum \in Nat, sum <= d.money[p]
    PROVE  \E b : ItemTaken(d, p, m, i, sum, b)
<1> DEFINE row == WithSums(d.mail[m], d.mail[m].money, 0)
           v == d.money[p] - sum
           b1 == PutItem(d, i, None)
           b2 == PutInventory(b1, [b1.inventory EXCEPT ![i] = p])
           b3 == PutMail(b2, m, row)
           b == PutMoney(b3, p, v)
           L == {}
           J == {i}
<1>1. /\ d \in Tables /\ d.mail[m] \in MailRow /\ d.mail[m].money \in Nat /\ d.money[p] \in Nat /\ d.money[p] <= MaxMoney
      /\ i \in d.instance /\ d.mail_items[i] = m
    BY DEF Sound, Tables, MailRow, Inside
<1>2. row \in MailRow /\ row.money = d.mail[m].money /\ row.money < Word /\ Value(row.money) \in Nat
    <2> DEFINE r == d.mail[m]
               w == d.mail[m].money
               none == 0
    <2>1. r \in MailRow /\ w \in Nat /\ none \in Nat /\ row = WithSums(r, w, none)
        BY <1>1
    <2> HIDE DEF r, w, none
    <2>2. WithSums(r, w, none) \in MailRow /\ WithSums(r, w, none).money = w
        BY <2>1, WithSumsIs
    <2>3. w < Word /\ Value(w) \in Nat
        <3>1. m \in RowsOf(d.mail)
            BY <1>1, Rows
        <3> QED
            BY <1>1, <3>1, ValueOfBid DEF Sound, SumsInOrder, MailsInOrder, w
    <2> QED
        BY <2>1, <2>2, <2>3 DEF w
<1>3. v \in Nat /\ v <= MaxMoney /\ MaxMoney \in Nat
    BY <1>1, MailAssumption
<1>4. Sound(d, 0, L)
    OBVIOUS
<1>5. L \union {i} = J /\ J \ {i} = L /\ i \in J
    OBVIOUS
<1> HIDE DEF L, J, row
<1>6. /\ Sound(b1, 0, J) /\ ButItems(d, b1) /\ b1.mail_items = [d.mail_items EXCEPT ![i] = None]
      /\ Touches(d, b1, {}, {m})
    <2>1. LET e == PutItem(d, i, None)
          IN  /\ Sound(e, 0, L \union {i})
              /\ ButItems(d, e) /\ e.mail_items = [d.mail_items EXCEPT ![i] = None]
              /\ Touches(d, e, {}, {m})
        BY <1>1, <1>4, MailLoses
    <2> QED
        BY <1>5, <2>1
<1> HIDE DEF b1
<1>7. /\ Sound(b2, 0, L) /\ ButInventory(b1, b2) /\ b2.inventory = [b1.inventory EXCEPT ![i] = p]
      /\ Touches(b1, b2, {p}, {})
    <2>1. LET e == PutInventory(b1, [b1.inventory EXCEPT ![i] = p])
          IN  /\ Sound(e, 0, J \ {i})
              /\ ButInventory(b1, e) /\ e.inventory = [b1.inventory EXCEPT ![i] = p]
              /\ Touches(b1, e, {p}, {})
        BY <1>5, <1>6, BagGets
    <2> QED
        BY <1>5, <2>1
<1> HIDE DEF b2
<1>8. b2.mail = d.mail /\ b2.money = d.money
    BY <1>6, <1>7 DEF ButItems, ButInventory
<1>9. /\ Sound(b3, 0, L) /\ ButMail(b2, b3) /\ b3.mail = [b2.mail EXCEPT ![m] = row] /\ Touches(b2, b3, {}, {m})
    <2>1. LET e == PutMail(b2, m, row)
          IN  /\ Sound(e, 0 + Value(b2.mail[m].money) - Value(row.money), L)
              /\ ButMail(b2, e) /\ e.mail = [b2.mail EXCEPT ![m] = row]
              /\ Touches(b2, e, {}, {m})
        BY <1>2, <1>7, <1>8, MailIsChanged
    <2>2. 0 + Value(b2.mail[m].money) - Value(row.money) = 0
        BY <1>1, <1>2, <1>8
    <2> QED
        BY <2>1, <2>2
<1> HIDE DEF b3
<1>10. b3.money = d.money
    BY <1>8, <1>9 DEF ButMail
<1>11. /\ Sound(b, sum, L) /\ ButMoney(b3, b) /\ b.money = [b3.money EXCEPT ![p] = v] /\ Touches(b3, b, {p}, {})
    <2>1. LET e == PutMoney(b3, p, v)
          IN  /\ Sound(e, 0 + b3.money[p] - v, L)
              /\ ButMoney(b3, e) /\ e.money = [b3.money EXCEPT ![p] = v]
              /\ Touches(b3, e, {p}, {})
        BY <1>3, <1>9, MoneyMoves
    <2>2. 0 + b3.money[p] - v = sum
        BY <1>1, <1>10
    <2> QED
        BY <2>1, <2>2
<1> HIDE DEF b
<1>12. b1 \in Tables /\ b2 \in Tables /\ b3 \in Tables /\ b \in Tables
    BY <1>6, <1>7, <1>9, <1>11 DEF ButItems, ButInventory, ButMail, ButMoney
<1>13. Touches(d, b, {p}, {m})
    <2>1. Touches(d, b2, {} \union {p}, {m} \union {})
        BY <1>1, <1>6, <1>7, <1>12, TouchesBoth
    <2>2. Touches(d, b3, ({} \union {p}) \union {}, ({m} \union {}) \union {m})
        BY <1>1, <1>9, <1>12, <2>1, TouchesBoth
    <2>3. Touches(d, b, (({} \union {p}) \union {}) \union {p}, (({m} \union {}) \union {m}) \union {})
        BY <1>1, <1>11, <1>12, <2>2, TouchesBoth
    <2> QED
        BY <2>3, TouchesMore
<1>14. /\ b.instance = d.instance /\ b.inventory = [d.inventory EXCEPT ![i] = p]
       /\ b.mail_items = [d.mail_items EXCEPT ![i] = None]
       /\ b.auctionhouse = d.auctionhouse /\ b.fees = d.fees /\ b.mail = [d.mail EXCEPT ![m] = row]
       /\ b.lost = d.lost
       /\ b.money = [d.money EXCEPT ![p] = v]
    BY <1>6, <1>7, <1>8, <1>9, <1>10, <1>11 DEF ButItems, ButInventory, ButMail, ButMoney
<1>15. d.inventory \in [Item -> Player \union {None}] /\ d.mail_items \in [Item -> MailId \union {None}]
    BY <1>1 DEF Tables
<1>16. ItemsOf(b, p) = ItemsOf(d, p) \union {i}
    BY <1>1, <1>14, <1>15 DEF ItemsOf
<1>17. Inside(b, m) = {}
    BY <1>1, <1>14, <1>15, Keys DEF Inside
<1>18. ItemTaken(d, p, m, i, sum, b)
    BY <1>11, <1>13, <1>14, <1>16, <1>17 DEF ItemTaken, L, row
<1> QED
    BY <1>18

(* One side of an exchange: what is paid, what is got, and what is cut off.    *)
Swaps(x, c, pay, get, cut, bag) ==
    OwnsOther(x, c, c.money, bag) /\ cut \in Nat /\ c.money + cut = (x.money - pay) + get

(* That is what Exchanged does to a side. *)
LEMMA SwapsIs ==
    ASSUME NEW x \in CharRec, NEW pay \in Nat, pay <= x.money, NEW get \in Nat, NEW bag \in SUBSET Item
    PROVE  LET sum == Paid(x, pay).money + get
           IN  Swaps(x, [Earned(Paid(x, pay), get) EXCEPT !.bag = bag], pay, get,
                     IF sum > MaxMoney THEN sum - MaxMoney ELSE 0, bag)
<1> DEFINE y == Paid(x, pay)
           c == [Earned(y, get) EXCEPT !.bag = bag]
           v == IF y.money < MaxMoney - get THEN y.money + get ELSE MaxMoney
           sum == y.money + get
           cut == IF sum > MaxMoney THEN sum - MaxMoney ELSE 0
<1>1. OwnsOther(x, y, x.money - pay, x.bag)
    BY PaidIs DEF CharRec
<1>2. /\ y \in CharRec /\ y.money = x.money - pay /\ y.money \in 0..MaxMoney /\ MaxMoney \in Nat
      /\ y.state = x.state /\ y.mails = x.mails /\ y.mailsLoaded = x.mailsLoaded
      /\ y.mMitems = x.mMitems
    BY <1>1, MailAssumption DEF OwnsOther, CharRec
<1> HIDE DEF y
<1>3. v \in 0..MaxMoney /\ cut \in Nat /\ v + cut = (x.money - pay) + get
    BY <1>2
<1>4. Earned(y, get) = [y EXCEPT !.money = v]
    BY DEF Earned
<1> HIDE DEF v, cut
<1>5. c = [y EXCEPT !.money = v, !.bag = bag]
    BY <1>2, <1>4 DEF CharRec
<1> HIDE DEF c
<1>6. OwnsOther(x, c, v, bag) /\ c.money = v
    BY <1>2, <1>3, <1>5 DEF OwnsOther, CharRec
<1>7. Swaps(x, c, pay, get, cut, bag)
    BY <1>3, <1>6 DEF Swaps
<1> QED
    BY <1>7 DEF c, cut, y

(* The bags of p and q, who give the items G and H. *)
Swapped(d, p, q, G, H) ==
    [i \in Item |-> IF i \in G THEN q ELSE IF i \in H THEN p ELSE d.inventory[i]]

(* The items, and what is cut off. *)
IsSwapped(d, p, q, G, H, cut, b) ==
    /\ Sound(b, 0 - cut, {}) /\ Touches(d, b, {p, q}, {})
    /\ b.money = d.money /\ b.instance = d.instance /\ b.inventory = Swapped(d, p, q, G, H)
    /\ b.mail = d.mail /\ b.mail_items = d.mail_items /\ b.auctionhouse = d.auctionhouse
    /\ b.fees = d.fees + cut /\ b.lost = d.lost
    /\ ItemsOf(b, p) = (ItemsOf(d, p) \ G) \union H
    /\ ItemsOf(b, q) = (ItemsOf(d, q) \ H) \union G

(* The exchange of items moves no gold but what is cut off. *)
LEMMA ItemsSwap ==
    ASSUME NEW d, Sound(d, 0, {}), NEW p \in Player, NEW q \in Player, p # q,
           NEW G, G \subseteq ItemsOf(d, p), NEW H, H \subseteq ItemsOf(d, q), NEW cut \in Nat
    PROVE  \E b : IsSwapped(d, p, q, G, H, cut, b)
<1> DEFINE new == Swapped(d, p, q, G, H)
           b1 == PutInventory(d, new)
           b == PutFee(b1, cut)
           P == {p, q}
           L == {}
<1>1. /\ d \in Tables /\ d.inventory \in [Item -> Player \union {None}] /\ d.instance \subseteq Item
      /\ \A i \in G : i \in d.instance /\ d.inventory[i] = p
      /\ \A i \in H : i \in d.instance /\ d.inventory[i] = q
    BY DEF Sound, Tables, ItemsOf
<1>2. /\ new \in [Item -> Player \union {None}]
      /\ \A i \in d.instance : IF d.inventory[i] \in P THEN new[i] \in P ELSE new[i] = d.inventory[i]
      /\ P \in SUBSET Player /\ Sound(d, 0, L)
    BY <1>1 DEF Swapped
<1>3. \A i \in Item : new[i] = IF i \in G THEN q ELSE IF i \in H THEN p ELSE d.inventory[i]
    BY DEF Swapped
<1> HIDE DEF new, P, L
<1>4. Sound(b1, 0, L) /\ ButInventory(d, b1) /\ b1.inventory = new /\ Touches(d, b1, P, {})
    BY <1>2, BagsExchange
<1> HIDE DEF b1
<1>5. Sound(b, 0 - cut, L) /\ ButFees(b1, b) /\ b.fees = b1.fees + cut /\ Touches(b1, b, {}, {})
    BY <1>4, FeesMove
<1> HIDE DEF b
<1>6. b1 \in Tables /\ b \in Tables
    BY <1>4, <1>5 DEF ButInventory, ButFees
<1>7. Touches(d, b, P, {})
    <2>1. Touches(d, b, P \union {}, {} \union {})
        BY <1>1, <1>4, <1>5, <1>6, TouchesBoth
    <2> QED
        BY <2>1, TouchesMore
<1>8. /\ b.money = d.money /\ b.instance = d.instance /\ b.inventory = new
      /\ b.mail = d.mail /\ b.mail_items = d.mail_items /\ b.auctionhouse = d.auctionhouse
      /\ b.fees = d.fees + cut /\ b.lost = d.lost
    BY <1>4, <1>5 DEF ButInventory, ButFees
<1>9. ItemsOf(b, p) = (ItemsOf(d, p) \ G) \union H /\ ItemsOf(b, q) = (ItemsOf(d, q) \ H) \union G
    <2>1. \A r : ItemsOf(b, r) = {i \in d.instance : new[i] = r} /\ ItemsOf(d, r) = {i \in d.instance : d.inventory[i] = r}
        BY <1>8 DEF ItemsOf
    <2> QED
        BY <1>1, <1>3, <2>1
<1>10. IsSwapped(d, p, q, G, H, cut, b)
    BY <1>5, <1>7, <1>8, <1>9 DEF IsSwapped, L, P, new
<1> QED
    BY <1>10

(* The rows of the inventory that the transaction of a trade writes.           *)
LEMMA SwapWritten ==
    ASSUME NEW d \in Tables, NEW p, NEW q, NEW G \in SUBSET Item, NEW H \in SUBSET Item
    PROVE  Override([i \in G \union H |-> IF i \in G THEN q ELSE p], d.inventory) = Swapped(d, p, q, G, H)
<1> DEFINE w == [i \in G \union H |-> IF i \in G THEN q ELSE p]
           g == d.inventory
<1>1. DOMAIN w = G \union H /\ \A i \in G \union H : w[i] = IF i \in G THEN q ELSE p
    OBVIOUS
<1>2. DOMAIN g = Item /\ (DOMAIN w) \union DOMAIN g = Item
    BY <1>1 DEF Tables
<1> HIDE DEF w, g
<1>3. Override(w, g) = [i \in Item |-> IF i \in DOMAIN w THEN w[i] ELSE g[i]]
    BY <1>2 DEF Override
<1>4. \A i \in Item : (IF i \in DOMAIN w THEN w[i] ELSE g[i]) = IF i \in G THEN q ELSE IF i \in H THEN p ELSE g[i]
    BY <1>1
<1> QED
    BY <1>3, <1>4 DEF w, g, Swapped

(* Both purses are written after the items. *)
SwapWrites(p, q, G, H, cut) ==
    [NoWrites EXCEPT !.inventory = [i \in G \union H |-> IF i \in G THEN q ELSE p], !.fees = cut]

BothPaid(d, s, p, q, cp, cq, b) ==
    /\ b = Apply(d, s) /\ DOMAIN s = DOMAIN NoWrites /\ s.login = None /\ s.listed = <<>>
    /\ Sound(b, 0, {}) /\ Touches(d, b, {p, q}, {})
    /\ b.mail = d.mail /\ b.auctionhouse = d.auctionhouse
    /\ b.money[p] = cp.money /\ b.money[q] = cq.money
    /\ ItemsOf(b, p) = cp.bag /\ ItemsOf(b, q) = cq.bag

(* The transaction of a trade moves gold and items, and loses none. *)
LEMMA BothArePaid ==
    ASSUME NEW d, Sound(d, 0, {}), NEW p \in Player, NEW q \in Player, p # q,
           NEW G, G \subseteq ItemsOf(d, p), NEW H, H \subseteq ItemsOf(d, q),
           NEW cp \in CharRec, NEW cq \in CharRec, NEW cut \in Nat,
           cp.money + cq.money + cut = d.money[p] + d.money[q],
           cp.bag = (ItemsOf(d, p) \ G) \union H, cq.bag = (ItemsOf(d, q) \ H) \union G
    PROVE  LET t == SwapWrites(p, q, G, H, cut)
           IN  \E b : BothPaid(d, SaveGoldToDB(SaveGoldToDB(t, p, cp), q, cq), p, q, cp, cq, b)
<1> DEFINE t == SwapWrites(p, q, G, H, cut)
           t1 == SaveGoldToDB(t, p, cp)
           s == SaveGoldToDB(t1, q, cq)
           b1 == Apply(d, t1)
           b == Apply(d, s)
           sum1 == d.money[p] - cp.money
           sum2 == d.money[q] - cq.money
           P == {p, q}
           L == {}
<1>1. /\ d \in Tables /\ d.money \in [Player -> Nat] /\ d.instance \subseteq Item
      /\ G \in SUBSET Item /\ H \in SUBSET Item
      /\ cp.money \in Nat /\ cq.money \in Nat
    BY MailAssumption DEF Sound, Tables, ItemsOf, CharRec
<1>2. PICK b0 : IsSwapped(d, p, q, G, H, cut, b0)
    BY ItemsSwap
<1>3. /\ t.money = <<>> /\ t.destroyed = {} /\ t.mail = <<>> /\ t.auctionhouse = <<>>
      /\ t.unlisted = {} /\ t.cleared = {} /\ t.listed = <<>> /\ t.created = {} /\ t.lost = {}
      /\ t.inventory = [i \in G \union H |-> IF i \in G THEN q ELSE p] /\ t.fees = cut
      /\ t.login = None /\ DOMAIN t = DOMAIN NoWrites
    BY DEF NoWrites, SwapWrites
<1> HIDE DEF t
<1>4. b0 = Apply(d, t)
    <2>1. b0.inventory = Override(t.inventory, d.inventory)
        <3>1. Override([i \in G \union H |-> IF i \in G THEN q ELSE p], d.inventory) = Swapped(d, p, q, G, H)
            BY <1>1, SwapWritten, ZenonT(60)
        <3> QED
            BY <1>2, <1>3, <3>1 DEF IsSwapped
    <2>2. (d.instance \union t.created) \ t.destroyed = d.instance /\ d.lost \union t.lost = d.lost
        BY <1>3
    <2>6. ~Refused(d, t) /\ Override(t.listed, Unlisted(d, t)) = d.mail_items
        BY <1>1, <1>3, NothingListed, ZenonT(60)
    <2>3. /\ Override(t.money, d.money) = d.money
          /\ Written(d.mail, t.mail, MailColumns) = d.mail
          /\ Written(d.auctionhouse, t.auctionhouse, AuctionColumns) = d.auctionhouse
        BY <1>1, <1>3, NotWritten
    <2>4. b0 \in Tables
        BY <1>2 DEF IsSwapped, Sound
    <2>5. /\ b0.money = d.money /\ b0.instance = d.instance /\ b0.mail = d.mail /\ b0.mail_items = d.mail_items
          /\ b0.auctionhouse = d.auctionhouse /\ b0.fees = d.fees + cut /\ b0.lost = d.lost
        BY <1>2 DEF IsSwapped
    <2>7. /\ b0.money = Override(t.money, d.money) /\ b0.instance = (d.instance \union t.created) \ t.destroyed
          /\ b0.mail = Written(d.mail, t.mail, MailColumns)
          /\ b0.mail_items = Override(t.listed, Unlisted(d, t))
          /\ b0.auctionhouse = Written(d.auctionhouse, t.auctionhouse, AuctionColumns)
          /\ b0.fees = d.fees + t.fees /\ b0.lost = d.lost \union t.lost
        BY <1>3, <2>2, <2>3, <2>5, <2>6
    <2> QED
        BY <2>1, <2>4, <2>6, <2>7, ApplyIs
<1>5. /\ sum1 \in Int /\ sum2 \in Int /\ ((0 - cut) + sum1) + sum2 = 0
    <2> DEFINE x == d.money[p]
               y == d.money[q]
               u == cp.money
               v == cq.money
    <2>1. x \in Nat /\ y \in Nat /\ u \in Nat /\ v \in Nat /\ (u + v) + cut = x + y
        BY <1>1
    <2>2. sum1 = x - u /\ sum2 = y - v
        OBVIOUS
    <2> HIDE DEF x, y, u, v, sum1, sum2
    <2> QED
        BY <2>1, <2>2
<1>6. Sound(b0, 0 - cut, L) /\ Touches(d, b0, P, {}) /\ b0.money = d.money
      /\ cp.money = b0.money[p] - sum1
    BY <1>1, <1>2 DEF IsSwapped
<1> HIDE DEF t1, L, P, sum1
<1>7. IsPaid(d, t, b0, p, cp, sum1, 0 - cut, L)
    BY <1>1, <1>3, <1>4, <1>5, <1>6, PaidMoves
<1>8. /\ DOMAIN t1 = DOMAIN NoWrites /\ t1.login = None /\ t1.listed = <<>> /\ Sound(b1, (0 - cut) + sum1, L)
      /\ ButMoney(b0, b1) /\ b1.money = [b0.money EXCEPT ![p] = cp.money] /\ Touches(b0, b1, {p}, {})
    BY <1>3, <1>7 DEF IsPaid, t1
<1>9. b1 = Apply(d, t1)
    OBVIOUS
<1>10. b1.money[q] = d.money[q] /\ b1.money[p] = cp.money
    BY <1>1, <1>6, <1>8
<1> HIDE DEF b1, s
<1>11. cq.money = b1.money[q] - sum2
    BY <1>1, <1>10
<1> DEFINE gold == (0 - cut) + sum1
<1>12. Sound(b1, gold, L) /\ gold + sum2 = 0
    BY <1>5, <1>8
<1> HIDE DEF gold, sum2
<1>13. IsPaid(d, t1, b1, q, cq, sum2, gold, L)
    BY <1>1, <1>5, <1>8, <1>9, <1>11, <1>12, PaidMoves
<1>14. /\ DOMAIN s = DOMAIN NoWrites /\ s.login = None /\ s.listed = <<>> /\ Sound(b, 0, L)
       /\ ButMoney(b1, b) /\ b.money = [b1.money EXCEPT ![q] = cq.money] /\ Touches(b1, b, {q}, {})
    BY <1>8, <1>12, <1>13 DEF IsPaid, s
<1>15. b = Apply(d, s)
    OBVIOUS
<1> HIDE DEF b
<1>16. b0 \in Tables /\ b1 \in Tables /\ b \in Tables
    BY <1>8, <1>14 DEF ButMoney
<1>17. Touches(d, b, {p, q}, {})
    <2>1. Touches(d, b1, P \union {p}, {} \union {})
        BY <1>1, <1>6, <1>8, <1>16, TouchesBoth
    <2>2. Touches(d, b, (P \union {p}) \union {q}, ({} \union {}) \union {})
        BY <1>1, <1>14, <1>16, <2>1, TouchesBoth
    <2>3. (P \union {p}) \union {q} = {p, q}
        BY DEF P
    <2> QED
        BY <2>2, <2>3, TouchesMore
<1>18. /\ b.mail = d.mail /\ b.auctionhouse = d.auctionhouse
       /\ b.inventory = b0.inventory /\ b.instance = b0.instance
    BY <1>2, <1>8, <1>14 DEF IsSwapped, ButMoney
<1>19. ItemsOf(b, p) = cp.bag /\ ItemsOf(b, q) = cq.bag
    BY <1>2, <1>18 DEF IsSwapped, ItemsOf
<1>20. b.money[p] = cp.money /\ b.money[q] = cq.money
    <2>1. b1.money \in [Player -> Nat]
        BY <1>16 DEF Tables
    <2> QED
        BY <1>10, <1>14, <2>1
<1>21. BothPaid(d, s, p, q, cp, cq, b)
    BY <1>14, <1>15, <1>17, <1>18, <1>19, <1>20 DEF BothPaid, L
<1> QED
    BY <1>21 DEF s, t1, t

(* Who comes into the world, with what the tables say. *)
LEMMA ComesCurrent ==
    ASSUME NEW d \in Tables, NEW e \in Tables, NEW p \in Player, d.money[p] <= MaxMoney, Same(p, d, e)
    PROVE  Current(e, p, [Offline EXCEPT !.state = "online", !.money = d.money[p], !.bag = ItemsOf(d, p)])
<1> DEFINE c == [Offline EXCEPT !.state = "online", !.money = d.money[p], !.bag = ItemsOf(d, p)]
<1>0. c = [state |-> "online", money |-> d.money[p], bag |-> ItemsOf(d, p), mails |-> <<>>,
           mMitems |-> {}, mailsLoaded |-> FALSE, mailsUpdated |-> FALSE]
    <2> DEFINE v == d.money[p]
               bag == ItemsOf(d, p)
    <2>1. c = [Offline EXCEPT !.state = "online", !.money = v, !.bag = bag]
        OBVIOUS
    <2> HIDE DEF v, bag, c
    <2> QED
        BY <2>1 DEF Offline, v, bag
<1>1. /\ c.state = "online" /\ c.money = d.money[p] /\ c.bag = ItemsOf(d, p) /\ c.mails = <<>> /\ c.mailsLoaded = FALSE
      /\ c.mMitems = {}
      /\ c = [state |-> "online", money |-> d.money[p], bag |-> ItemsOf(d, p), mails |-> <<>>,
              mMitems |-> {}, mailsLoaded |-> FALSE, mailsUpdated |-> FALSE]
    BY <1>0
<1>2. d.money[p] \in 0..MaxMoney /\ ItemsOf(d, p) \subseteq Item
    BY MailAssumption DEF Tables, ItemsOf
<1>3. <<>> \in MailMaps /\ DOMAIN <<>> = {}
    <2>1. Current(d, p, Offline)
        BY OfflineIsCurrent
    <2> QED
        BY <2>1 DEF Current, Offline, CharRec
<1>4. c \in CharRec
    BY <1>1, <1>2, <1>3 DEF CharRec
<1>5. Mailbox(e, p, c.mails)
    BY <1>1, <1>3 DEF Mailbox
<1> HIDE DEF c
<1>6. e.money[p] = d.money[p] /\ ItemsOf(e, p) = ItemsOf(d, p)
    BY DEF Same
<1>7. Current(e, p, c)
    BY <1>1, <1>4, <1>5, <1>6 DEF Current
<1> QED
    BY <1>7 DEF c

-----------------------------------------------------------------------------
(* The start of the server: the old mails that go back or are deleted, and     *)
(* the next keys of the tables.                                                *)

(* What becomes of an old mail m, with the row and the item i in it, or none.  *)
OldWrites(m, row, i) ==
    IF i # None /\ row.kind = "normal" /\ ~row.returned
    THEN [NoWrites EXCEPT !.mail = Only(m, [receiver |-> row.sender, sender |-> row.receiver,
                                            cod |-> 0, returned |-> TRUE])]
    ELSE [NoWrites EXCEPT !.mail = Only(m, None), !.destroyed = {i} \ {None},
                          !.fees = Value(row.money)]

IsOld(d, m, e) ==
    /\ Sound(e, 0, {}) /\ Touches(d, e, {}, {m})
    /\ e.auctionhouse = d.auctionhouse /\ RowsOf(e.mail) \subseteq RowsOf(d.mail)

(* A row that one update changes. *)
LEMMA RowUpdated ==
    ASSUME NEW d \in Tables, NEW m \in MailId, d.mail[m] # None, NEW u \in MailUpdate,
           "receiver" \in DOMAIN u, "money" \notin DOMAIN u
    PROVE  Written(d.mail, Only(m, u), MailColumns) = [d.mail EXCEPT ![m] = Override(u, d.mail[m])]
<1> DEFINE f == d.mail
           w == Only(m, u)
<1>1. DOMAIN f = MailId /\ f[m] # None
    BY DEF Tables
<1>2. DOMAIN w = {m} /\ w[m] = u
    BY DEF Only
<1>3. u # None /\ DOMAIN u # MailColumns
    <2>1. "money" \in MailColumns
        BY DEF MailColumns
    <2> QED
        BY <2>1, NoneAssumption
<1> HIDE DEF f, w
<1>4. Written(f, w, MailColumns) = [k \in MailId |-> IF k \notin DOMAIN w THEN f[k]
                                       ELSE IF w[k] = None \/ DOMAIN w[k] = MailColumns THEN w[k]
                                       ELSE IF f[k] = None THEN None
                                       ELSE Override(w[k], f[k])]
    BY <1>1 DEF Written
<1>5. \A k \in MailId : (IF k \notin DOMAIN w THEN f[k]
                         ELSE IF w[k] = None \/ DOMAIN w[k] = MailColumns THEN w[k]
                         ELSE IF f[k] = None THEN None
                         ELSE Override(w[k], f[k])) = IF k = m THEN Override(u, f[m]) ELSE f[k]
    BY <1>1, <1>2, <1>3
<1>6. [f EXCEPT ![m] = Override(u, f[m])] = [k \in MailId |-> IF k = m THEN Override(u, f[m]) ELSE f[k]]
    BY <1>1
<1> QED
    BY <1>4, <1>5, <1>6 DEF f, w

(* A row that is deleted. *)
LEMMA RowDeleted ==
    ASSUME NEW d \in Tables, NEW m \in MailId
    PROVE  Written(d.mail, Only(m, None), MailColumns) = [d.mail EXCEPT ![m] = None]
BY DEF Written, Only, Tables

(* The row of a mail that goes back. *)
LEMMA RowGoesBack ==
    ASSUME NEW row \in MailRow
    PROVE  LET u == [receiver |-> row.sender, sender |-> row.receiver, cod |-> 0, returned |-> TRUE]
               new == Override(u, row)
           IN  /\ u \in MailUpdate /\ "receiver" \in DOMAIN u /\ "money" \notin DOMAIN u
               /\ new \in MailRow /\ new.money = row.money
<1> DEFINE u == [receiver |-> row.sender, sender |-> row.receiver, cod |-> 0, returned |-> TRUE]
           new == Override(u, row)
<1>1. u \in MailUpdate /\ "receiver" \in DOMAIN u /\ "money" \notin DOMAIN u
    BY DEF MailUpdate, MailRow
<1>2. DOMAIN row = MailColumns
    BY DEF MailRow, MailColumns
<1>3. DOMAIN u = {"receiver", "sender", "cod", "returned"}
    OBVIOUS
<1>4. DOMAIN new = MailColumns /\ \A k \in MailColumns : new[k] = IF k \in DOMAIN u THEN u[k] ELSE row[k]
    BY <1>2, <1>3 DEF Override, MailColumns
<1>5. new = [k \in MailColumns |-> new[k]]
    BY <1>2, <1>3 DEF Override, MailColumns
<1> HIDE DEF new
<1>6. /\ new["receiver"] = row.sender /\ new["sender"] = row.receiver /\ new["cod"] = 0
      /\ new["returned"] = TRUE /\ new["money"] = row.money /\ new["kind"] = row.kind
    BY <1>3, <1>4 DEF MailColumns
<1>7. new = [receiver |-> row.sender, sender |-> row.receiver, money |-> row.money, cod |-> 0,
             kind |-> row.kind, returned |-> TRUE]
    BY <1>5, <1>6 DEF MailColumns
<1>8. new \in MailRow /\ new.money = row.money
    BY <1>7 DEF MailRow
<1> QED
    BY <1>1, <1>8 DEF new

(* An old mail goes back. *)
LEMMA OldGoesBack ==
    ASSUME NEW d, Sound(d, 0, {}), NEW m \in MailId, d.mail[m] # None,
           NEW u, u = [receiver |-> d.mail[m].sender, sender |-> d.mail[m].receiver,
                       cod |-> 0, returned |-> TRUE]
    PROVE  IsOld(d, m, Apply(d, [NoWrites EXCEPT !.mail = Only(m, u)]))
<1> DEFINE row == d.mail[m]
           t == [NoWrites EXCEPT !.mail = Only(m, u)]
           new == Override(u, row)
           e == PutMail(d, m, new)
           L == {}
<1>1. d \in Tables /\ row \in MailRow /\ row.money \in Nat /\ row.money < Word /\ Value(row.money) \in Nat
    <2>1. d \in Tables /\ row \in MailRow /\ row.money \in Nat
        BY DEF Sound, Tables, MailRow
    <2>2. row.money < Word
        BY <2>1, Rows DEF Sound, SumsInOrder, MailsInOrder
    <2> QED
        BY <2>1, <2>2 DEF Value
<1>2. u \in MailUpdate /\ "receiver" \in DOMAIN u /\ "money" \notin DOMAIN u /\ new \in MailRow /\ new.money = row.money
    <2>1. u = [receiver |-> row.sender, sender |-> row.receiver, cod |-> 0, returned |-> TRUE]
        OBVIOUS
    <2>2. row \in MailRow
        BY <1>1
    <2> HIDE DEF row
    <2> QED
        BY <2>1, <2>2, RowGoesBack
<1>3. /\ t.money = <<>> /\ t.destroyed = {} /\ t.mail = Only(m, u)
      /\ t.unlisted = {} /\ t.cleared = {} /\ t.listed = <<>> /\ t.created = {} /\ t.lost = {}
      /\ t.auctionhouse = <<>> /\ t.inventory = <<>> /\ t.fees = 0
    BY DEF NoWrites
<1>a. Sound(d, 0, L)
    OBVIOUS
<1> HIDE DEF t, new, L
<1>4. Sound(e, 0, L) /\ ButMail(d, e) /\ e.mail = [d.mail EXCEPT ![m] = new] /\ Touches(d, e, {}, {m})
    <2>3. new.money < Word /\ Value(new.money) = Value(row.money)
        BY <1>1, <1>2
    <2>1. /\ Sound(e, 0 + Value(d.mail[m].money) - Value(new.money), L)
          /\ ButMail(d, e) /\ e.mail = [d.mail EXCEPT ![m] = new] /\ Touches(d, e, {}, {m})
        BY <1>2, <1>a, <2>3, MailIsChanged
    <2>2. 0 + Value(d.mail[m].money) - Value(new.money) = 0
        BY <1>1, <2>3
    <2> QED
        BY <2>1, <2>2
<1> HIDE DEF e
<1>5. Written(d.mail, t.mail, MailColumns) = e.mail
    BY <1>1, <1>2, <1>3, <1>4, RowUpdated DEF new
<1>6. Apply(d, t) = e
    <2>1. /\ e \in Tables /\ e.money = d.money /\ e.instance = d.instance /\ e.inventory = d.inventory
          /\ e.mail_items = d.mail_items /\ e.auctionhouse = d.auctionhouse /\ e.fees = d.fees
          /\ e.lost = d.lost
        BY <1>4 DEF ButMail
    <2>2. /\ (d.instance \union t.created) \ t.destroyed = d.instance /\ d.fees + t.fees = d.fees
          /\ d.lost \union t.lost = d.lost
        BY <1>1, <1>3 DEF Tables
    <2>4. ~Refused(d, t) /\ Override(t.listed, Unlisted(d, t)) = d.mail_items
        BY <1>1, <1>3, NothingListed
    <2>3. /\ Override(t.money, d.money) = d.money
          /\ Override(t.inventory, d.inventory) = d.inventory
          /\ Written(d.auctionhouse, t.auctionhouse, AuctionColumns) = d.auctionhouse
        BY <1>1, <1>3, NotWritten
    <2> QED
        BY <1>5, <2>1, <2>2, <2>3, <2>4, ApplyIs
<1>7. IsOld(d, m, e)
    <2>1. RowsOf(e.mail) \subseteq RowsOf(d.mail)
        BY <1>1, <1>4 DEF RowsOf, Tables
    <2> QED
        BY <1>4, <2>1 DEF IsOld, L, ButMail
<1> QED
    BY <1>6, <1>7 DEF t

(* An old mail is deleted. *)
LEMMA OldGoes ==
    ASSUME NEW d, Sound(d, 0, {}), NEW m \in MailId, d.mail[m] # None,
           NEW i \in Item \union {None}, Inside(d, m) = {i} \ {None},
           NEW sum, sum = Value(d.mail[m].money)
    PROVE  IsOld(d, m, Apply(d, [NoWrites EXCEPT !.mail = Only(m, None), !.destroyed = {i} \ {None},
                                                 !.fees = sum]))
<1> DEFINE t == [NoWrites EXCEPT !.mail = Only(m, None), !.destroyed = {i} \ {None}, !.fees = sum]
           L == {}
           J == {i} \ {None}
<1>1. d \in Tables /\ d.mail[m] \in MailRow /\ sum \in Nat
    BY DEF Sound, Tables, MailRow, Value
<1>2. /\ t.money = <<>> /\ t.destroyed = J /\ t.mail = Only(m, None)
      /\ t.unlisted = {} /\ t.cleared = {} /\ t.listed = <<>> /\ t.created = {} /\ t.lost = {}
      /\ t.auctionhouse = <<>> /\ t.inventory = <<>> /\ t.fees = sum
    BY DEF NoWrites
<1>a. Sound(d, 0, L)
    OBVIOUS
<1> HIDE DEF t
<1>3. PICK b : /\ Sound(b, 0, L) /\ ButInstance(d, b) /\ b.instance = d.instance \ J
               /\ Touches(d, b, {}, {m}) /\ Inside(b, m) = {}
    <2>1. CASE i = None
        <3>1. Touches(d, d, {}, {m})
            BY DEF Touches
        <3>2. J = {} /\ Inside(d, m) = {} /\ d.instance \ J = d.instance
            BY <2>1
        <3>3. ButInstance(d, d)
            BY <1>1 DEF ButInstance
        <3> HIDE DEF J, L
        <3> QED
            BY <1>a, <3>1, <3>2, <3>3
    <2>2. CASE i # None
        <3>1. i \in d.instance /\ d.mail_items[i] = m
            BY <2>2 DEF Inside
        <3> HIDE DEF L, J
        <3> DEFINE e == Destroy(d, i)
        <3>2. Sound(e, 0, L \ {i}) /\ ButInstance(d, e) /\ e.instance = d.instance \ {i} /\ Touches(d, e, {}, {m})
            BY <1>a, <3>1, ItemGoes
        <3> HIDE DEF e
        <3>3. L \ {i} = L /\ J = {i}
            BY <2>2 DEF L, J
        <3>4. Inside(e, m) = {}
            <4>1. e.mail_items = d.mail_items
                BY <3>2 DEF ButInstance
            <4>2. Inside(e, m) = Inside(d, m) \ {i}
                BY <3>2, <4>1 DEF Inside
            <4> QED
                BY <4>2
        <3> QED
            BY <3>2, <3>3, <3>4
    <2> QED
        BY <2>1, <2>2
<1> HIDE DEF L, J
<1> DEFINE b2 == PutMail(b, m, None)
           e == PutFee(b2, sum)
<1>4. b.mail = d.mail /\ b \in Tables
    BY <1>3 DEF ButInstance
<1>5. /\ Sound(b2, 0 + Value(b.mail[m].money), L)
      /\ ButMail(b, b2) /\ b2.mail = [b.mail EXCEPT ![m] = None] /\ Touches(b, b2, {}, {m})
    BY <1>3, <1>4, MailGoes
<1> HIDE DEF b2
<1>6. Sound(b2, sum, L)
    BY <1>1, <1>4, <1>5
<1>7. Sound(e, sum - sum, L) /\ ButFees(b2, e) /\ e.fees = b2.fees + sum /\ Touches(b2, e, {}, {})
    BY <1>1, <1>6, FeesMove
<1> HIDE DEF e
<1>8. Sound(e, 0, {}) /\ e \in Tables /\ b2 \in Tables
    BY <1>1, <1>5, <1>7 DEF L, ButFees
<1>9. /\ e.money = d.money /\ e.instance = d.instance \ J /\ e.inventory = d.inventory
      /\ e.mail_items = d.mail_items /\ e.auctionhouse = d.auctionhouse /\ e.fees = d.fees + sum
      /\ e.lost = d.lost /\ e.mail = [d.mail EXCEPT ![m] = None]
    BY <1>3, <1>5, <1>7 DEF ButInstance, ButMail, ButFees
<1>10. Touches(d, e, {}, {m})
    <2>1. Touches(d, b2, {} \union {}, {m} \union {m})
        BY <1>1, <1>3, <1>4, <1>5, <1>8, TouchesBoth
    <2>2. Touches(d, e, ({} \union {}) \union {}, ({m} \union {m}) \union {})
        BY <1>1, <1>7, <1>8, <2>1, TouchesBoth
    <2> QED
        BY <2>2, TouchesMore
<1>11. Apply(d, t) = e
    <2>3. ~Refused(d, t) /\ Override(t.listed, Unlisted(d, t)) = d.mail_items
        BY <1>1, <1>2, NothingListed
    <2>4. (d.instance \union t.created) \ t.destroyed = d.instance \ J /\ d.lost \union t.lost = d.lost
        BY <1>2
    <2>1. /\ Override(t.money, d.money) = d.money
          /\ Override(t.inventory, d.inventory) = d.inventory
          /\ Written(d.auctionhouse, t.auctionhouse, AuctionColumns) = d.auctionhouse
        BY <1>1, <1>2, NotWritten
    <2>2. Written(d.mail, t.mail, MailColumns) = e.mail
        BY <1>1, <1>2, <1>9, RowDeleted
    <2> QED
        BY <1>2, <1>8, <1>9, <2>1, <2>2, <2>3, <2>4, ApplyIs
<1>12. IsOld(d, m, e)
    <2>1. RowsOf(e.mail) \subseteq RowsOf(d.mail)
        BY <1>1, <1>9 DEF RowsOf, Tables
    <2> QED
        BY <1>8, <1>9, <1>10, <2>1 DEF IsOld
<1> QED
    BY <1>11, <1>12 DEF t

(* Either way the old mail has left nothing behind that counts.                *)
LEMMA OldMoves ==
    ASSUME NEW d, Sound(d, 0, {}), NEW m \in MailId, d.mail[m] # None,
           NEW i \in Item \union {None}, Inside(d, m) = {i} \ {None}
    PROVE  LET t == OldWrites(m, d.mail[m], i)
           IN  IsOld(d, m, Apply(d, t)) /\ t.login = None
<1> DEFINE row == d.mail[m]
           u == [receiver |-> row.sender, sender |-> row.receiver, cod |-> 0, returned |-> TRUE]
           back == i # None /\ row.kind = "normal" /\ ~row.returned
<1>1. CASE back
    <2>1. OldWrites(m, row, i) = [NoWrites EXCEPT !.mail = Only(m, u)]
        BY <1>1 DEF OldWrites
    <2>2. IsOld(d, m, Apply(d, [NoWrites EXCEPT !.mail = Only(m, u)]))
        BY OldGoesBack
    <2> HIDE DEF u, row
    <2>3. [NoWrites EXCEPT !.mail = Only(m, u)].login = None
        BY DEF NoWrites
    <2> QED
        BY <2>1, <2>2, <2>3 DEF row
<1>2. CASE ~back
    <2> DEFINE t == [NoWrites EXCEPT !.mail = Only(m, None), !.destroyed = {i} \ {None}, !.fees = Value(row.money)]
    <2>1. OldWrites(m, row, i) = t
        BY <1>2 DEF OldWrites
    <2>2. IsOld(d, m, Apply(d, t))
        <3> DEFINE sum == Value(row.money)
        <3>1. sum = Value(d.mail[m].money)
            OBVIOUS
        <3> HIDE DEF sum
        <3>2. IsOld(d, m, Apply(d, [NoWrites EXCEPT !.mail = Only(m, None), !.destroyed = {i} \ {None}, !.fees = sum]))
            BY <3>1, OldGoes
        <3> QED
            BY <3>2 DEF sum
    <2>3. t.login = None
        BY DEF NoWrites
    <2> HIDE DEF t
    <2> QED
        BY <2>1, <2>2, <2>3
<1> QED
    BY <1>1, <1>2

(* The elements of a finite set, each once. *)
LEMMA SetToSeqIs ==
    ASSUME NEW S, IsFiniteSet(S)
    PROVE  /\ Cardinality(S) \in Nat
           /\ SetToSeq(S) \in [1..Cardinality(S) -> S]
           /\ \A j, k \in 1..Cardinality(S) : SetToSeq(S)[j] = SetToSeq(S)[k] => j = k
<1>1. Cardinality(S) \in Nat /\ ExistsBijection(1..Cardinality(S), S)
    BY FS_CardinalityType
<1>2. \E f \in [1..Cardinality(S) -> S] : IsInjective(f)
    BY <1>1 DEF ExistsBijection, Bijection, Injection, IsInjective
<1>3. SetToSeq(S) \in [1..Cardinality(S) -> S] /\ IsInjective(SetToSeq(S))
    BY <1>2 DEF SetToSeq
<1> QED
    BY <1>1, <1>3 DEF IsInjective

(* The greatest of finitely many numbers. *)
LEMMA MaxIs ==
    ASSUME NEW N \in Nat, NEW S \in SUBSET (0..N), S # {}
    PROVE  Max(S) \in S /\ \A y \in S : Max(S) >= y
<1> DEFINE T == {n \in Nat : \E x \in S : n = N - x}
<1>1. T \in SUBSET Nat /\ T # {}
    <2>1. PICK x \in S : TRUE
        OBVIOUS
    <2>2. N - x \in Nat
        OBVIOUS
    <2> QED
        BY <2>1, <2>2
<1>2. PICK n \in T : \A m \in T : n <= m
    BY <1>1, LeastElement
<1>3. PICK x \in S : n = N - x
    OBVIOUS
<1>4. \A y \in S : x >= y
    <2> TAKE y \in S
    <2>1. N - y \in T
        OBVIOUS
    <2>2. n <= N - y
        BY <1>2, <2>1
    <2> QED
        BY <1>3, <2>2
<1> QED
    BY <1>3, <1>4 DEF Max

(* The next key of a table is above all keys. *)
LEMMA NextKeyIs ==
    ASSUME NEW N \in Nat, NEW table, RowsOf(table) \subseteq 1..N
    PROVE  NextKey(table) \in 1..N + 1 /\ \A k \in RowsOf(table) : k < NextKey(table)
<1> DEFINE S == RowsOf(table) \union {0}
<1>1. S \in SUBSET (0..N) /\ S # {}
    OBVIOUS
<1> HIDE DEF S
<1>2. Max(S) \in S /\ \A y \in S : Max(S) >= y
    BY <1>1, MaxIs
<1>3. NextKey(table) = Max(S) + 1
    BY DEF NextKey, S
<1>4. Max(S) \in 0..N
    BY <1>1, <1>2
<1>5. \A k \in RowsOf(table) : k \in S /\ k \in Int
    BY DEF S
<1> QED
    BY <1>2, <1>3, <1>4, <1>5

(* The tables after the first n of the old mails s. *)
OldTables(g, d, s, op, N, n) ==
    /\ g[0] = d
    /\ \A k \in 1..n : g[k] = Apply(g[k - 1], op[k]) /\ op[k].login = None
    /\ \A k \in 0..n :
          /\ Sound(g[k], 0, {}) /\ g[k].auctionhouse = d.auctionhouse
          /\ RowsOf(g[k].mail) \subseteq RowsOf(d.mail)
          /\ \A j \in (k + 1)..N : /\ g[k].mail[s[j]] = d.mail[s[j]]
                                   /\ Inside(g[k], s[j]) = Inside(d, s[j])

OldOnes(d, s, op, N) ==
    /\ \A k \in 1..N : s[k] \in RowsOf(d.mail)
    /\ \A j, k \in 1..N : s[j] = s[k] => j = k
    /\ \A k \in 1..N : op[k] = OldWrites(s[k], d.mail[s[k]], ItemIn(d, s[k]))

(* The tables after one more of the old mails,                                 *)
LEMMA OldNext ==
    ASSUME NEW d, Sound(d, 0, {}), NEW s, NEW op, NEW N \in Nat, OldOnes(d, s, op, N),
           NEW n \in Nat, n + 1 <= N, NEW g, OldTables(g, d, s, op, N, n)
    PROVE  \E h : OldTables(h, d, s, op, N, n + 1)
<1> DEFINE a == g[n]
           m == s[n + 1]
           i == ItemIn(d, m)
           e == Apply(a, op[n + 1])
<1>1. n + 1 \in 1..N /\ n \in 0..n
    OBVIOUS
<1>2. /\ Sound(a, 0, {}) /\ a.auctionhouse = d.auctionhouse /\ RowsOf(a.mail) \subseteq RowsOf(d.mail)
      /\ a.mail[m] = d.mail[m] /\ Inside(a, m) = Inside(d, m)
    <2>1. n + 1 \in (n + 1)..N
        OBVIOUS
    <2> QED
        BY <1>1, <2>1 DEF OldTables
<1>3. m \in RowsOf(d.mail) /\ op[n + 1] = OldWrites(m, d.mail[m], i)
    BY <1>1 DEF OldOnes
<1>4. m \in MailId /\ d.mail[m] # None /\ d \in Tables /\ a \in Tables
    BY <1>2, <1>3, Rows DEF Sound
<1>5. i \in Item \union {None} /\ Inside(a, m) = {i} \ {None}
    BY <1>2, <1>4, ItemInside
<1> HIDE DEF i, m, a
<1>6. IsOld(a, m, e) /\ op[n + 1].login = None
    <2>1. a.mail[m] # None
        BY <1>2, <1>4
    <2>2. /\ IsOld(a, m, Apply(a, OldWrites(m, a.mail[m], i)))
          /\ OldWrites(m, a.mail[m], i).login = None
        BY <1>2, <1>4, <1>5, <2>1, OldMoves
    <2> QED
        BY <1>2, <1>3, <2>2
<1> HIDE DEF e
<1> DEFINE h == [k \in 0..(n + 1) |-> IF k = n + 1 THEN e ELSE g[k]]
<1>7. h[n + 1] = e /\ \A k \in 0..n : h[k] = g[k]
    OBVIOUS
<1> HIDE DEF h
<1>8. h[0] = d
    BY <1>7 DEF OldTables
<1>9. \A k \in 1..(n + 1) : h[k] = Apply(h[k - 1], op[k]) /\ op[k].login = None
    <2> TAKE k \in 1..(n + 1)
    <2>1. CASE k = n + 1
        <3>1. h[k - 1] = a
            BY <1>7, <2>1 DEF a
        <3> QED
            BY <1>6, <1>7, <2>1, <3>1 DEF e
    <2>2. CASE k # n + 1
        <3>1. k \in 1..n /\ k \in 0..n /\ k - 1 \in 0..n
            BY <2>2
        <3> QED
            BY <1>7, <3>1 DEF OldTables
    <2> QED
        BY <2>1, <2>2
<1>10. /\ Sound(e, 0, {}) /\ e.auctionhouse = d.auctionhouse /\ RowsOf(e.mail) \subseteq RowsOf(d.mail)
    BY <1>2, <1>6 DEF IsOld
<1>11. \A j \in (n + 2)..N : e.mail[s[j]] = d.mail[s[j]] /\ Inside(e, s[j]) = Inside(d, s[j])
    <2> TAKE j \in (n + 2)..N
    <2>1. j \in (n + 1)..N /\ j \in 1..N /\ j # n + 1
        OBVIOUS
    <2>2. s[j] # m /\ s[j] \in RowsOf(d.mail)
        BY <1>1, <2>1 DEF OldOnes, m
    <2>3. a.mail[s[j]] = d.mail[s[j]] /\ Inside(a, s[j]) = Inside(d, s[j])
        BY <1>1, <2>1 DEF OldTables, a
    <2>4. s[j] \in RowsOf(a.mail)
        BY <1>4, <2>2, <2>3, Rows
    <2> QED
        BY <1>6, <2>2, <2>3, <2>4 DEF IsOld, Touches
<1>12. \A k \in 0..(n + 1) :
          /\ Sound(h[k], 0, {}) /\ h[k].auctionhouse = d.auctionhouse
          /\ RowsOf(h[k].mail) \subseteq RowsOf(d.mail)
          /\ \A j \in (k + 1)..N : /\ h[k].mail[s[j]] = d.mail[s[j]]
                                   /\ Inside(h[k], s[j]) = Inside(d, s[j])
    <2> TAKE k \in 0..(n + 1)
    <2>1. CASE k = n + 1
        <3>1. h[k] = e /\ (k + 1)..N = (n + 2)..N
            BY <1>7, <2>1
        <3> QED
            BY <1>10, <1>11, <3>1
    <2>2. CASE k # n + 1
        <3>1. k \in 0..n
            BY <2>2
        <3>2. h[k] = g[k]
            BY <1>7, <3>1
        <3> QED
            BY <3>1, <3>2 DEF OldTables
    <2> QED
        BY <2>1, <2>2
<1>13. OldTables(h, d, s, op, N, n + 1)
    BY <1>8, <1>9, <1>12 DEF OldTables
<1> QED
    BY <1>13

(* and after all of them.                                                      *)
LEMMA OldChain ==
    ASSUME NEW d, Sound(d, 0, {}), NEW s, NEW op, NEW N \in Nat, OldOnes(d, s, op, N)
    PROVE  \E g : OldTables(g, d, s, op, N, N)
<1> DEFINE T == {n \in Nat : n <= N => \E g : OldTables(g, d, s, op, N, n)}
<1>1. 0 \in T
    <2> DEFINE g == [k \in {0} |-> d]
    <2>1. g[0] = d
        OBVIOUS
    <2> HIDE DEF g
    <2>2. OldTables(g, d, s, op, N, 0)
        <3>1. 1..0 = {} /\ 0..0 = {0}
            OBVIOUS
        <3> QED
            BY <2>1, <3>1 DEF OldTables
    <2> QED
        BY <2>2
<1>2. ASSUME NEW n \in T PROVE n + 1 \in T
    <2> SUFFICES ASSUME n + 1 <= N PROVE \E g : OldTables(g, d, s, op, N, n + 1)
        OBVIOUS
    <2>1. n \in Nat /\ n <= N
        OBVIOUS
    <2>2. PICK g : OldTables(g, d, s, op, N, n)
        BY <2>1
    <2> QED
        BY <2>1, <2>2, OldNext
<1>3. T \in SUBSET Nat
    OBVIOUS
<1> HIDE DEF T
<1>4. N \in T
    BY <1>1, <1>2, <1>3, SetInduction
<1> QED
    BY <1>4 DEF T

(* The operations on the old mails that a start finds. *)
LEMMA OldQueue ==
    ASSUME NEW d, d = db, Sound(d, 0, {}), NEW X \in SUBSET RowsOf(d.mail), NEW has_items,
           \A m \in X : has_items[m] <=> ItemIn(d, m) # None
    PROVE  LET op == [k \in 1..Cardinality(X) |-> OldMail(SetToSeq(X)[k], has_items[SetToSeq(X)[k]])]
           IN  /\ Cardinality(X) \in Nat /\ Cardinality(X) <= MaxMail
               /\ OldOnes(d, SetToSeq(X), op, Cardinality(X))
<1> DEFINE N == Cardinality(X)
           s == SetToSeq(X)
           op == [k \in 1..N |-> OldMail(s[k], has_items[s[k]])]
<1>1. X \subseteq MailId /\ IsFiniteSet(MailId)
    BY Rows, Keys DEF Sound
<1>2. Cardinality(MailId) = MaxMail
    <2>1. MaxMail \in Nat /\ 1 \in Int /\ MaxMail \in Int
        BY StoreAssumption
    <2>2. Cardinality(1..MaxMail) = IF 1 > MaxMail THEN 0 ELSE MaxMail - 1 + 1
        BY <2>1, FS_Interval
    <2> QED
        BY <2>1, <2>2 DEF MailId
<1>3. IsFiniteSet(X) /\ N <= MaxMail
    BY <1>1, <1>2, FS_Subset
<1>4. /\ N \in Nat /\ s \in [1..N -> X]
      /\ \A j, k \in 1..N : s[j] = s[k] => j = k
    BY <1>3, SetToSeqIs
<1>5. \A k \in 1..N : op[k] = OldWrites(s[k], d.mail[s[k]], ItemIn(d, s[k]))
    BY <1>4 DEF OldMail, OldWrites
<1> HIDE DEF N, s, op
<1>6. OldOnes(d, s, op, N)
    BY <1>4, <1>5 DEF OldOnes
<1> QED
    BY <1>3, <1>4, <1>6 DEF N, s, op

-----------------------------------------------------------------------------
(* The tables at first, and the places of an item.                             *)

(* The tables at first. *)
LEMMA InitSound == Init => Sound(db, 0, {})
<1> SUFFICES ASSUME Init PROVE Sound(db, 0, {})
    OBVIOUS
<1>1. PICK d : d = db
    OBVIOUS
<1>2. /\ d.money = [p \in Player |-> InitialGold] /\ d.instance = Item /\ d.inventory = InitialOwner
      /\ d.mail = [m \in MailId |-> None] /\ d.mail_items = [i \in Item |-> None]
      /\ d.auctionhouse = [a \in AuctionId |-> None] /\ d.fees = 0 /\ d.lost = {}
    BY <1>1 DEF Init, InitStore
<1>3. d \in Tables
    BY <1>1, StoreAssumption DEF Init, InitStore, Tables
<1>4. Total(d.money) = Endowment
    BY <1>2, Keys, StoreAssumption, SumConstant, TotalIsSum, Golds, <1>3 DEF Endowment
<1>5. Total(MailGolds(d)) = 0
    <2>1. MailGolds(d) \in [MailId -> Nat] /\ \A m \in MailId : MailGolds(d)[m] = 0
        BY <1>2, <1>3, Golds DEF MailGolds, MailGold
    <2> QED
        BY <2>1, Keys, SumZero, TotalIsSum
<1>6. Total(BidGolds(d)) = 0
    <2>1. BidGolds(d) \in [AuctionId -> Nat] /\ \A a \in AuctionId : BidGolds(d)[a] = 0
        BY <1>2, <1>3, Golds DEF BidGolds, BidGold
    <2> QED
        BY <2>1, Keys, SumZero, TotalIsSum
<1>7. Gold(d) + d.fees + 0 = Endowment
    <2>1. Total(d.money) \in Nat
        BY <1>3, Golds
    <2> QED
        BY <1>2, <1>4, <1>5, <1>6, <2>1 DEF Gold
<1>8. \A p \in Player : d.money[p] <= MaxMoney
    BY <1>2, MailAssumption
<1>9. RowsOf(d.auctionhouse) = {}
    BY <1>2 DEF RowsOf
<1>10. Placed(d, {})
    <2>1. \A i \in Item : InBag(d, i) /\ ~InMail(d, i) /\ ~OnSale(d, i)
        <3>1. \A i \in Item : d.inventory[i] = InitialOwner[i] /\ InitialOwner[i] \in Player /\ d.mail_items[i] = None
            BY <1>2, StoreAssumption
        <3>2. \A i \in Item : InBag(d, i)
            BY <3>1, Keys DEF InBag
        <3>3. \A i \in Item : ~InMail(d, i) /\ ~OnSale(d, i)
            BY <1>9, <3>1 DEF InMail, OnSale
        <3> QED
            BY <3>2, <3>3
    <2> QED
        BY <1>2, <1>9, <2>1 DEF Placed
<1>11. SumsInOrder(d)
    BY <1>2, <1>9 DEF SumsInOrder, BidsInOrder, MailsInOrder, RowsOf
<1> QED
    BY <1>1, <1>3, <1>7, <1>8, <1>10, <1>11 DEF Sound

(* An item that was not lost has one place, and none has two. *)
LEMMA OnePlace ==
    ASSUME NEW d, Sound(d, 0, {}), NEW i \in d.instance
    PROVE  Cardinality(PlacesOf(d, i)) <= 1 /\ (Cardinality(PlacesOf(d, i)) = 0 => i \in d.lost)
<1>0. /\ d \in Tables /\ i \in Item /\ d.inventory[i] \in Player \union {None}
      /\ d.mail_items[i] \in MailId \union {None}
      /\ None \notin Player /\ None \notin MailId
    BY Keys DEF Sound, Tables
<1>1. /\ InBag(d, i) \/ InMail(d, i) \/ OnSale(d, i) \/ i \in d.lost
      /\ ~(InBag(d, i) /\ InMail(d, i)) /\ ~(InBag(d, i) /\ OnSale(d, i))
      /\ ~(InMail(d, i) /\ OnSale(d, i))
      /\ InMail(d, i) => d.mail[d.mail_items[i]] # None
    BY DEF Sound, Placed
<1> DEFINE B == {p \in Player : d.inventory[i] = p}
           M == {m \in RowsOf(d.mail) : d.mail_items[i] = m}
           A == {a \in RowsOf(d.auctionhouse) : d.auctionhouse[a].item = i}
<1>2. PlacesOf(d, i) = {<<"inventory", p>> : p \in B} \union {<<"mail", m>> : m \in M}
                          \union {<<"auction", a>> : a \in A}
    BY DEF PlacesOf
<1>3. B = IF InBag(d, i) THEN {d.inventory[i]} ELSE {}
    BY <1>0 DEF InBag
<1>4. M = IF InMail(d, i) THEN {d.mail_items[i]} ELSE {}
    BY <1>0, <1>1, Rows DEF InMail
<1>5. A = {} <=> ~OnSale(d, i)
    BY DEF OnSale
<1>6. \A a, b \in A : a = b
    BY DEF Sound, Placed
<1> HIDE DEF B, M, A
<1>7. (\E x : PlacesOf(d, i) = {x}) \/ (PlacesOf(d, i) = {} /\ i \in d.lost)
    <2>1. CASE InBag(d, i)
        <3>1. B = {d.inventory[i]} /\ M = {} /\ A = {}
            BY <1>1, <1>3, <1>4, <1>5, <2>1
        <3>2. PlacesOf(d, i) = {<<"inventory", d.inventory[i]>>}
            BY <1>2, <3>1
        <3> QED
            BY <3>2
    <2>2. CASE InMail(d, i)
        <3>1. B = {} /\ M = {d.mail_items[i]} /\ A = {}
            BY <1>1, <1>3, <1>4, <1>5, <2>2
        <3>2. PlacesOf(d, i) = {<<"mail", d.mail_items[i]>>}
            BY <1>2, <3>1
        <3> QED
            BY <3>2
    <2>3. CASE OnSale(d, i)
        <3>1. B = {} /\ M = {} /\ A # {}
            BY <1>1, <1>3, <1>4, <1>5, <2>3
        <3>2. PICK a : a \in A
            BY <3>1
        <3>4. A = {a}
            BY <1>6, <3>2
        <3>3. PlacesOf(d, i) = {<<"auction", a>>}
            BY <1>2, <3>1, <3>4
        <3> QED
            BY <3>3
    <2>4. CASE ~InBag(d, i) /\ ~InMail(d, i) /\ ~OnSale(d, i)
        <3>1. B = {} /\ M = {} /\ A = {} /\ i \in d.lost
            BY <1>1, <1>3, <1>4, <1>5, <2>4
        <3> QED
            BY <1>2, <3>1
    <2> QED
        BY <2>1, <2>2, <2>3, <2>4
<1>8. \A x : Cardinality({x}) = 1
    BY FS_Singleton
<1>9. Cardinality({}) = 0
    BY FS_EmptySet
<1> QED
    BY <1>7, <1>8, <1>9
==============================================================================
