------------------------ MODULE AuctionHouse_proofs ------------------------
(* Proofs about trades, mail and auctions, for any players and items. Trades:  *)
(* one always has two sides that are in the world, through mails, auctions,    *)
(* logouts and crashes, and no change of an offer leaves an acceptance in      *)
(* place. The tables and the memory, as long as no item went astray: no step   *)
(* loses or doubles gold or an item, a crash between any two transactions      *)
(* included, and what the handlers decide by is what the tables will say when  *)
(* the queue has been worked off.                                              *)
EXTENDS AuctionHouse, StoreLemmas

TradeData ==
    [trader : Player \union {None}, money : Nat, items : SUBSET Item, accepted : BOOLEAN]

(* Every character in memory is somewhere between offline and online.          *)
HasState ==
    /\ DOMAIN char = Player
    /\ \A p \in Player : "state" \in DOMAIN char[p]

TwoSides ==
    \A p \in Player : trade[p] # NoTrade =>
        /\ Online(p)
        /\ Partner(p) \in Player \ {p}
        /\ trade[Partner(p)].trader = p

TInv == HasState /\ trade \in [Player -> TradeData] /\ TwoSides

(* A step that takes nobody out of the world. *)
NobodyLeaves == HasState' /\ \A p \in Player : Online(p) => Online(p)'

-----------------------------------------------------------------------------
(* What is done to a character in memory: the operators of Mail keep it one.   *)

(* Gold that is paid or earned leaves a player in the world. *)
LEMMA MoneyKeepsState ==
    ASSUME NEW c, NEW sum, "state" \in DOMAIN c
    PROVE  /\ DOMAIN Paid(c, sum) = DOMAIN c /\ Paid(c, sum).state = c.state
           /\ DOMAIN Earned(c, sum) = DOMAIN c /\ Earned(c, sum).state = c.state
BY DEF Paid, Earned

(* So does the save of the mailbox. *)
LEMMA MailSavedKeepsState ==
    ASSUME NEW c, "state" \in DOMAIN c
    PROVE  DOMAIN MailSaved(c) = DOMAIN c /\ MailSaved(c).state = c.state
BY DEF MailSaved

(* And the delivery of mails to mailboxes. *)
LEMMA ReceivedKeepsState ==
    ASSUME NEW c, NEW drafts, \A p \in Player : "state" \in DOMAIN c[p]
    PROVE  /\ DOMAIN Received(c, drafts) = Player
           /\ \A p \in Player : /\ "state" \in DOMAIN Received(c, drafts)[p]
                                /\ Received(c, drafts)[p].state = c[p].state
BY DEF Received

(* A handler that commits changes of characters who stay. *)
LEMMA CommitKeepsState ==
    ASSUME HasState, NEW t, NEW c, NEW drafts, PostAndCommit(t, c, drafts),
           \A p \in Player : "state" \in DOMAIN c[p] /\ c[p].state = char[p].state
    PROVE  NobodyLeaves
BY ReceivedKeepsState DEF PostAndCommit, NobodyLeaves, HasState, Online

(* One that changes the character of one player who stays. *)
LEMMA CommitOneKeepsState ==
    ASSUME HasState, NEW t, NEW p \in Player, NEW c, NEW drafts,
           PostAndCommit(t, [char EXCEPT ![p] = c], drafts),
           "state" \in DOMAIN c, c.state = char[p].state
    PROVE  NobodyLeaves
<1> DEFINE d == [char EXCEPT ![p] = c]
<1>1. \A r \in Player : "state" \in DOMAIN d[r] /\ d[r].state = char[r].state
    BY DEF HasState
<1> HIDE DEF d
<1> QED
    BY <1>1, CommitKeepsState DEF d

-----------------------------------------------------------------------------
(* The operations of the life of a character, of mail and of the auction       *)
(* house.                                                                      *)

(* The query holder of a login brings a player into the world. *)
LEMMA ExecuteKeeps == HasState /\ Execute => NobodyLeaves
BY DEF HasState, Execute, NobodyLeaves, Online, Offline

(* A player who logs in was not there. *)
LEMMA LoginKeeps ==
    ASSUME HasState, NEW p \in Player, Login(p)
    PROVE  NobodyLeaves
BY DEF HasState, Login, NobodyLeaves, Online

(* A logout takes its player out of the world and nobody else. *)
LEMMA LogoutLeaves ==
    ASSUME HasState, NEW p \in Player, Logout(p)
    PROVE  HasState' /\ \A r \in Player \ {p} : Online(r) => Online(r)'
BY DEF HasState, Logout, Online, Offline

(* Mail takes nobody out of the world. *)
LEMMA CorrespondenceKeeps == HasState /\ Correspondence => NobodyLeaves
<1> SUFFICES ASSUME HasState, Correspondence
             PROVE  NobodyLeaves
    OBVIOUS
<1>1. ASSUME NEW p \in Player, Save(p)
      PROVE  NobodyLeaves
    BY <1>1, MailSavedKeepsState DEF HasState, Save, NobodyLeaves, Online
<1>2. ASSUME NEW p \in Player, LoadMail(p)
      PROVE  NobodyLeaves
    BY <1>2 DEF HasState, LoadMail, NobodyLeaves, Online
<1>3. ASSUME NEW p \in Player, NEW r, NEW money, NEW cod, NEW i, SendMail(p, r, money, cod, i)
      PROVE  NobodyLeaves
    <2> DEFINE c == [Paid(char[p], Reqmoney(money)) EXCEPT !.bag = @ \ {i}]
    <2>1. "state" \in DOMAIN c /\ c.state = char[p].state
        BY MoneyKeepsState DEF HasState
    <2> HIDE DEF c
    <2> QED
        BY <1>3, <2>1, CommitOneKeepsState DEF SendMail, Commit, c
<1>4. ASSUME NEW p \in Player, NEW m, MarkAsRead(p, m)
      PROVE  NobodyLeaves
    BY <1>4 DEF HasState, MarkAsRead, NobodyLeaves, Online
<1>5. ASSUME NEW p \in Player, NEW m, DeleteMail(p, m)
      PROVE  NobodyLeaves
    BY <1>5 DEF HasState, DeleteMail, NobodyLeaves, Online
<1>6. ASSUME NEW p \in Player, NEW m, ReturnToSender(p, m)
      PROVE  NobodyLeaves
    <2> DEFINE c == [char[p] EXCEPT !.mails = [k \in (DOMAIN @) \ {m} |-> @[k]]]
               c2 == [c EXCEPT !.mMitems = @ \ {Owned(p)[m].item}]
    <2>1. "state" \in DOMAIN c /\ c.state = char[p].state
        BY DEF HasState
    <2> HIDE DEF c
    <2>2. "state" \in DOMAIN c2 /\ c2.state = char[p].state
        BY <2>1
    <2> HIDE DEF c2
    <2>3. \E t, drafts : \/ PostAndCommit(t, [char EXCEPT ![p] = c], drafts)
                         \/ PostAndCommit(t, [char EXCEPT ![p] = c2], drafts)
        BY <1>6 DEF ReturnToSender, Commit, c, c2
    <2> QED
        BY <2>1, <2>2, <2>3, CommitOneKeepsState
<1>7. ASSUME NEW p \in Player, NEW m, NEW i, TakeItem(p, m, i)
      PROVE  NobodyLeaves
    <2> DEFINE old == Owned(p)[m]
               now == [old EXCEPT !.item = IF @ = i THEN None ELSE @, !.cod = 0, !.state = "changed"]
               c == [Paid(char[p], old.cod) EXCEPT
                   !.bag = @ \union {i}, !.mMitems = @ \ {i}, !.mails[m] = now]
               d == MailSaved(c)
    <2>1. "state" \in DOMAIN c /\ c.state = char[p].state
        BY MoneyKeepsState DEF HasState
    <2> HIDE DEF c
    <2>2. "state" \in DOMAIN d /\ d.state = char[p].state
        BY <2>1, MailSavedKeepsState
    <2> HIDE DEF d
    <2>3. \E t, drafts : PostAndCommit(t, [char EXCEPT ![p] = d], drafts)
        BY <1>7 DEF TakeItem, d, c
    <2> QED
        BY <2>2, <2>3, CommitOneKeepsState
<1>8. ASSUME NEW p \in Player, NEW m, TakeMoney(p, m)
      PROVE  NobodyLeaves
    <2> DEFINE c == [WithMoney(char[p], Owned(p)[m].money) EXCEPT
                       !.mails[m] = [@ EXCEPT !.money = 0, !.state = "changed"]]
               d == MailSaved(c)
    <2>1. "state" \in DOMAIN c /\ c.state = char[p].state
        BY MoneyKeepsState DEF HasState, WithMoney
    <2> HIDE DEF c
    <2>2. "state" \in DOMAIN d /\ d.state = char[p].state
        BY <2>1, MailSavedKeepsState
    <2> HIDE DEF d
    <2> QED
        BY <1>8, <2>2, CommitOneKeepsState DEF TakeMoney, Commit, d, c
<1> QED
    BY <1>1, <1>2, <1>3, <1>4, <1>5, <1>6, <1>7, <1>8, MailAssumption DEF Correspondence

(* Nor do auctions. *)
LEMMA AuctioningKeeps == HasState /\ Auctioning => NobodyLeaves
<1> SUFFICES ASSUME HasState, Auctioning
             PROVE  NobodyLeaves
    OBVIOUS
<1>1. ASSUME NEW p \in Player, NEW i, NEW startbid, NEW buyout, SellItem(p, i, startbid, buyout)
      PROVE  NobodyLeaves
    <2> DEFINE c == [Paid(char[p], Deposit) EXCEPT !.bag = @ \ {i}]
    <2>1. "state" \in DOMAIN c /\ c.state = char[p].state
        BY MoneyKeepsState DEF HasState
    <2> HIDE DEF c
    <2> QED
        BY <1>1, <2>1, CommitOneKeepsState DEF SellItem, Commit, c
<1>2. ASSUME NEW p \in Player, NEW sum, NEW t, NEW drafts,
             PostAndCommit(t, [char EXCEPT ![p] = Paid(char[p], sum)], drafts)
      PROVE  NobodyLeaves
    <2> DEFINE c == Paid(char[p], sum)
    <2>1. "state" \in DOMAIN c /\ c.state = char[p].state
        BY MoneyKeepsState DEF HasState
    <2> HIDE DEF c
    <2> QED
        BY <1>2, <2>1, CommitOneKeepsState DEF c
<1>3. ASSUME NEW p \in Player, NEW a, NEW price, PlaceBid(p, a, price)
      PROVE  NobodyLeaves
    BY <1>3, <1>2 DEF PlaceBid, Commit
<1>4. ASSUME NEW p \in Player, NEW a, NEW price, Buyout(p, a, price)
      PROVE  NobodyLeaves
    BY <1>4, <1>2 DEF Buyout, Commit
<1>5. ASSUME NEW p \in Player, NEW a, CancelAuction(p, a)
      PROVE  NobodyLeaves
    BY <1>5, <1>2 DEF CancelAuction, Commit
<1>6. ASSUME NEW a, ExpireAuction(a)
      PROVE  NobodyLeaves
    BY <1>6, CommitKeepsState DEF ExpireAuction, HasState, Commit
<1> QED
    BY <1>1, <1>3, <1>4, <1>5, <1>6 DEF Auctioning

-----------------------------------------------------------------------------
(* Trades.                                                                     *)

(* Nothing is offered and accepted in a trade that is closed. *)
LEMMA NoTradeIsEmpty ==
    NoTrade \in TradeData /\ ~NoTrade.accepted /\ NoTrade.trader = None
BY DEF NoTrade, TradeData

(* Who has a partner is his partner's partner. *)
LEMMA Partners ==
    ASSUME TInv, NEW p \in Player, trade[p] # NoTrade
    PROVE  /\ Online(p) /\ Partner(p) \in Player /\ Partner(p) # p
           /\ trade[Partner(p)] # NoTrade /\ Partner(Partner(p)) = p
           /\ Online(Partner(p))
BY NoTradeIsEmpty, StoreAssumption DEF TInv, TwoSides, Partner

(* A step that leaves the trades alone and takes nobody out of the world. *)
LEMMA TradesAlone == TInv /\ NobodyLeaves /\ UNCHANGED trade => TInv'
BY DEF TInv, TwoSides, NobodyLeaves, Partner, Online

(* What a step may do to the sides of a trade: those of p and his partner q    *)
(* change, and nobody else's.                                                  *)
SidesChange(p, q, new, other) ==
    /\ p # q
    /\ new \in TradeData /\ new.trader = q
    /\ other \in TradeData /\ other.trader = p
    /\ trade' = [trade EXCEPT ![p] = new, ![q] = other]

(* An acceptance stands until one of the two changes an offer. *)
Stands ==
    \A p \in Player :
        LET q == Partner(p)
        IN  trade[p].accepted /\ trade'[p].accepted =>
                 /\ trade'[p] = trade[p]
                 /\ trade'[q].money = trade[q].money
                 /\ trade'[q].items = trade[q].items

(* A change of both sides keeps a trade one of two sides. *)
LEMMA SidesChangeKeeps ==
    ASSUME TInv, UNCHANGED char, NEW p \in Player, NEW q \in Player, NEW new, NEW other,
           Online(p), Online(q), SidesChange(p, q, new, other),
           trade[p].trader \in {None, q}, trade[q].trader \in {None, p}
    PROVE  TInv'
<1>1. HasState' /\ trade' \in [Player -> TradeData]
    BY DEF TInv, HasState, SidesChange
<1>2. ASSUME NEW r \in Player, trade'[r] # NoTrade
      PROVE  /\ Online(r)' /\ Partner(r)' \in Player \ {r}
             /\ trade'[trade'[r].trader].trader = r
    <2>1. trade' = [trade EXCEPT ![p] = new, ![q] = other] /\ trade \in [Player -> TradeData]
        BY DEF TInv, SidesChange
    <2>2. CASE r \in {p, q}
        BY <2>1, <2>2 DEF SidesChange, Online, Partner
    <2>3. CASE r \notin {p, q}
        <3>1. trade'[r] = trade[r] /\ trade[r] # NoTrade
            BY <1>2, <2>1, <2>3
        <3>2. Partner(r) \in Player /\ Partner(r) # r /\ trade[Partner(r)].trader = r /\ Online(r)
            BY <3>1 DEF TInv, TwoSides
        <3>3. Partner(r) \notin {p, q}
            BY <2>3, <3>2, StoreAssumption DEF Partner
        <3> QED
            BY <2>1, <3>1, <3>2, <3>3 DEF Online, Partner
    <2> QED
        BY <2>2, <2>3
<1> QED
    BY <1>1, <1>2 DEF TInv, TwoSides, Partner, Online

(* If neither side goes on accepting after a change of an offer, acceptances   *)
(* stand.                                                                      *)
LEMMA SidesChangeStands ==
    ASSUME TInv, NEW p \in Player, NEW q \in Player, NEW new, NEW other,
           SidesChange(p, q, new, other),
           trade[p].trader \in {None, q}, trade[q].trader \in {None, p},
           trade[p].accepted /\ new.accepted =>
               new = trade[p] /\ other.money = trade[q].money /\ other.items = trade[q].items,
           trade[q].accepted /\ other.accepted =>
               other = trade[q] /\ new.money = trade[p].money /\ new.items = trade[p].items
    PROVE  Stands
<1> SUFFICES ASSUME NEW r \in Player, trade[r].accepted, trade'[r].accepted
             PROVE  /\ trade'[r] = trade[r]
                    /\ trade'[Partner(r)].money = trade[Partner(r)].money
                    /\ trade'[Partner(r)].items = trade[Partner(r)].items
    BY DEF Stands
<1>1. trade' = [trade EXCEPT ![p] = new, ![q] = other] /\ trade \in [Player -> TradeData]
    BY DEF TInv, SidesChange
<1>2. Partner(r) \in Player /\ trade[Partner(r)].trader = r
    BY NoTradeIsEmpty, Partners DEF Partner
<1>3. CASE r = p
    BY <1>1, <1>2, <1>3, StoreAssumption DEF Partner, SidesChange
<1>4. CASE r = q
    BY <1>1, <1>2, <1>4, StoreAssumption DEF Partner, SidesChange
<1>5. CASE r \notin {p, q}
    <2>1. Partner(r) \notin {p, q}
        BY <1>2, <1>5, StoreAssumption
    <2> QED
        BY <1>1, <1>2, <1>5, <2>1
<1> QED
    BY <1>3, <1>4, <1>5

(* A trade begins: neither had one. *)
LEMMA InitiateStep ==
    ASSUME TInv, NEW p \in Player, NEW q \in Player, InitiateTrade(p, q)
    PROVE  TInv' /\ Stands
<1>1. PICK mine \in SUBSET Item, his \in SUBSET Item :
        trade' = [trade EXCEPT ![p] = [NoTrade EXCEPT !.trader = q, !.items = mine],
                               ![q] = [NoTrade EXCEPT !.trader = p, !.items = his]]
    BY DEF InitiateTrade
<1> DEFINE new == [NoTrade EXCEPT !.trader = q, !.items = mine]
           other == [NoTrade EXCEPT !.trader = p, !.items = his]
<1>2. /\ new \in TradeData /\ new.trader = q /\ ~new.accepted
      /\ other \in TradeData /\ other.trader = p /\ ~other.accepted
    BY DEF NoTrade, TradeData
<1>3. trade' = [trade EXCEPT ![p] = new, ![q] = other]
    BY <1>1
<1> HIDE DEF new, other
<1>4. SidesChange(p, q, new, other)
    BY <1>2, <1>3 DEF SidesChange, InitiateTrade
<1>5. trade[p].trader \in {None, q} /\ trade[q].trader \in {None, p}
    BY NoTradeIsEmpty DEF InitiateTrade
<1>6. UNCHANGED char /\ Online(p) /\ Online(q)
    BY DEF InitiateTrade, mail
<1> QED
    BY <1>2, <1>4, <1>5, <1>6, SidesChangeKeeps, SidesChangeStands

(* A side changes its own part of a trade, and perhaps the acceptance of the   *)
(* other.                                                                      *)
LEMMA SideStep ==
    ASSUME TInv, NEW p \in Player, Trading(p), UNCHANGED char, NEW new \in TradeData,
           NEW accepted \in BOOLEAN,
           new.trader = Partner(p),
           trade' = [trade EXCEPT ![p] = new, ![Partner(p)].accepted = accepted],
           trade[p].accepted /\ new.accepted => new = trade[p],
           trade[Partner(p)].accepted /\ accepted =>
               new.money = trade[p].money /\ new.items = trade[p].items
    PROVE  TInv' /\ Stands
<1> DEFINE q == Partner(p)
           other == [trade[q] EXCEPT !.accepted = accepted]
<1>1. /\ Online(p) /\ q \in Player /\ q # p /\ trade[q].trader = p /\ trade[p].trader = q
      /\ Online(q)
    BY Partners DEF Trading, Partner
<1>2. trade \in [Player -> TradeData]
    BY DEF TInv
<1>3. /\ other \in TradeData /\ other.trader = p /\ other.accepted = accepted
      /\ other.money = trade[q].money /\ other.items = trade[q].items
      /\ trade[q].accepted /\ accepted => other = trade[q]
    BY <1>1, <1>2 DEF TradeData
<1>4. trade' = [trade EXCEPT ![p] = new, ![q] = other]
    BY <1>1, <1>2
<1> HIDE DEF q, other
<1>5. SidesChange(p, q, new, other)
    BY <1>1, <1>3, <1>4 DEF SidesChange, q
<1> QED
    BY <1>1, <1>3, <1>5, SidesChangeKeeps, SidesChangeStands DEF q

(* An offer is changed: both acceptances are taken back. *)
LEMMA OfferStep ==
    ASSUME TInv, NEW p \in Player, Trading(p), NEW money \in Nat, NEW items \in SUBSET Item,
           Offer(p, money, items), UNCHANGED char
    PROVE  TInv' /\ Stands
<1> DEFINE new == [trade[p] EXCEPT !.money = money, !.items = items, !.accepted = FALSE]
<1>1. new \in TradeData /\ new.trader = Partner(p) /\ ~new.accepted
    BY DEF TInv, TradeData, Partner
<1>2. trade' = [trade EXCEPT ![p] = new, ![Partner(p)].accepted = FALSE]
    BY DEF Offer
<1> HIDE DEF new
<1> QED
    BY <1>1, <1>2, SideStep

(* An acceptance that is given or taken back changes no offer. *)
LEMMA AcceptStep ==
    ASSUME TInv, NEW p \in Player, Trading(p), UNCHANGED char, NEW a \in BOOLEAN,
           NEW b \in BOOLEAN,
           trade' = [trade EXCEPT ![p].accepted = a, ![Partner(p)].accepted = b]
    PROVE  TInv' /\ Stands
<1> DEFINE new == [trade[p] EXCEPT !.accepted = a]
<1>1. /\ new \in TradeData /\ new.trader = Partner(p)
      /\ new.money = trade[p].money /\ new.items = trade[p].items
      /\ trade[p].accepted /\ new.accepted => new = trade[p]
    BY DEF TInv, TradeData, Partner
<1>2. trade' = [trade EXCEPT ![p] = new, ![Partner(p)].accepted = b]
    OBVIOUS
<1> HIDE DEF new
<1> QED
    BY <1>1, <1>2, SideStep

(* A window that both see closed. *)
LEMMA CloseStep ==
    ASSUME TInv, NEW p \in Player, trade' = Closed(p), HasState',
           \A r \in Player \ {p} : Online(r) => Online(r)'
    PROVE  TInv' /\ Stands
<1>1. trade \in [Player -> TradeData] /\ trade' \in [Player -> TradeData]
    BY NoTradeIsEmpty DEF TInv, Closed
<1>2. trade'[p] = NoTrade
    BY <1>1 DEF Closed
<1>3. ASSUME NEW r \in Player, trade'[r] # NoTrade
      PROVE  /\ trade'[r] = trade[r] /\ trade[r] # NoTrade
             /\ r # p /\ Partner(r) # p /\ trade'[Partner(r)] = trade[Partner(r)]
    <2>1. r # p
        BY <1>2, <1>3
    <2>2. CASE trade[p] = NoTrade
        <3>1. UNCHANGED trade
            BY <2>2 DEF Closed
        <3> QED
            BY <1>3, <2>1, <2>2, <3>1, Partners
    <2>3. CASE trade[p] # NoTrade
        <3>1. trade' = [trade EXCEPT ![p] = NoTrade, ![Partner(p)] = NoTrade]
            BY <2>3 DEF Closed
        <3>2. Partner(p) \in Player /\ Partner(Partner(p)) = p
            BY <2>3, Partners
        <3>3. r # Partner(p) /\ trade'[r] = trade[r] /\ trade[r] # NoTrade
            BY <1>1, <1>3, <2>1, <3>1, <3>2
        <3>4. Partner(r) \in Player /\ Partner(Partner(r)) = r
            BY <3>3, Partners
        <3>5. Partner(r) # p /\ Partner(r) # Partner(p)
            BY <2>1, <3>2, <3>3, <3>4
        <3> QED
            BY <1>1, <2>1, <3>1, <3>3, <3>4, <3>5
    <2> QED
        BY <2>2, <2>3
<1>4. TwoSides'
    BY <1>3, Partners DEF TwoSides, Partner
<1>5. Stands
    BY <1>1, <1>3, NoTradeIsEmpty DEF Stands
<1> QED
    BY <1>1, <1>4, <1>5 DEF TInv

(* The exchange leaves both players in the world. *)
LEMMA ExchangeKeeps ==
    ASSUME TInv, NEW p \in Player, CompleteTrade(p)
    PROVE  NobodyLeaves
<1> DEFINE q == Partner(p)
<1>1. q \in Player
    BY Partners DEF CompleteTrade, Trading
<1>2. ASSUME NEW r \in Player, NEW mine, NEW his
      PROVE  "state" \in DOMAIN Exchanged(r, mine, his) /\ Exchanged(r, mine, his).state = char[r].state
    BY MoneyKeepsState DEF TInv, HasState, Exchanged
<1>3. \E t, mine, his, his2, mine2 :
          PostAndCommit(t, [char EXCEPT ![p] = Exchanged(p, mine, his2), ![q] = Exchanged(q, his, mine2)], <<>>)
    BY DEF CompleteTrade
<1>4. PICK t, mine, his, his2, mine2 :
          PostAndCommit(t, [char EXCEPT ![p] = Exchanged(p, mine, his2), ![q] = Exchanged(q, his, mine2)], <<>>)
    BY <1>3
<1> DEFINE cp == Exchanged(p, mine, his2)
           cq == Exchanged(q, his, mine2)
           d == [char EXCEPT ![p] = cp, ![q] = cq]
<1>5. "state" \in DOMAIN cp /\ cp.state = char[p].state /\ "state" \in DOMAIN cq /\ cq.state = char[q].state
    BY <1>1, <1>2
<1> HIDE DEF cp, cq
<1>6. \A r \in Player : "state" \in DOMAIN d[r] /\ d[r].state = char[r].state
    BY <1>1, <1>5 DEF TInv, HasState
<1>7. PostAndCommit(t, d, <<>>)
    BY <1>4 DEF cp, cq
<1> HIDE DEF d
<1> QED
    BY <1>6, <1>7, CommitKeepsState DEF TInv

(* What two players do to their trade. *)
LEMMA BargainingStep == TInv /\ Bargaining => TInv' /\ Stands
<1> SUFFICES ASSUME TInv, Bargaining
             PROVE  TInv' /\ Stands
    OBVIOUS
<1> USE DEF mail
<1>0. trade \in [Player -> TradeData] /\ HasState
    BY DEF TInv
<1>1. ASSUME NEW p \in Traders, NEW q \in Player, InitiateTrade(p, q)
      PROVE  TInv' /\ Stands
    BY <1>1, InitiateStep, TradeAssumption
<1>2. ASSUME NEW p \in Player, NEW gold \in OfferedGold, SetTradeGold(p, gold)
      PROVE  TInv' /\ Stands
    BY <1>0, <1>2, OfferStep, TradeAssumption DEF SetTradeGold, TradeData
<1>3. ASSUME NEW p \in Player, NEW i \in Item, ClearTradeItem(p, i)
      PROVE  TInv' /\ Stands
    BY <1>0, <1>3, OfferStep DEF ClearTradeItem, TradeData
<1>4. ASSUME NEW p \in Player, NEW i \in Item, NEW old, SetTradeItem(p, i, old)
      PROVE  TInv' /\ Stands
    BY <1>0, <1>4, OfferStep DEF SetTradeItem, TradeData
<1>5. ASSUME NEW p \in Player, Trading(p)
      PROVE  /\ Partner(p) \in Player /\ Partner(p) # p
             /\ trade[p].accepted \in BOOLEAN /\ trade[Partner(p)].accepted \in BOOLEAN
             /\ \A r \in {p, Partner(p)} : [trade[r] EXCEPT !.accepted = trade[r].accepted] = trade[r]
    BY <1>0, <1>5, Partners DEF Trading, TradeData
<1>6. ASSUME NEW p \in Player, UnacceptTrade(p)
      PROVE  TInv' /\ Stands
    <2>1. trade' = [trade EXCEPT ![p].accepted = FALSE,
                                 ![Partner(p)].accepted = trade[Partner(p)].accepted]
        BY <1>0, <1>5, <1>6 DEF UnacceptTrade
    <2> QED
        BY <1>5, <1>6, <2>1, AcceptStep DEF UnacceptTrade
<1>7. ASSUME NEW p \in Player, TradeCancel(p)
      PROVE  TInv' /\ Stands
    BY <1>0, <1>7, CloseStep DEF TradeCancel, HasState, Online
<1>8. ASSUME NEW p \in Player, NotYet(p)
      PROVE  TInv' /\ Stands
    <2> DEFINE q == Partner(p)
    <2>1. /\ Trading(p) /\ UNCHANGED char
          /\ \/ trade' = [trade EXCEPT ![p].accepted = FALSE]
             \/ trade' = [trade EXCEPT ![p].accepted = TRUE]
             \/ trade' = [[trade EXCEPT ![p].accepted = TRUE] EXCEPT ![q].accepted = FALSE]
             \/ trade' = [[trade EXCEPT ![p].accepted = TRUE]
                             EXCEPT ![p].accepted = FALSE, ![q].accepted = FALSE]
        BY <1>8 DEF NotYet
    <2>2. /\ q \in Player /\ q # p
          /\ trade[p].accepted \in BOOLEAN /\ trade[q].accepted \in BOOLEAN
          /\ [trade[q] EXCEPT !.accepted = trade[q].accepted] = trade[q]
        BY <1>5, <2>1
    <2> DEFINE Set(a, b) == [trade EXCEPT ![p].accepted = a, ![q].accepted = b]
    <2>3. [trade EXCEPT ![p].accepted = FALSE] = Set(FALSE, trade[q].accepted)
        BY <1>0, <2>2
    <2>4. [trade EXCEPT ![p].accepted = TRUE] = Set(TRUE, trade[q].accepted)
        BY <1>0, <2>2
    <2>5. [[trade EXCEPT ![p].accepted = TRUE] EXCEPT ![q].accepted = FALSE] = Set(TRUE, FALSE)
        BY <1>0, <2>2
    <2>6. [[trade EXCEPT ![p].accepted = TRUE] EXCEPT ![p].accepted = FALSE, ![q].accepted = FALSE]
            = Set(FALSE, FALSE)
        BY <1>0, <2>2
    <2>7. \E a, b \in BOOLEAN : trade' = Set(a, b)
        BY <2>1, <2>2, <2>3, <2>4, <2>5, <2>6
    <2> QED
        BY <2>1, <2>7, AcceptStep
<1>9. ASSUME NEW p \in Player, CompleteTrade(p)
      PROVE  TInv' /\ Stands
    BY <1>9, ExchangeKeeps, CloseStep DEF CompleteTrade, NobodyLeaves
<1> QED
    BY <1>1, <1>2, <1>3, <1>4, <1>6, <1>7, <1>8, <1>9 DEF Bargaining

-----------------------------------------------------------------------------
(* The invariant holds.                                                        *)

(* At first nobody is in the world. *)
LEMMA InitTInv == Init => TInv
BY NoTradeIsEmpty DEF Init, InitMail, InitTrade, AllClosed, Offline, TInv, HasState, TwoSides

(* A step keeps trades two-sided and acceptances standing. *)
LEMMA NextTInv == TInv /\ [Next]_vars => TInv' /\ (UNCHANGED trade \/ Stands)
<1> SUFFICES ASSUME TInv, [Next]_vars
             PROVE  TInv' /\ (UNCHANGED trade \/ Stands)
    OBVIOUS
<1>0. HasState
    BY DEF TInv
<1>1. CASE Execute /\ UNCHANGED trade
    BY <1>0, <1>1, ExecuteKeeps, TradesAlone
<1>2. ASSUME NEW p \in Player, Login(p), UNCHANGED trade
      PROVE  TInv'
    BY <1>0, <1>2, LoginKeeps, TradesAlone
<1>3. ASSUME NEW p \in Player, Leave(p)
      PROVE  TInv' /\ Stands
    BY <1>0, <1>3, LogoutLeaves, CloseStep DEF Leave
<1>4. CASE Correspondence /\ UNCHANGED trade
    BY <1>0, <1>4, CorrespondenceKeeps, TradesAlone
<1>5. CASE Bargaining
    BY <1>5, BargainingStep
<1>6. CASE Auctioning /\ UNCHANGED trade
    BY <1>0, <1>6, AuctioningKeeps, TradesAlone
<1>7. CASE Crash
    <2>1. HasState' /\ trade' = AllClosed
        BY <1>7 DEF Crash, HasState, Offline
    <2> QED
        BY <2>1, NoTradeIsEmpty DEF AllClosed, TInv, TwoSides, Stands
<1>8. CASE (Restart \/ LoadWorld \/ UNCHANGED vars) /\ UNCHANGED trade
    <2>1. UNCHANGED char
        BY <1>8 DEF Restart, LoadWorld, vars, mail
    <2>2. NobodyLeaves
        BY <1>0, <2>1 DEF NobodyLeaves, HasState, Online
    <2> QED
        BY <1>8, <2>2, TradesAlone
<1> QED
    BY <1>1, <1>2, <1>3, <1>4, <1>5, <1>6, <1>7, <1>8, MailAssumption DEF Next, vars

(* What the proofs below rest on, for any number of players, items, mails and  *)
(* auctions: a trade always has two sides.                                     *)
THEOREM TradeInvariant == Spec => []TInv
<1>1. TInv /\ [Next]_vars => TInv'
    BY NextTInv
<1> QED
    BY <1>1, InitTInv, PTL DEF Spec

(* Each side of a trade is the partner of the other and in the world, through  *)
(* logouts, exchanges and crashes: m_trader never points to a deleted player.  *)
THEOREM BothSidesOpen == Spec => []TradeIsMutual
<1>1. TInv => TradeIsMutual
    BY DEF TInv, TwoSides, TradeIsMutual, Partner
<1> QED
    BY <1>1, TradeInvariant, PTL

(* No change of an offer, by either side, leaves an acceptance in place.       *)
THEOREM OffersAreAccepted == Spec => AcceptanceStands
<1>1. TInv /\ [Next]_vars =>
        [\A p \in Player :
            LET q == Partner(p)
            IN  trade[p].accepted /\ trade'[p].accepted =>
                   /\ trade'[p] = trade[p]
                   /\ trade'[q].money = trade[q].money
                   /\ trade'[q].items = trade[q].items]_trade
    BY NextTInv DEF Stands
<1> QED
    BY <1>1, TradeInvariant, PTL DEF Spec, AcceptanceStands

-----------------------------------------------------------------------------
(* The tables and the memory. f is the chain of tables that the operations in  *)
(* the queue will make, one after the other: each of them is sound, and what   *)
(* is in memory is what the last of them says.                                 *)

(* The tables after each of the operations that wait.                          *)
Chain(f) ==
    /\ f[0] = db
    /\ \A k \in 1..Len(queue) : f[k] = Apply(f[k - 1], queue[k])

(* Each of them is sound: a crash may leave any of them; and no mail has an id *)
(* that GenerateMailID will give out.                                          *)
AllSound(f) ==
    \A k \in 0..Len(queue) :
        /\ Sound(f[k], 0, {})
        /\ phase # "down" => \A m \in RowsOf(f[k].mail) : m < mailid

(* Whoever waits for his login will be what the tables say in the end.         *)
Logins(f) ==
    \A k \in 1..Len(queue) : queue[k].login # None =>
        /\ queue[k].login \in Player
        /\ char[queue[k].login].state = "loading"
        /\ \A j \in 1..Len(queue) : queue[j].login = queue[k].login => j = k
        /\ \A j \in (k - 1)..Len(queue) : Same(queue[k].login, f[j], f[Len(queue)])

(* What is in memory is what the last tables say; and as long as a player has  *)
(* not listed his mails, those he has in any of the tables are there in the    *)
(* last ones too: LoadMail does not wait for the queue.                        *)
Chars(f) ==
    \A p \in Player :
        /\ Current(f[Len(queue)], p, char[p])
        /\ Online(p) /\ ~char[p].mailsLoaded =>
              \A j \in 0..Len(queue) : SameMail(p, f[j], f[Len(queue)])

(* The auctions in memory are the rows.                                        *)
House(d) ==
    /\ phase = "up" => auctions = [a \in RowsOf(d.auctionhouse) |-> d.auctionhouse[a]]
    /\ phase # "up" => auctions = <<>> /\ mAitems = {}
    /\ mAitems \subseteq Item
    /\ phase # "down" => \A a \in RowsOf(d.auctionhouse) : a < auctionid

(* What depends on the phase of the server, and the bounds.                    *)
Server ==
    /\ phase \in {"down", "starting", "up"}
    /\ phase # "up" => queue = <<>> /\ \A p \in Player : char[p] = Offline
    /\ mailid \in 1..MaxMail + 1 /\ auctionid \in 1..MaxAuction + 1 /\ crashes \in 0..MaxCrashes
    /\ \E S : queue \in Seq(S)
    /\ Len(queue) <= MaxPending + MaxMail
    /\ DOMAIN char = Player

(* All of it together.                                                         *)
GInv(f) ==
    /\ Server
    /\ Chain(f)
    /\ AllSound(f)
    /\ Logins(f)
    /\ Chars(f)
    /\ House(f[Len(queue)])

(* The length of the queue, and its elements after one is added. *)
LEMMA QueueLength == (\E S : queue \in Seq(S)) => Len(queue) \in Nat
BY LenProperties

(* What a commit makes of the queue. *)
LEMMA QueueGrows ==
    ASSUME \E S : queue \in Seq(S), NEW t, queue' = Append(queue, t)
    PROVE  /\ Len(queue') = Len(queue) + 1 /\ queue'[Len(queue) + 1] = t
           /\ \A k \in 1..Len(queue) : queue'[k] = queue[k]
           /\ (\E S : queue \in Seq(S))'
<1>1. PICK S : queue \in Seq(S)
    OBVIOUS
<1>2. queue \in Seq(S \union {t})
    BY <1>1
<1> DEFINE T == S \union {t}
<1>3. queue \in Seq(T) /\ t \in T
    BY <1>2
<1> HIDE DEF T
<1>4. /\ Append(queue, t) \in Seq(T) /\ Len(Append(queue, t)) = Len(queue) + 1
      /\ \A k \in 1..Len(queue) : Append(queue, t)[k] = queue[k]
      /\ Append(queue, t)[Len(queue) + 1] = t
    BY <1>3, AppendProperties
<1> QED
    BY <1>4

(* The tables in the end. *)
LEMMA InTheEnd ==
    ASSUME NEW f, GInv(f)
    PROVE  /\ Len(queue) \in Nat
           /\ Sound(f[Len(queue)], 0, {})
           /\ \A k \in 0..Len(queue) : f[k] \in Tables
<1>1. Len(queue) \in Nat
    BY QueueLength DEF GInv, Server
<1> QED
    BY <1>1 DEF GInv, AllSound, Sound

(* What a handler changes: the gold and bags of the players P and mails of     *)
(* theirs, those of D; what it commits makes e of the tables d in the end.     *)
Handled(d, t, c, drafts, b, e, P, D) ==
    /\ Effect(d, t, b, drafts, e, 0, {})
    /\ t.login = None
    /\ Touches(d, b, P, D)
    /\ P \subseteq Player /\ \A p \in P : Online(p)
    /\ \A m \in D : \E p \in P : m \in DOMAIN Owned(p)
    /\ DOMAIN c = Player
    /\ \A q \in Player \ P : c[q] = char[q]
    /\ \A p \in P : /\ Current(b, p, c[p])
                    /\ c[p] = Offline \/ c[p].mailsLoaded = char[p].mailsLoaded

(* The characters after that. *)
Stays(d, e, P, q, r) ==
    /\ Current(e, q, r)
    /\ q \notin P => Same(q, d, e) /\ r.state = char[q].state
    /\ r.state = "online" /\ ~r.mailsLoaded =>
          Online(q) /\ ~char[q].mailsLoaded /\ SameMail(q, d, e)

(* A handler leaves every character what the tables will say. *)
LEMMA HandledChars ==
    ASSUME NEW f, GInv(f), NEW t, NEW c, NEW drafts, NEW b, NEW e, NEW P, NEW D,
           Handled(f[Len(queue)], t, c, drafts, b, e, P, D), CanPost(drafts),
           NEW q \in Player
    PROVE  Stays(f[Len(queue)], e, P, q, Received(c, drafts)[q])
<1> DEFINE d == f[Len(queue)]
           r == Received(c, drafts)[q]
<1>1. /\ d \in Tables /\ b \in Tables /\ e \in Tables /\ drafts \in Seq(Drafts) /\ mailid \in 1..MaxMail + 1
      /\ DraftsIn(e, drafts) /\ Touches(d, b, P, D) /\ Touches(b, e, {}, {})
    BY InTheEnd DEF Handled, Effect, Sound
<1>2. /\ IdsOf(drafts) \subseteq MailId
      /\ \A m \in IdsOf(drafts) : DraftOf(drafts, m) \in Drafts
    BY <1>1, IdsOfDrafts DEF Handled
<1>3. \A m \in RowsOf(d.mail) : m \in D => \E p \in P : /\ m \in DOMAIN Owned(p) /\ d.mail[m].receiver = p
                                                        /\ Online(p)
    <2> SUFFICES ASSUME NEW m \in RowsOf(d.mail), m \in D
                 PROVE  \E p \in P : m \in DOMAIN Owned(p) /\ d.mail[m].receiver = p /\ Online(p)
        OBVIOUS
    <2>1. PICK p \in P : m \in DOMAIN Owned(p)
        BY DEF Handled
    <2>2. Online(p) /\ p \in Player
        BY DEF Handled
    <2>3. Current(d, p, char[p])
        BY <2>2 DEF GInv, Chars
    <2>4. d.mail[m].receiver = p
        BY <2>1, <2>2, <2>3 DEF Current, Mailbox, IsThere, Owned, Online
    <2> QED
        BY <2>1, <2>2, <2>4
<1>4. q \notin P => Same(q, d, b)
    BY <1>1, <1>3, NotTouched
<1>5. Same(q, b, e)
    BY <1>1, NotTouched
<1>6. Current(d, q, char[q])
    BY DEF GInv, Chars
<1> HIDE DEF d
<1>7. Current(b, q, c[q])
    <2>1. CASE q \in P
        BY <2>1 DEF Handled
    <2>2. CASE q \notin P
        <3>1. c[q] = char[q]
            BY <2>2 DEF Handled
        <3> QED
            BY <1>1, <1>4, <1>6, <2>2, <3>1, SameCurrent
    <2> QED
        BY <2>1, <2>2
<1>8. Current(e, q, c[q])
    BY <1>1, <1>5, <1>7, SameCurrent
<1>9. /\ Current(e, q, r) /\ r.state = c[q].state
      /\ r.mailsLoaded = c[q].mailsLoaded
    BY <1>1, <1>2, <1>8, ReceivedCurrent
<1> HIDE DEF r
<1>10. q \notin P => Same(q, d, e) /\ r.state = char[q].state
    BY <1>1, <1>4, <1>5, <1>9, SameBoth DEF Handled
<1>11. ASSUME r.state = "online", ~r.mailsLoaded
       PROVE  Online(q) /\ ~char[q].mailsLoaded /\ SameMail(q, d, e)
    <2>1. CASE q \notin P
        <3>1. Online(q) /\ ~char[q].mailsLoaded
            BY <1>9, <1>11, <2>1 DEF Handled, Online
        <3> QED
            BY <1>10, <2>1, <3>1 DEF Same
    <2>2. CASE q \in P
        <3>1. c[q] # Offline
            <4>1. Offline.state # "online"
                BY DEF Offline
            <4> HIDE DEF r
            <4> QED
                BY <1>9, <1>11, <4>1
        <3>2. Online(q) /\ ~char[q].mailsLoaded
            BY <1>9, <1>11, <2>2, <3>1 DEF Handled
        <3>3. char[q].mails = <<>>
            BY <1>6, <3>2 DEF Current
        <3>4. \A m \in RowsOf(d.mail) : d.mail[m].receiver = q => m \notin D
            BY <1>3, <3>3 DEF d, Owned
        <3>5. SameMail(q, d, b)
            BY <1>1, <3>4, NotTouched DEF d
        <3> QED
            BY <1>1, <1>5, <3>2, <3>5, SameMailBoth DEF Same, d
    <2> QED
        BY <2>1, <2>2
<1> QED
    BY <1>9, <1>10, <1>11 DEF r, d, Stays

(* An operation s that is committed keeps the invariant, if it makes tables e  *)
(* of those in the end, in which all is right, and that agree with memory.     *)
Commits(d, s, e, P) ==
    /\ phase = "up" /\ Len(queue) < MaxPending
    /\ e = Apply(d, s) /\ Sound(e, 0, {})
    /\ \A p \in P : char[p].state # "loading"

(* The step that commits s, by which the players P change.                     *)
Committed(d, s, e, P) ==
    /\ phase' = "up" /\ crashes' = crashes /\ auctionid' \in 1..MaxAuction + 1
    /\ queue' = Append(queue, s) /\ db' = db
    /\ DOMAIN char' = Player
    /\ s.login # None => /\ s.login \in P \intersect Player /\ char'[s.login].state = "loading"
                         /\ Same(s.login, d, e)
    /\ mailid' \in 1..MaxMail + 1 /\ mailid' >= mailid
    /\ \A m \in RowsOf(e.mail) : m < mailid'
    /\ \A q \in Player : Stays(d, e, P, q, char'[q])
    /\ House(e)'

(* A commit adds one to the chain of tables, and the invariant stays. *)
LEMMA CommitKeeps ==
    ASSUME NEW f, GInv(f), NEW s, NEW e, NEW P,
           Commits(f[Len(queue)], s, e, P), Committed(f[Len(queue)], s, e, P)
    PROVE  \E g : GInv(g)'
<1> DEFINE n == Len(queue)
           d == f[n]
<1>1. n \in Nat /\ (\A k \in 0..n : f[k] \in Tables) /\ d \in Tables
    BY InTheEnd
<1>2. /\ Len(queue) < MaxPending /\ queue' = Append(queue, s) /\ db' = db
      /\ Sound(e, 0, {}) /\ e = Apply(d, s)
    BY DEF Commits, Committed
<1>3. (\E S : queue \in Seq(S)) /\ mailid \in Int
    BY DEF GInv, Server
<1>4. /\ Len(queue') = n + 1 /\ queue'[n + 1] = s /\ \A k \in 1..n : queue'[k] = queue[k]
      /\ (\E S : queue \in Seq(S))'
    BY <1>2, <1>3, QueueGrows
<1>7. PICK g : g = [k \in 0..(n + 1) |-> IF k = n + 1 THEN e ELSE f[k]]
    OBVIOUS
<1>8. g[n + 1] = e /\ \A k \in 0..n : g[k] = f[k]
    BY <1>1, <1>7
<1>9. mailid' \in 1..MaxMail + 1 /\ mailid' >= mailid /\ mailid' \in Int
    BY DEF Committed
<1>10. Chain(g)'
    <2>1. g[0] = db'
        BY <1>1, <1>2, <1>8 DEF GInv, Chain
    <2>2. \A k \in 1..n : g[k] = Apply(g[k - 1], queue'[k])
        BY <1>1, <1>4, <1>8 DEF GInv, Chain
    <2>3. g[n + 1] = Apply(g[n], queue'[n + 1])
        BY <1>1, <1>2, <1>4, <1>8
    <2> QED
        BY <1>1, <1>4, <2>1, <2>2, <2>3 DEF Chain
<1>11. AllSound(g)'
    <2>1. \A m \in RowsOf(e.mail) : m < mailid'
        BY DEF Committed
    <2>2. \A k \in 0..n : Sound(f[k], 0, {}) /\ \A m \in RowsOf(f[k].mail) : m < mailid'
        <3>1. \A k \in 0..n : RowsOf(f[k].mail) \subseteq MailId
            BY <1>1, Rows
        <3>2. \A m \in MailId : m \in Int
            BY DEF MailId
        <3>3. \A k \in 0..n : Sound(f[k], 0, {}) /\ \A m \in RowsOf(f[k].mail) : m < mailid
            BY DEF GInv, AllSound, Commits
        <3> TAKE k \in 0..n
        <3>4. \A m \in RowsOf(f[k].mail) : m \in Int /\ m < mailid
            BY <3>1, <3>2, <3>3
        <3>5. \A m \in RowsOf(f[k].mail) : m < mailid'
            BY <1>3, <1>9, <3>4
        <3> QED
            BY <3>3, <3>5
    <2>3. \A k \in 0..(n + 1) : Sound(g[k], 0, {}) /\ \A m \in RowsOf(g[k].mail) : m < mailid'
        BY <1>1, <1>2, <1>8, <2>1, <2>2
    <2> QED
        BY <1>4, <2>3 DEF AllSound
<1>12. \A q \in Player :
          /\ Current(e, q, char'[q])
          /\ q \notin P => Same(q, d, e) /\ char'[q].state = char[q].state
          /\ char'[q].state = "online" /\ ~char'[q].mailsLoaded
               => Online(q) /\ ~char[q].mailsLoaded /\ SameMail(q, d, e)
    BY DEF Committed, Stays
<1>a. e \in Tables
    BY <1>2 DEF Sound
<1>13. Logins(g)'
    <2> SUFFICES ASSUME NEW k \in 1..(n + 1), queue'[k].login # None
                 PROVE  /\ queue'[k].login \in Player
                        /\ char'[queue'[k].login].state = "loading"
                        /\ \A j \in 1..(n + 1) : queue'[j].login = queue'[k].login => j = k
                        /\ \A j \in (k - 1)..(n + 1) : Same(queue'[k].login, g[j], g[n + 1])
        BY <1>4 DEF Logins
    <2>0. \A j \in 1..n : queue[j].login # None =>
             /\ queue[j].login \in Player /\ char[queue[j].login].state = "loading"
             /\ queue[j].login \notin P
        BY DEF GInv, Logins, Commits
    <2>a. s.login # None => s.login \in P \intersect Player /\ char'[s.login].state = "loading"
        BY DEF Committed
    <2>b. CASE k \in 1..n
        <3> DEFINE q == queue[k].login
        <3>1. queue'[k].login = q /\ q # None
            BY <1>1, <1>4, <2>b
        <3>2. /\ q \in Player /\ char[q].state = "loading"
              /\ \A j \in 1..n : queue[j].login = q => j = k
              /\ \A j \in (k - 1)..n : Same(q, f[j], d)
            BY <2>b, <3>1 DEF GInv, Logins
        <3>3. q \notin P
            BY <2>0, <2>b, <3>1
        <3> HIDE DEF q
        <3>4. char'[q].state = "loading" /\ Same(q, d, e)
            BY <1>12, <3>2, <3>3
        <3>5. \A j \in 1..(n + 1) : queue'[j].login = q => j = k
            BY <1>1, <1>4, <2>a, <3>1, <3>2, <3>3
        <3>6. \A j \in (k - 1)..n : Same(q, g[j], e)
            <4>1. \A j \in (k - 1)..n : j \in 0..n
                BY <1>1, <2>b
            <4> QED
                BY <1>1, <1>8, <1>a, <3>2, <3>4, <4>1, SameBoth
        <3>7. Same(q, g[n + 1], e)
            BY <1>8 DEF Same, SameMail
        <3> QED
            BY <1>1, <1>8, <3>1, <3>2, <3>4, <3>5, <3>6, <3>7
    <2>c. CASE k = n + 1
        <3>1. queue'[k].login = s.login /\ s.login # None
            BY <1>4, <2>c
        <3>2. \A j \in 1..(n + 1) : queue'[j].login = s.login => j = k
            BY <1>1, <1>4, <2>0, <2>a, <2>c, <3>1
        <3>4. Same(s.login, g[n + 1], e)
            BY <1>8 DEF Same, SameMail
        <3>5. Same(s.login, g[n], e)
            BY <1>1, <1>8, <3>1 DEF Committed
        <3> QED
            BY <1>1, <1>8, <2>a, <2>c, <3>1, <3>2, <3>4, <3>5
    <2> QED
        BY <1>1, <2>b, <2>c
<1>14. Chars(g)'
    <2> SUFFICES ASSUME NEW p \in Player
                 PROVE  /\ Current(e, p, char'[p])
                        /\ char'[p].state = "online" /\ ~char'[p].mailsLoaded =>
                              \A j \in 0..(n + 1) : SameMail(p, g[j], e)
        BY <1>4, <1>8 DEF Chars, Online
    <2>1. Current(e, p, char'[p])
        BY <1>12
    <2>2. ASSUME char'[p].state = "online", ~char'[p].mailsLoaded
          PROVE  \A j \in 0..(n + 1) : SameMail(p, g[j], e)
        <3>1. Online(p) /\ ~char[p].mailsLoaded /\ SameMail(p, d, e)
            BY <1>12, <2>2
        <3>2. \A j \in 0..n : SameMail(p, f[j], d)
            BY <3>1 DEF GInv, Chars
        <3>3. \A j \in 0..n : SameMail(p, f[j], e)
            BY <1>1, <1>a, <3>1, <3>2, SameMailBoth
        <3>4. SameMail(p, g[n + 1], e)
            BY <1>8 DEF SameMail
        <3> QED
            BY <1>1, <1>8, <3>3, <3>4
    <2> QED
        BY <2>1, <2>2
<1>15. Server'
    <2>2. Len(queue') <= MaxPending + MaxMail
        BY <1>1, <1>2, <1>4, StoreAssumption
    <2> QED
        BY <1>4, <1>9, <2>2 DEF Server, GInv, Committed
<1>16. House(g[Len(queue)])'
    <2>1. g[Len(queue')] = e
        BY <1>4, <1>8
    <2>2. House(e)' /\ House(e)' = House(g[Len(queue)])'
        BY <2>1 DEF House, Committed
    <2> QED
        BY <2>2
<1> QED
    BY <1>10, <1>11, <1>13, <1>14, <1>15, <1>16 DEF GInv

(* A handler does that. *)
LEMMA HandlerKeeps ==
    ASSUME NEW f, GInv(f), phase = "up", phase' = "up", crashes' = crashes,
           auctionid' \in 1..MaxAuction + 1,
           NEW t, NEW c, NEW drafts, NEW b, NEW e, NEW P, NEW D,
           Handled(f[Len(queue)], t, c, drafts, b, e, P, D),
           PostAndCommit(t, c, drafts), House(e)'
    PROVE  \E g : GInv(g)'
<1> DEFINE n == Len(queue)
           d == f[n]
           s == Posted(t, drafts)
<1>1. d \in Tables
    BY InTheEnd
<1>2. /\ CanPost(drafts) /\ Len(queue) < MaxPending /\ queue' = Append(queue, s) /\ db' = db
      /\ char' = Received(c, drafts) /\ mailid' = mailid + Len(drafts)
    BY DEF PostAndCommit, CommitTransaction
<1>3. mailid \in 1..MaxMail + 1
    BY DEF GInv, Server
<1>5. s.login = None
    BY PostedIs DEF Handled, Effect
<1>6. /\ b \in Tables /\ Sound(e, 0, {}) /\ e = Apply(d, s) /\ drafts \in Seq(Drafts)
      /\ RowsOf(e.mail) \subseteq RowsOf(b.mail) \union IdsOf(drafts)
      /\ \A m \in RowsOf(b.mail) : m < mailid
    BY DEF Handled, Effect
<1> HIDE DEF s
<1>9. /\ mailid' \in 1..MaxMail + 1 /\ mailid' >= mailid /\ mailid' \in Int /\ mailid \in Int
      /\ \A m \in IdsOf(drafts) : m < mailid'
    BY <1>2, <1>3, <1>6, IdsOfDrafts
<1>10. \A m \in RowsOf(e.mail) : m < mailid'
    <2>1. RowsOf(b.mail) \subseteq MailId
        BY <1>6, Rows
    <2>2. \A m \in MailId : m \in Int
        BY DEF MailId
    <2> QED
        BY <1>6, <1>9, <2>1, <2>2
<1>11. \A q \in Player : Stays(d, e, P, q, char'[q])
    <2> TAKE q \in Player
    <2>1. Stays(f[Len(queue)], e, P, q, Received(c, drafts)[q])
        BY <1>2, HandledChars
    <2>2. char'[q] = Received(c, drafts)[q]
        BY <1>2
    <2> QED
        BY <2>1, <2>2
<1>12. DOMAIN char' = Player
    BY <1>2 DEF Received
<1>13. Commits(d, s, e, P)
    BY <1>2, <1>6 DEF Commits, Handled, Online
<1>14. Committed(d, s, e, P)
    BY <1>2, <1>5, <1>9, <1>10, <1>11, <1>12 DEF Committed
<1> QED
    BY <1>13, <1>14, CommitKeeps

-----------------------------------------------------------------------------
(* The handlers. Each commits an operation that makes the last tables what     *)
(* memory says then, or changes only what is not in the tables.                *)

(* The house does not change. *)
LEMMA HouseStays ==
    ASSUME NEW d, NEW e, House(d), UNCHANGED house, e.auctionhouse = d.auctionhouse
    PROVE  House(e)'
BY DEF House, house

(* Mails in memory are in the tables, for who has them. *)
LEMMA OwnedAreThere ==
    ASSUME NEW f, GInv(f), NEW p \in Player
    PROVE  /\ Current(f[Len(queue)], p, char[p]) /\ char[p] \in CharRec
           /\ Online(p) => Mailbox(f[Len(queue)], p, Owned(p))
           /\ \A m \in DOMAIN Owned(p) : /\ Online(p) /\ m \in MailId
                                         /\ Owned(p)[m] \in MemoryMail
                                         /\ IsThere(f[Len(queue)], p, m, Owned(p)[m])
                                         /\ char[p].mailsLoaded
<1>1. Current(f[Len(queue)], p, char[p])
    BY DEF GInv, Chars
<1>2. Online(p) => Mailbox(f[Len(queue)], p, Owned(p))
    BY <1>1 DEF Current, Online, Owned
<1>3. DOMAIN <<>> = {}
    OBVIOUS
<1>4. \A m \in DOMAIN Owned(p) : Online(p) /\ char[p].mailsLoaded
    BY <1>1, <1>3 DEF Current, Online, Owned
<1>5. Online(p) => \A m \in DOMAIN Owned(p) : /\ m \in MailId /\ Owned(p)[m] \in MemoryMail
                                              /\ IsThere(f[Len(queue)], p, m, Owned(p)[m])
    BY <1>2, Mails DEF Mailbox
<1> QED
    BY <1>1, <1>2, <1>4, <1>5 DEF Current

(* Who is not touched stays, and who is touched keeps the mails he has not     *)
(* loaded.                                                                     *)
LEMMA OthersStay ==
    ASSUME NEW f, GInv(f), NEW e \in Tables, NEW P \in SUBSET Player, NEW D,
           Touches(f[Len(queue)], e, P, D), \A m \in D : \E p \in P : m \in DOMAIN Owned(p),
           NEW q \in Player
    PROVE  /\ q \notin P => Stays(f[Len(queue)], e, P, q, char[q])
           /\ ~char[q].mailsLoaded => SameMail(q, f[Len(queue)], e)
<1> DEFINE d == f[Len(queue)]
<1>1. d \in Tables
    BY InTheEnd
<1>2. \A m \in D : \E p \in P : m \in DOMAIN Owned(p) /\ d.mail[m].receiver = p
    BY OwnedAreThere DEF IsThere
<1>3. q \notin P => Same(q, d, e)
    BY <1>2, NotTouched
<1>4. Current(d, q, char[q])
    BY OwnedAreThere
<1>5. ~char[q].mailsLoaded => SameMail(q, d, e)
    <2> SUFFICES ASSUME ~char[q].mailsLoaded PROVE SameMail(q, d, e)
        OBVIOUS
    <2>1. \A m \in D : d.mail[m].receiver # q
        BY <1>2, OwnedAreThere
    <2> QED
        BY <2>1, NotTouched
<1> HIDE DEF d
<1>6. q \notin P => Current(e, q, char[q])
    BY <1>1, <1>3, <1>4, SameCurrent
<1> QED
    BY <1>3, <1>5, <1>6 DEF Stays, Online, d

(* What a save of all writes. *)
LEMMA SavedAllMoves ==
    ASSUME NEW f, GInv(f), NEW p \in Player, Online(p)
    PROVE  \E e : LET d == f[Len(queue)]
                      c == IF char[p].mailsUpdated THEN MailSaved(char[p]) ELSE char[p]
                  IN  /\ e = Apply(d, SavedAll(p)) /\ SavedAll(p).login = None
                      /\ Sound(e, 0, {}) /\ Touches(d, e, {p}, DOMAIN Owned(p))
                      /\ Current(e, p, c) /\ c.mailsLoaded = char[p].mailsLoaded /\ c.state = "online"
                      /\ e.auctionhouse = d.auctionhouse /\ RowsOf(e.mail) \subseteq RowsOf(d.mail)
<1> DEFINE d == f[Len(queue)]
           t == SaveGoldToDB(NoWrites, p, char[p])
           c == IF char[p].mailsUpdated THEN MailSaved(char[p]) ELSE char[p]
<1>1. /\ d \in Tables /\ Sound(d, 0, {}) /\ Current(d, p, char[p]) /\ char[p] \in CharRec
      /\ char[p].state = "online"
    BY InTheEnd, OwnedAreThere DEF Sound, Online
<1>2. /\ t.money = Override(Only(p, char[p].money), <<>>) /\ t.inventory = <<>> /\ t.listed = <<>>
      /\ t.unlisted = {} /\ t.cleared = {} /\ t.created = {} /\ t.lost = {}
      /\ t.auctionhouse = <<>> /\ t.fees = 0 /\ t.mail = <<>> /\ t.destroyed = {} /\ t.login = None
      /\ DOMAIN t = DOMAIN NoWrites
    BY DEF SaveGoldToDB, NoWrites
<1> HIDE DEF t, d
<1>3. /\ d.money \in [Player -> Nat] /\ d.inventory \in [Item -> Player \union {None}]
      /\ d.mail_items \in [Item -> MailId \union {None}] /\ d.fees \in Nat
      /\ d.auctionhouse \in [AuctionId -> AuctionRow \union {None}]
      /\ d.mail \in [MailId -> MailRow \union {None}]
    BY <1>1 DEF Tables
<1>4. Override(t.money, d.money) = d.money
    <2>1. char[p].money = d.money[p]
        BY <1>1 DEF Current
    <2>2. Override(t.money, d.money) = [d.money EXCEPT ![p] = char[p].money]
        <3>1. NoWrites.money = <<>>
            BY DEF NoWrites
        <3>2. GoldIsWritten(d, NoWrites, p, char[p].money, t)
            BY <1>1, <3>1, GoldWritten DEF t
        <3> QED
            BY <3>2 DEF GoldIsWritten
    <2> QED
        BY <1>3, <2>1, <2>2
<1>5. Override(t.inventory, d.inventory) = d.inventory
    BY <1>1, <1>2, NotWritten
<1>6. ~Refused(d, t) /\ Override(t.listed, Unlisted(d, t)) = d.mail_items /\ Unlisted(d, t) = d.mail_items
    BY <1>1, <1>2, NothingListed
<1>7. Written(d.auctionhouse, t.auctionhouse, AuctionColumns) = d.auctionhouse
    BY <1>1, <1>2, NotWritten
<1>8. Written(d.mail, t.mail, MailColumns) = d.mail
    BY <1>1, <1>2, NotWritten
<1>9. OtherWrites(d, t, d) /\ NoMails(t)
    BY <1>2, <1>3, <1>4, <1>5, <1>6, <1>7 DEF OtherWrites, NoMails
<1>10. CASE char[p].mailsUpdated
    <2>1. ChangedRows(d, char[p], d)
        <3>1. \A m \in Changed(char[p]) : /\ d.mail[m] # None /\ m \in MailId
                                          /\ d.mail[m].money = char[p].mails[m].money
                                          /\ d.mail[m].cod = char[p].mails[m].cod
            BY OwnedAreThere DEF Changed, IsThere, Owned, d
        <3>2. \A m \in Changed(char[p]) : d.mail[m] \in MailRow
            BY <1>3, <3>1
        <3>3. \A row \in MailRow : WithSums(row, row.money, row.cod) = row
            BY DEF MailRow, WithSums
        <3> QED
            BY <3>1, <3>2, <3>3 DEF ChangedRows
    <2>2. \E e : MailIsSaved(d, t, p, char[p], d, e, 0, {})
        BY <1>1, <1>9, <2>1, SaveMailMoves
    <2>3. PICK e : MailIsSaved(d, t, p, char[p], d, e, 0, {})
        BY <2>2
    <2>4. SavedAll(p) = SaveMail(t, char[p]) /\ c = MailSaved(char[p])
        BY <1>10 DEF SavedAll, t
    <2>5. Touches(d, e, {p}, DOMAIN Owned(p))
        BY <2>3 DEF MailIsSaved, Touches, Deleted, Owned
    <2> QED
        BY <1>1, <1>2, <2>3, <2>4, <2>5 DEF MailIsSaved, d
<1>11. CASE ~char[p].mailsUpdated
    <2>1. SavedAll(p) = t /\ c = char[p]
        BY <1>11 DEF SavedAll, t
    <2>2. /\ (d.instance \union t.created) \ t.destroyed = d.instance /\ d.fees + t.fees = d.fees
          /\ d.lost \union t.lost = d.lost
        BY <1>2, <1>3
    <2>3. Apply(d, t) = d
        BY <1>1, <1>4, <1>5, <1>6, <1>7, <1>8, <2>2, ApplyIs
    <2>4. Touches(d, d, {p}, DOMAIN Owned(p))
        BY DEF Touches
    <2> QED
        BY <1>1, <1>2, <2>1, <2>3, <2>4 DEF d
<1> QED
    BY <1>1, <1>10, <1>11 DEF CharRec

(* Players are in the world only while the server runs. *)
LEMMA OnlineUp ==
    ASSUME NEW f, GInv(f), NEW p \in Player, char[p].state # "offline"
    PROVE  phase = "up"
<1>1. Offline.state = "offline"
    BY DEF Offline
<1> QED
    BY <1>1 DEF GInv, Server

(* One character changes while an operation is committed. *)
LEMMA OneCommits ==
    ASSUME NEW f, GInv(f), NEW p \in Player, NEW s, NEW e, NEW c, NEW D,
           phase = "up", char[p].state # "loading",
           CommitTransaction(s), char' = [char EXCEPT ![p] = c], mailid' = mailid, UNCHANGED house,
           e = Apply(f[Len(queue)], s), Sound(e, 0, {}), Touches(f[Len(queue)], e, {p}, D),
           \A m \in D : m \in DOMAIN Owned(p),
           e.auctionhouse = f[Len(queue)].auctionhouse,
           RowsOf(e.mail) \subseteq RowsOf(f[Len(queue)].mail),
           s.login # None => /\ s.login = p /\ c.state = "loading"
                             /\ Same(p, f[Len(queue)], e),
           Current(e, p, c),
           c.state = "online" /\ ~c.mailsLoaded => Online(p) /\ ~char[p].mailsLoaded
    PROVE  \E g : GInv(g)'
<1> DEFINE d == f[Len(queue)]
<1>1. /\ d \in Tables /\ e \in Tables /\ House(d) /\ mailid \in 1..MaxMail + 1 /\ auctionid \in 1..MaxAuction + 1
      /\ DOMAIN char = Player
    BY InTheEnd DEF GInv, Server, Sound
<1>2. \A m \in RowsOf(e.mail) : m < mailid
    <2>1. Len(queue) \in 0..Len(queue)
        BY InTheEnd
    <2>2. \A m \in RowsOf(d.mail) : m < mailid
        BY <2>1 DEF GInv, AllSound
    <2> QED
        BY <2>2
<1>3. House(e)'
    BY <1>1, HouseStays
<1>4. \A q \in Player : Stays(d, e, {p}, q, char'[q])
    <2> TAKE q \in Player
    <2>1. /\ q \notin {p} => Stays(d, e, {p}, q, char[q])
          /\ ~char[q].mailsLoaded => SameMail(q, d, e)
        BY <1>1, OthersStay
    <2>2. CASE q # p
        BY <1>1, <2>1, <2>2
    <2>3. CASE q = p
        BY <1>1, <2>1, <2>3 DEF Stays
    <2> QED
        BY <2>2, <2>3
<1>5. Commits(d, s, e, {p})
    BY DEF Commits, CommitTransaction
<1>6. Committed(d, s, e, {p})
    <2>1. phase' = "up" /\ crashes' = crashes /\ auctionid' = auctionid
        BY DEF house
    <2>2. queue' = Append(queue, s) /\ db' = db
        BY DEF CommitTransaction
    <2>3. DOMAIN char' = Player /\ char'[p] = c
        BY <1>1
    <2>4. mailid' >= mailid
        BY <1>1
    <2> QED
        BY <1>1, <1>2, <1>3, <1>4, <2>1, <2>2, <2>3, <2>4 DEF Committed
<1> QED
    BY <1>5, <1>6, CommitKeeps

(* The save of a character. *)
LEMMA SaveStep ==
    ASSUME NEW f, GInv(f), NEW p \in Player, Save(p), UNCHANGED house
    PROVE  \E g : GInv(g)'
<1> DEFINE d == f[Len(queue)]
           c == IF char[p].mailsUpdated THEN MailSaved(char[p]) ELSE char[p]
<1>1. Online(p) /\ CommitTransaction(SavedAll(p)) /\ mailid' = mailid
    BY DEF Save
<1>2. char' = [char EXCEPT ![p] = c]
    BY DEF Save
<1> HIDE DEF c
<1>3. PICK e : /\ e = Apply(d, SavedAll(p)) /\ SavedAll(p).login = None
               /\ Sound(e, 0, {}) /\ Touches(d, e, {p}, DOMAIN Owned(p))
               /\ Current(e, p, c) /\ c.mailsLoaded = char[p].mailsLoaded /\ c.state = "online"
               /\ e.auctionhouse = d.auctionhouse /\ RowsOf(e.mail) \subseteq RowsOf(d.mail)
    BY <1>1, SavedAllMoves DEF c
<1>4. phase = "up" /\ char[p].state # "loading"
    BY <1>1, OnlineUp DEF Online
<1> DEFINE s == SavedAll(p)
           D == DOMAIN Owned(p)
<1>5. CommitTransaction(s) /\ s.login = None /\ e = Apply(d, s) /\ Touches(d, e, {p}, D) /\ \A m \in D : m \in DOMAIN Owned(p)
    BY <1>1, <1>3
<1> HIDE DEF s, D
<1> QED
    BY <1>1, <1>2, <1>3, <1>4, <1>5, OneCommits

(* A logout. *)
LEMMA LogoutStep ==
    ASSUME NEW f, GInv(f), NEW p \in Player, Logout(p), UNCHANGED house
    PROVE  \E g : GInv(g)'
<1> DEFINE d == f[Len(queue)]
           b == IF char[p].mailsUpdated THEN MailSaved(char[p]) ELSE char[p]
           s == SavedAll(p)
           D == DOMAIN Owned(p)
<1>1. Online(p) /\ CommitTransaction(s) /\ mailid' = mailid /\ char' = [char EXCEPT ![p] = Offline]
    BY DEF Logout
<1> HIDE DEF b
<1>2. PICK e : /\ e = Apply(d, s) /\ s.login = None
               /\ Sound(e, 0, {}) /\ Touches(d, e, {p}, D)
               /\ e.auctionhouse = d.auctionhouse /\ RowsOf(e.mail) \subseteq RowsOf(d.mail)
    BY <1>1, SavedAllMoves DEF b
<1>3. phase = "up" /\ char[p].state # "loading"
    BY <1>1, OnlineUp DEF Online
<1>4. Current(e, p, Offline) /\ Offline.state # "online"
    BY OfflineIsCurrent DEF Offline
<1>5. \A m \in D : m \in DOMAIN Owned(p)
    OBVIOUS
<1> HIDE DEF s, D
<1> QED
    BY <1>1, <1>2, <1>3, <1>4, <1>5, OneCommits

(* A login begins. *)
LEMMA LoginStep ==
    ASSUME NEW f, GInv(f), NEW p \in Player, Login(p), phase = "up", UNCHANGED house
    PROVE  \E g : GInv(g)'
<1> DEFINE d == f[Len(queue)]
           s == [NoWrites EXCEPT !.login = p]
           c == [char[p] EXCEPT !.state = "loading"]
<1>1. /\ char[p].state = "offline" /\ CommitTransaction(s) /\ mailid' = mailid
      /\ char' = [char EXCEPT ![p] = c]
    BY DEF Login
<1>2. /\ s.money = <<>> /\ s.inventory = <<>> /\ s.listed = <<>> /\ s.auctionhouse = <<>>
      /\ s.fees = 0 /\ s.mail = <<>> /\ s.destroyed = {} /\ s.login = p
      /\ s.unlisted = {} /\ s.cleared = {} /\ s.created = {} /\ s.lost = {}
    BY DEF NoWrites
<1>3. d \in Tables /\ Sound(d, 0, {}) /\ Current(d, p, char[p]) /\ char[p] \in CharRec
    BY InTheEnd, OwnedAreThere DEF Sound
<1> HIDE DEF s, d
<1>4. d = Apply(d, s)
    <2>1. /\ Override(<<>>, d.money) = d.money
          /\ Override(<<>>, d.inventory) = d.inventory
          /\ Written(d.mail, <<>>, MailColumns) = d.mail
          /\ Written(d.auctionhouse, <<>>, AuctionColumns) = d.auctionhouse
        BY <1>3, NotWritten
    <2>2. d.fees + 0 = d.fees /\ (d.instance \union {}) \ {} = d.instance /\ d.lost \union {} = d.lost
        BY <1>3 DEF Tables
    <2>3. ~Refused(d, s) /\ Override(s.listed, Unlisted(d, s)) = d.mail_items
        BY <1>2, <1>3, NothingListed
    <2> QED
        BY <1>2, <1>3, <2>1, <2>2, <2>3, ApplyIs
<1>5. /\ c \in CharRec /\ c.state = "loading" /\ c.mails = char[p].mails /\ c.mailsLoaded = char[p].mailsLoaded
      /\ c.mMitems = char[p].mMitems
    BY <1>3 DEF CharRec
<1>6. Current(d, p, c)
    BY <1>1, <1>3, <1>5 DEF Current
<1>7. Touches(d, d, {p}, {}) /\ Same(p, d, d)
    BY DEF Touches, Same, SameMail
<1> HIDE DEF c
<1>8. char[p].state # "loading" /\ c.state # "online" /\ p # None
    BY <1>1, <1>5, Keys
<1> DEFINE D == {}
<1>9. Touches(d, d, {p}, D) /\ \A m \in D : m \in DOMAIN Owned(p)
    BY <1>7
<1> HIDE DEF D
<1> QED
    BY <1>1, <1>2, <1>3, <1>4, <1>5, <1>6, <1>7, <1>8, <1>9, OneCommits DEF d

(* One character in the world changes in memory. *)
LEMMA MemoryChanges ==
    ASSUME NEW f, GInv(f), NEW p \in Player, Online(p), NEW c, UNCHANGED <<store, mailid, house>>,
           char' = [char EXCEPT ![p] = c], Current(f[Len(queue)], p, c), c.state = "online",
           ~c.mailsLoaded => ~char[p].mailsLoaded
    PROVE  GInv(f)'
<1>1. /\ DOMAIN char = Player /\ db' = db /\ queue' = queue /\ mailid' = mailid /\ phase' = phase
      /\ auctions' = auctions /\ mAitems' = mAitems /\ auctionid' = auctionid /\ crashes' = crashes
    BY DEF GInv, Server, store, house
<1>2. \A q \in Player : char'[q] = IF q = p THEN c ELSE char[q]
    BY <1>1
<1>3. Chain(f)' /\ AllSound(f)' /\ House(f[Len(queue)])'
    BY <1>1 DEF GInv, Chain, AllSound, House
<1>4. phase = "up"
    BY OnlineUp DEF Online
<1>5. Server'
    BY <1>1, <1>4 DEF GInv, Server
<1>6. Logins(f)'
    BY <1>1, <1>2 DEF GInv, Logins, Online
<1>7. Chars(f)'
    BY <1>1, <1>2 DEF GInv, Chars, Online
<1> QED
    BY <1>3, <1>5, <1>6, <1>7 DEF GInv

(* The mails are loaded. *)
LEMMA LoadMailStep ==
    ASSUME NEW f, GInv(f), NEW p \in Player, LoadMail(p), UNCHANGED house
    PROVE  \E g : GInv(g)'
<1> DEFINE d == f[Len(queue)]
           rows == {m \in RowsOf(db.mail) : db.mail[m].receiver = p}
           mails == [m \in rows |-> InMemory(db.mail[m], ItemIn(db, m))]
           items == char[p].mMitems \union ({ItemIn(db, m) : m \in rows} \ {None})
           c == [char[p] EXCEPT !.mailsLoaded = TRUE, !.mails = mails, !.mMitems = items]
<1>1. Online(p) /\ ~char[p].mailsLoaded /\ UNCHANGED <<store, mailid>>
    BY DEF LoadMail
<1>2. /\ Current(d, p, char[p]) /\ char[p] \in CharRec /\ Sound(d, 0, {}) /\ DOMAIN char = Player
      /\ Len(queue) \in Nat
    BY InTheEnd, OwnedAreThere DEF GInv, Server
<1>3. Sound(db, 0, {}) /\ SameMail(p, db, d) /\ db \in Tables
    BY <1>1, <1>2 DEF GInv, Chain, AllSound, Chars, Sound
<1>4. char' = [char EXCEPT ![p] = c]
    BY <1>2 DEF LoadMail
<1>11. \A m \in rows : ItemIn(db, m) \in Item \union {None} /\ mails[m].item = ItemIn(db, m)
    <2> SUFFICES ASSUME NEW m \in rows PROVE ItemIn(db, m) \in Item \union {None} /\ mails[m].item = ItemIn(db, m)
        OBVIOUS
    <2>1. m \in MailId
        BY <1>3, Rows
    <2>2. ItemIn(db, m) \in Item \union {None}
        BY <1>3, <2>1, ItemInside
    <2> QED
        BY <2>2 DEF InMemory
<1>12. items \subseteq Item /\ \A m \in rows : mails[m].item \in items \union {None}
    <2>1. char[p].mMitems \subseteq Item
        BY <1>2 DEF CharRec
    <2> HIDE DEF mails, rows
    <2> QED
        BY <1>11, <2>1
<1>5. \A m \in rows : /\ m \in MailId /\ mails[m] \in MemoryMail
                      /\ IsThere(d, p, m, mails[m])
    <2> SUFFICES ASSUME NEW m \in rows
                 PROVE  m \in MailId /\ mails[m] \in MemoryMail /\ IsThere(d, p, m, mails[m])
        OBVIOUS
    <2> DEFINE row == db.mail[m]
               i == ItemIn(db, m)
    <2>1. m \in MailId /\ row \in MailRow /\ row.receiver = p /\ m \in RowsOf(db.mail) /\ row # None
        BY <1>3, Rows
    <2>2. d.mail[m] = row /\ Inside(d, m) = Inside(db, m)
        BY <1>3, <2>1 DEF SameMail
    <2>3. Inside(db, m) = {i} \ {None} /\ i \in Item \union {None}
        BY <1>3, <2>1, ItemInside
    <2>4. mails[m] = InMemory(row, i)
        OBVIOUS
    <2> HIDE DEF row, i, mails
    <2>5. InMemory(row, i) \in MemoryMail
        BY <2>1, <2>3 DEF InMemory, MailRow, MemoryMail
    <2>6. IsThere(d, p, m, InMemory(row, i))
        BY <2>1, <2>2, <2>3 DEF IsThere, InMemory
    <2> QED
        BY <2>1, <2>4, <2>5, <2>6
<1>6. mails \in MailMaps /\ DOMAIN mails = rows
    <2>1. DOMAIN mails = rows /\ mails = [m \in rows |-> mails[m]]
        OBVIOUS
    <2> HIDE DEF mails
    <2>2. mails \in [rows -> MemoryMail] /\ rows \in SUBSET MailId
        BY <1>5, <2>1
    <2> QED
        BY <2>1, <2>2 DEF MailMaps
<1> HIDE DEF mails, items
<1>7. Mailbox(d, p, mails)
    BY <1>5, <1>6 DEF Mailbox
<1>8. /\ c \in CharRec /\ c.state = char[p].state /\ c.money = char[p].money /\ c.bag = char[p].bag
      /\ c.mails = mails /\ c.mailsLoaded = TRUE
      /\ c.mMitems = items
    BY <1>2, <1>6, <1>12 DEF CharRec
<1> HIDE DEF c, d
<1>9. Current(d, p, c)
    BY <1>1, <1>2, <1>6, <1>7, <1>8, <1>12 DEF Current, Online
<1>10. GInv(f)'
    BY <1>1, <1>4, <1>8, <1>9, MemoryChanges DEF d, Online
<1> QED
    BY <1>10

(* A mail is marked. *)
LEMMA MailIsMarked ==
    ASSUME NEW f, GInv(f), NEW p \in Player, Online(p), NEW m \in DOMAIN Owned(p),
           UNCHANGED <<store, mailid, house>>, NEW mark \in {"unchanged", "changed", "deleted"},
           char' = [char EXCEPT ![p].mails[m].state = mark, ![p].mailsUpdated = TRUE]
    PROVE  GInv(f)'
<1> DEFINE d == f[Len(queue)]
           old == Owned(p)
           x == [old[m] EXCEPT !.state = mark]
           mails == [old EXCEPT ![m] = x]
           c == [char[p] EXCEPT !.mails = mails, !.mailsUpdated = TRUE]
<1>1. Current(d, p, char[p]) /\ char[p] \in CharRec /\ DOMAIN char = Player
    BY OwnedAreThere DEF GInv, Server
<1>2. /\ old \in MailMaps /\ \A k \in DOMAIN old : k \in MailId /\ old[k] \in MemoryMail /\ IsThere(d, p, k, old[k])
      /\ char[p].mailsLoaded
    <2>1. old \in MailMaps
        BY <1>1 DEF CharRec, Owned
    <2>2. \A k \in DOMAIN Owned(p) : /\ Online(p) /\ k \in MailId
                                     /\ Owned(p)[k] \in MemoryMail
                                     /\ IsThere(f[Len(queue)], p, k, Owned(p)[k])
                                     /\ char[p].mailsLoaded
        BY OwnedAreThere
    <2> QED
        BY <2>1, <2>2
<1>3. char' = [char EXCEPT ![p] = c]
    <2>1. char[p] = [char[p] EXCEPT !.mails = old] /\ old = char[p].mails
        BY <1>1 DEF CharRec, Owned
    <2> QED
        BY <1>1 DEF CharRec, Owned
<1>4. x \in MemoryMail /\ x.money = old[m].money /\ x.cod = old[m].cod /\ x.item = old[m].item
    BY <1>2 DEF MemoryMail
<1> HIDE DEF x, old
<1>5. mails \in MailMaps /\ DOMAIN mails = DOMAIN old /\ \A k \in DOMAIN old : mails[k] = IF k = m THEN x ELSE old[k]
    <2>1. old = [k \in DOMAIN old |-> old[k]] /\ DOMAIN old \in SUBSET MailId
        BY <1>2, Mails
    <2>2. mails \in [DOMAIN old -> MemoryMail]
        BY <1>2, <1>4, <2>1
    <2> QED
        BY <2>1, <2>2 DEF MailMaps
<1> HIDE DEF mails
<1>6. Mailbox(d, p, mails)
    BY <1>2, <1>4, <1>5 DEF Mailbox, IsThere
<1>7. /\ c \in CharRec /\ c.state = char[p].state /\ c.money = char[p].money /\ c.bag = char[p].bag
      /\ c.mails = mails /\ c.mailsLoaded = char[p].mailsLoaded
      /\ c.mMitems = char[p].mMitems
    BY <1>1, <1>5 DEF CharRec
<1> HIDE DEF c, d
<1>9. \A k \in DOMAIN mails : mails[k].item \in char[p].mMitems \union {None}
    <2>1. \A k \in DOMAIN old : old[k].item \in char[p].mMitems \union {None}
        BY <1>1, <1>2 DEF Current, old, Owned, Online
    <2> QED
        BY <1>4, <1>5, <2>1
<1>8. Current(d, p, c)
    BY <1>1, <1>2, <1>6, <1>7, <1>9 DEF Current, Online
<1> QED
    BY <1>2, <1>3, <1>7, <1>8, MemoryChanges, ZenonT(60) DEF d, Online

(* Mails that are read, and deleted. *)
LEMMA MarkStep ==
    ASSUME NEW f, GInv(f), NEW p \in Player, NEW m, MarkAsRead(p, m) \/ DeleteMail(p, m), UNCHANGED house
    PROVE  \E g : GInv(g)'
<1>1. CASE MarkAsRead(p, m)
    <2>1. GInv(f)'
        BY <1>1, MailIsMarked DEF MarkAsRead
    <2> QED
        BY <2>1
<1>2. CASE DeleteMail(p, m)
    <2>1. GInv(f)'
        BY <1>2, MailIsMarked DEF DeleteMail
    <2> QED
        BY <2>1
<1> QED
    BY <1>1, <1>2

(* All ids of mails in the end are below the next one, which is in bounds.     *)
LEMMA MailIds ==
    ASSUME NEW f, GInv(f), phase = "up"
    PROVE  /\ mailid \in 1..MaxMail + 1
           /\ \A m \in RowsOf(f[Len(queue)].mail) : m < mailid
<1>1. Len(queue) \in 0..Len(queue)
    BY InTheEnd
<1> QED
    BY <1>1 DEF GInv, Server, AllSound

(* A handler of one player. *)
LEMMA OneHandled ==
    ASSUME NEW f, GInv(f), phase' = phase, crashes' = crashes,
           auctionid' \in 1..MaxAuction + 1,
           NEW p \in Player, Online(p), NEW t, t.login = None, NEW c, NEW drafts, NEW b, NEW e,
           NEW D \in SUBSET DOMAIN Owned(p),
           Effect(f[Len(queue)], t, b, drafts, e, 0, {}),
           Touches(f[Len(queue)], b, {p}, D),
           Current(b, p, c), c.mailsLoaded = char[p].mailsLoaded,
           PostAndCommit(t, [char EXCEPT ![p] = c], drafts), House(e)'
    PROVE  \E g : GInv(g)'
<1> DEFINE all == [char EXCEPT ![p] = c]
           P == {p}
<1>1. phase = "up"
    BY OnlineUp DEF Online
<1>2. DOMAIN char = Player
    BY DEF GInv, Server
<1>3. /\ DOMAIN all = Player /\ all[p] = c /\ \A q \in Player \ P : all[q] = char[q]
      /\ PostAndCommit(t, all, drafts)
    BY <1>2
<1>4. /\ P \subseteq Player /\ (\A q \in P : Online(q)) /\ p \in P
      /\ Touches(f[Len(queue)], b, P, D)
      /\ \A q \in P : q = p
    OBVIOUS
<1> HIDE DEF all, P
<1>5. Handled(f[Len(queue)], t, all, drafts, b, e, P, D)
    BY <1>3, <1>4 DEF Handled
<1> QED
    BY <1>1, <1>3, <1>5, HandlerKeeps

(* An operation that writes neither items nor what is lost. *)
LEMMA PlainWrites ==
    ASSUME NEW d \in Tables, NEW t, t.listed = <<>>, t.unlisted = {}, t.cleared = {}, t.created = {},
           t.lost = {}, t.destroyed = {}
    PROVE  /\ ~Refused(d, t) /\ Override(t.listed, Unlisted(d, t)) = d.mail_items
           /\ (d.instance \union t.created) \ t.destroyed = d.instance
           /\ d.lost \union t.lost = d.lost
BY NothingListed

(* What a mail costs is never less than the gold that is in it then. *)
LEMMA PostageIsPaid ==
    ASSUME NEW money \in 0..(Word - 1)
    PROVE  Reqmoney(money) \in Nat /\ Value(money) \in Nat /\ Value(money) <= Reqmoney(money)
<1>1. Postage \in Nat /\ Half \in Nat /\ Postage < Half /\ Word = 2 * Half /\ money \in Nat /\ money < Word
    BY MailAssumption, StoreAssumption, WordIs DEF Word
<1> QED
    BY <1>1 DEF Reqmoney, Value

(* Mail is sent. *)
LEMMA SendMailStep ==
    ASSUME NEW f, GInv(f), NEW p \in Player, NEW r \in Player, NEW money \in 0..(Word - 1), NEW cod \in Nat,
           NEW i \in Item \union {None}, SendMail(p, r, money, cod, i), UNCHANGED house
    PROVE  \E g : GInv(g)'
<1> DEFINE d == f[Len(queue)]
           x == char[p]
           sum == Reqmoney(money)
           fee == sum - Value(money)
           bag == x.bag \ {i}
           c == [Paid(x, sum) EXCEPT !.bag = @ \ {i}]
           draft == [Draft(r, p, "normal") EXCEPT !.money = money, !.cod = cod, !.item = i]
           t == [NoWrites EXCEPT !.inventory = [j \in {i} \ {None} |-> None], !.fees = fee]
           s == SaveGoldToDB(t, p, c)
           b1 == Drop(d, i)
           b2 == PutFee(b1, fee)
           b == Apply(d, s)
           J == {i} \ {None}
<1>1. /\ Online(p) /\ i \in x.bag \union {None} /\ x.money >= sum
      /\ Commit(s, [char EXCEPT ![p] = c], <<draft>>)
    BY DEF SendMail
<1>2. /\ d \in Tables /\ Sound(d, 0, {}) /\ Current(d, p, x) /\ x \in CharRec
      /\ x.state = "online" /\ x.bag = ItemsOf(d, p) /\ x.money = d.money[p]
    BY <1>1, InTheEnd, OwnedAreThere DEF Sound, Online, Current
<1>3. fee \in Nat /\ sum \in Nat /\ Value(money) \in Nat /\ x.money \in Nat /\ bag \in SUBSET Item
    <2>1. Reqmoney(money) \in Nat /\ Value(money) \in Nat /\ Value(money) <= Reqmoney(money)
        BY PostageIsPaid
    <2>2. x.money \in Nat /\ bag \in SUBSET Item
        BY <1>2, MailAssumption DEF CharRec
    <2> QED
        BY <2>1, <2>2
<1>4. OwnsOther(x, c, x.money - sum, bag)
    <2>1. OwnsOther(x, Paid(x, sum), x.money - sum, x.bag) /\ OwnsOther(x, [Paid(x, sum) EXCEPT !.bag = bag], x.money - sum, bag)
        BY <1>1, <1>2, <1>3, PaidIs
    <2>2. c = [Paid(x, sum) EXCEPT !.bag = bag]
        BY <2>1 DEF OwnsOther
    <2> QED
        BY <2>1, <2>2
<1>5. draft \in Drafts /\ draft.money = money /\ draft.item = i
    BY DEF Draft, Drafts
<1>6. /\ t.money = <<>> /\ t.destroyed = {} /\ t.mail = <<>> /\ t.auctionhouse = <<>>
      /\ t.listed = <<>> /\ t.unlisted = {} /\ t.cleared = {} /\ t.created = {} /\ t.lost = {}
      /\ t.inventory = [j \in {i} \ {None} |-> None] /\ t.fees = fee /\ t.login = None /\ DOMAIN t = DOMAIN NoWrites
    BY DEF NoWrites
<1>6a. 0 - fee + sum = Value(money)
    BY <1>3
<1> HIDE DEF d, x, c, draft, t, sum, bag, fee
<1>7. IsDropped(d, b1, p, i, 0, {})
    BY <1>1, <1>2, DropMoves
<1>8. Sound(b1, 0, J) /\ ButInventory(d, b1) /\ Touches(d, b1, {p}, {}) /\ ItemsOf(b1, p) = bag
      /\ b1.inventory = [j \in Item |-> IF j = i THEN None ELSE d.inventory[j]]
    <2>1. {} \union ({i} \ {None}) = J
        OBVIOUS
    <2> QED
        BY <1>2, <1>7, <2>1 DEF IsDropped, bag
<1> HIDE DEF b1, J
<1>9. Sound(b2, 0 - fee, J) /\ ButFees(b1, b2) /\ b2.fees = b1.fees + fee /\ Touches(b1, b2, {}, {})
    BY <1>3, <1>8, FeesMove
<1> HIDE DEF b2
<1>10. b2 = Apply(d, t)
    <2>1. /\ b2.money = d.money /\ b2.instance = d.instance /\ b2.mail = d.mail /\ b2.mail_items = d.mail_items
          /\ b2.auctionhouse = d.auctionhouse /\ b2.fees = d.fees + fee /\ b2.lost = d.lost /\ b2.inventory = b1.inventory
          /\ b2 \in Tables
        BY <1>8, <1>9 DEF ButInventory, ButFees
    <2>2. b2.inventory = Override(t.inventory, d.inventory)
        <3>1. Override([j \in {i} \ {None} |-> None], d.inventory)
                 = [j \in Item |-> IF j = i THEN None ELSE d.inventory[j]]
            BY <1>2, DropWritten
        <3>2. t.inventory = [j \in {i} \ {None} |-> None]
            BY <1>6
        <3>3. b2.inventory = [j \in Item |-> IF j = i THEN None ELSE d.inventory[j]]
            BY <1>8, <2>1
        <3> QED
            BY <3>1, <3>2, <3>3
    <2>3. /\ ~Refused(d, t) /\ Override(t.listed, Unlisted(d, t)) = d.mail_items
          /\ (d.instance \union t.created) \ t.destroyed = d.instance
          /\ d.lost \union t.lost = d.lost
        BY <1>2, <1>6, PlainWrites
    <2>4. /\ Override(t.money, d.money) = d.money
          /\ Written(d.mail, t.mail, MailColumns) = d.mail
          /\ Written(d.auctionhouse, t.auctionhouse, AuctionColumns) = d.auctionhouse
        BY <1>2, <1>6, NotWritten
    <2> QED
        BY <1>2, <1>6, <2>1, <2>2, <2>3, <2>4, ApplyIs
<1>11. c \in CharRec /\ c.money = b2.money[p] - sum /\ sum \in Int /\ c.mailsLoaded = x.mailsLoaded
    BY <1>2, <1>3, <1>4, <1>8, <1>9 DEF OwnsOther, ButInventory, ButFees
<1>12. IsPaid(d, t, b2, p, c, sum, 0 - fee, J)
    BY <1>2, <1>6, <1>9, <1>10, <1>11, PaidMoves
<1>13. /\ DOMAIN s = DOMAIN NoWrites /\ s.login = None /\ s.listed = <<>> /\ Sound(b, Value(money), J) /\ ButMoney(b2, b)
       /\ b.money = [b2.money EXCEPT ![p] = c.money] /\ Touches(b2, b, {p}, {})
        BY <1>6, <1>6a, <1>12 DEF IsPaid
<1>14. /\ b1 \in Tables /\ b2 \in Tables /\ b \in Tables
       /\ b.mail = d.mail /\ b.auctionhouse = d.auctionhouse
       /\ ItemsOf(b, p) = bag /\ b.money[p] = x.money - sum
    <2>1. b2.money \in [Player -> Nat]
        BY <1>9 DEF ButFees, Tables
    <2>2. /\ b1 \in Tables /\ b2 \in Tables /\ b \in Tables /\ b.mail = d.mail /\ b.auctionhouse = d.auctionhouse
          /\ b.instance = b1.instance /\ b.inventory = b1.inventory
        BY <1>8, <1>9, <1>13 DEF ButInventory, ButFees, ButMoney
    <2>3. ItemsOf(b, p) = bag
        BY <1>8, <2>2 DEF ItemsOf
    <2>4. c.money = x.money - sum
        BY <1>4 DEF OwnsOther
    <2> QED
        BY <1>13, <2>1, <2>2, <2>3, <2>4
<1> HIDE DEF b, s
<1>15. Touches(d, b, {p}, {})
    <2>1. Touches(d, b2, {p} \union {}, {} \union {})
        BY <1>2, <1>8, <1>9, <1>14, TouchesBoth
    <2>2. Touches(d, b, {p} \union {} \union {p}, {} \union {} \union {})
        BY <1>2, <1>13, <1>14, <2>1, TouchesBoth
    <2> QED
        BY <2>2, TouchesMore
<1>16. Current(b, p, c)
    <2>1. SameMail(p, d, b)
        BY <1>15 DEF Touches, SameMail
    <2> QED
        BY <1>2, <1>4, <1>14, <2>1, OwnsCurrent
<1>17. \E e : Effect(d, s, b, <<draft>>, e, 0, {})
    <2>1. mailid \in 1..MaxMail + 1 /\ \A m \in RowsOf(b.mail) \union RowsOf(d.mail) : m < mailid
        BY <1>1, <1>14, OnlineUp, MailIds DEF d, Online
    <2>2. draft.item \in J \union {None} /\ J \ {draft.item} = {} /\ Value(money) - Value(draft.money) = 0
        BY <1>3, <1>5 DEF J
    <2>3. CanPost(<<draft>>)
        BY <1>1 DEF Commit, PostAndCommit
    <2>4. b = Apply(d, s)
        BY DEF b
    <2>5. \E e : Effect(d, s, b, <<draft>>, e, Value(money) - Value(draft.money), J \ {draft.item})
        BY <1>2, <1>5, <1>13, <2>1, <2>2, <2>3, <2>4, EffectOne
    <2> QED
        BY <2>2, <2>5
<1>18. PICK e : Effect(d, s, b, <<draft>>, e, 0, {})
    BY <1>17
<1>19. House(e)'
    <2>1. e.auctionhouse = d.auctionhouse
        BY <1>14, <1>18 DEF Effect
    <2>2. House(d)
        BY DEF GInv, d
    <2> QED
        BY <2>1, <2>2, HouseStays
<1>20. phase' = phase /\ crashes' = crashes /\ auctionid' \in 1..MaxAuction + 1
    BY DEF house, GInv, Server
<1> DEFINE D == {}
<1>21. D \in SUBSET DOMAIN Owned(p) /\ Touches(d, b, {p}, D)
    BY <1>15
<1> HIDE DEF D
<1> QED
    BY <1>1, <1>11, <1>13, <1>16, <1>18, <1>19, <1>20, <1>21, OneHandled DEF d, x, Commit

(* A handler of a player who buys. *)
LEMMA BuyHandled ==
    ASSUME NEW f, GInv(f), phase' = phase, crashes' = crashes, auctionid' \in 1..MaxAuction + 1,
           NEW p \in Player, Online(p), NEW s, NEW b, NEW c, NEW e, NEW gold, NEW loose,
           Bought(f[Len(queue)], p, s, b, c, e, gold, loose),
           NEW drafts, NEW h, Effect(f[Len(queue)], s, e, drafts, h, 0, {}),
           PostAndCommit(s, [char EXCEPT ![p] = c], drafts), c.mailsLoaded = char[p].mailsLoaded,
           h.auctionhouse = b.auctionhouse => House(h)'
    PROVE  \E g : GInv(g)'
<1> DEFINE D == {}
<1>1. /\ D \in SUBSET DOMAIN Owned(p) /\ Touches(f[Len(queue)], e, {p}, D) /\ s.login = None /\ Current(e, p, c)
      /\ House(h)'
    BY DEF Bought, Effect
<1> HIDE DEF D
<1> QED
    BY <1>1, OneHandled

(* The house gets an auction. *)
LEMMA HouseGets ==
    ASSUME NEW d \in Tables, House(d), phase = "up", phase' = phase, auctionid \in AuctionId, NEW AH \in AuctionRow,
           NEW e, e.auctionhouse = [d.auctionhouse EXCEPT ![auctionid] = AH],
           auctions' = Override(Only(auctionid, AH), auctions), mAitems' = mAitems \union {AH.item},
           auctionid' = auctionid + 1
    PROVE  /\ House(e)'
           /\ d.auctionhouse[auctionid] = None
           /\ auctionid' \in 1..MaxAuction + 1
<1> DEFINE a == auctionid
           R == RowsOf(d.auctionhouse)
           h == d.auctionhouse
           k == e.auctionhouse
<1>0. /\ h \in [AuctionId -> AuctionRow \union {None}] /\ AH.item \in Item /\ AH # None
      /\ R \subseteq AuctionId /\ \A b \in AuctionId : b \in R <=> h[b] # None
    BY Keys, Rows DEF Tables, AuctionRow
<1>1. /\ auctions = [b \in R |-> h[b]] /\ (\A b \in R : b < a)
      /\ mAitems \subseteq Item
    BY DEF House
<1> HIDE DEF h, k, R, a
<1>2. a \notin R /\ a \in AuctionId /\ a \in Nat
    <2>1. a \in Nat
        BY DEF a, AuctionId
    <2> QED
        BY <1>1, <2>1 DEF a
<1>3. k = [h EXCEPT ![a] = AH]
    BY DEF k, h, a
<1>4. RowsOf(k) = R \union {a}
    BY <1>0, <1>2, <1>3 DEF RowsOf
<1>5. k[a] = AH /\ \A b \in R : k[b] = h[b]
    BY <1>0, <1>2, <1>3
<1>6. auctions' = [b \in RowsOf(k) |-> k[b]]
    <2>1. auctions' = [b \in {a} \union R |-> IF b \in {a} THEN AH ELSE h[b]]
        <3>1. auctions' = Override(Only(a, AH), auctions)
            BY DEF a
        <3>2. DOMAIN Only(a, AH) = {a} /\ Only(a, AH)[a] = AH
            BY DEF Only
        <3>3. DOMAIN auctions = R /\ \A b \in R : auctions[b] = h[b]
            BY <1>1
        <3> QED
            BY <3>1, <3>2, <3>3 DEF Override
    <2>2. {a} \union R = RowsOf(k)
        BY <1>4
    <2>3. \A b \in RowsOf(k) : (IF b \in {a} THEN AH ELSE h[b]) = k[b]
        BY <1>2, <1>4, <1>5
    <2> QED
        BY <2>1, <2>2, <2>3
<1>8. \A b \in RowsOf(k) : b < auctionid'
    <2>1. \A b \in R : b \in Nat
        BY <1>0, Keys
    <2> QED
        BY <1>1, <1>2, <1>4, <2>1 DEF a
<1>9. mAitems' \subseteq Item
    BY <1>0, <1>1
<1>10. House(e)'
    BY <1>6, <1>8, <1>9 DEF House, k
<1>11. auctionid' \in 1..MaxAuction + 1
    BY StoreAssumption DEF AuctionId
<1>12. h[a] = None
    BY <1>0, <1>2
<1> QED
    BY <1>10, <1>11, <1>12 DEF h, a

(* The house loses an auction. *)
LEMMA HouseLoses ==
    ASSUME NEW d, NEW gold, NEW loose, Sound(d, gold, loose), House(d), phase = "up", phase' = phase, NEW a \in DOMAIN auctions,
           NEW e, e.auctionhouse = [d.auctionhouse EXCEPT ![a] = None],
           auctions' = Without(a),
           mAitems' \subseteq mAitems,
           auctionid' = auctionid
    PROVE  House(e)'
<1> DEFINE R == RowsOf(d.auctionhouse)
           h == d.auctionhouse
           k == e.auctionhouse
<1>0. /\ h \in [AuctionId -> AuctionRow \union {None}]
      /\ R \subseteq AuctionId /\ \A b \in AuctionId : b \in R <=> h[b] # None
    BY Rows DEF Tables, Sound
<1>1. /\ auctions = [b \in R |-> h[b]] /\ (\A b \in R : b < auctionid)
      /\ mAitems \subseteq Item
    BY DEF House
<1> HIDE DEF h, k, R
<1>3. k = [h EXCEPT ![a] = None] /\ a \in R
    BY <1>1 DEF k, h
<1>4. RowsOf(k) = R \ {a} /\ \A b \in R \ {a} : k[b] = h[b]
    BY <1>0, <1>3 DEF RowsOf
<1>6. auctions' = [b \in RowsOf(k) |-> k[b]]
    <2>1. auctions' = [b \in R \ {a} |-> h[b]]
        BY <1>1 DEF Without
    <2> QED
        BY <1>4, <2>1
<1> QED
    BY <1>1, <1>4, <1>6 DEF House, k

(* An auction of the house changes. *)
LEMMA HouseChanges ==
    ASSUME NEW d \in Tables, House(d), phase = "up", phase' = phase, NEW a \in DOMAIN auctions,
           NEW row, row.item = auctions[a].item, row # None,
           NEW e, e.auctionhouse = [d.auctionhouse EXCEPT ![a] = row],
           auctions' = [auctions EXCEPT ![a] = row],
           mAitems' = mAitems, auctionid' = auctionid
    PROVE  House(e)'
<1> DEFINE R == RowsOf(d.auctionhouse)
           h == d.auctionhouse
           k == e.auctionhouse
<1>0. /\ h \in [AuctionId -> AuctionRow \union {None}]
      /\ R \subseteq AuctionId /\ \A b \in AuctionId : b \in R <=> h[b] # None
    BY Rows DEF Tables
<1>1. /\ auctions = [b \in R |-> h[b]] /\ (\A b \in R : b < auctionid)
      /\ mAitems \subseteq Item
    BY DEF House
<1> HIDE DEF h, k, R
<1>3. k = [h EXCEPT ![a] = row] /\ a \in R /\ row.item = h[a].item
    BY <1>1 DEF k, h
<1>4. RowsOf(k) = R /\ k[a] = row /\ \A b \in R \ {a} : k[b] = h[b]
    BY <1>0, <1>3 DEF RowsOf
<1>6. auctions' = [b \in RowsOf(k) |-> k[b]]
    <2>1. auctions' = [b \in R |-> IF b = a THEN row ELSE h[b]]
        BY <1>1, <1>3
    <2> QED
        BY <1>3, <1>4, <2>1
<1> QED
    BY <1>1, <1>4, <1>6 DEF House, k

(* What the tables are in the end, for a handler of p. *)
LEMMA Before ==
    ASSUME NEW f, GInv(f), NEW p \in Player, Online(p)
    PROVE  LET d == f[Len(queue)]
           IN  /\ d \in Tables /\ Sound(d, 0, {}) /\ Current(d, p, char[p]) /\ char[p] \in CharRec
               /\ char[p].state = "online" /\ char[p].bag = ItemsOf(d, p) /\ char[p].money = d.money[p]
               /\ char[p].money \in Nat /\ char[p].bag \in SUBSET Item
               /\ phase = "up" /\ mailid \in 1..MaxMail + 1 /\ \A m \in RowsOf(d.mail) : m < mailid
               /\ House(d) /\ auctionid \in 1..MaxAuction + 1
<1>1. phase = "up"
    BY OnlineUp DEF Online
<1>2. mailid \in 1..MaxMail + 1 /\ \A m \in RowsOf(f[Len(queue)].mail) : m < mailid
    BY <1>1, MailIds
<1> DEFINE d == f[Len(queue)]
<1>3. /\ Sound(d, 0, {}) /\ Current(d, p, char[p]) /\ char[p] \in CharRec /\ House(d) /\ auctionid \in 1..MaxAuction + 1
    BY InTheEnd, OwnedAreThere DEF GInv, Server
<1> HIDE DEF d
<1>4. d \in Tables /\ char[p].state = "online" /\ char[p].bag = ItemsOf(d, p) /\ char[p].money = d.money[p]
    BY <1>3 DEF Sound, Current, Online
<1>5. char[p].money \in Nat /\ char[p].bag \in SUBSET Item
    BY <1>3, MailAssumption DEF CharRec
<1> QED
    BY <1>1, <1>2, <1>3, <1>4, <1>5 DEF d

(* An auction in memory is the one in the tables. *)
LEMMA InHouse ==
    ASSUME NEW d, NEW gold, NEW loose, Sound(d, gold, loose), House(d), phase = "up", NEW a \in DOMAIN auctions
    PROVE  /\ a \in AuctionId /\ d.auctionhouse[a] = auctions[a] /\ d.auctionhouse[a] # None
           /\ auctions[a] \in AuctionRow
           /\ auctions[a].bidder = None => auctions[a].bid = 0
           /\ auctions[a].buyout # 0 => auctions[a].bid < auctions[a].buyout
           /\ auctions[a].bid <= MaxMoney /\ auctions[a].deposit <= MaxMoney
<1>1. d \in Tables /\ a \in RowsOf(d.auctionhouse) /\ auctions[a] = d.auctionhouse[a]
    BY DEF House, Sound
<1> QED
    BY <1>1, Rows DEF Sound, SumsInOrder, BidsInOrder

(* The item of a sale goes to the house. *)
LEMMA SellItemStep ==
    ASSUME NEW f, GInv(f), NEW p \in Player, NEW i \in Item, NEW startbid \in Nat, NEW buyout \in Nat,
           SellItem(p, i, startbid, buyout)
    PROVE  \E g : GInv(g)'
<1> DEFINE d == f[Len(queue)]
           x == char[p]
           bag == x.bag \ {i}
           c == [Paid(x, Deposit) EXCEPT !.bag = @ \ {i}]
           AH == [item |-> i, owner |-> p, bidder |-> None, bid |-> 0,
                  startbid |-> startbid, buyout |-> buyout, deposit |-> Deposit]
           t == [NoWrites EXCEPT !.inventory = Only(i, None), !.auctionhouse = Only(auctionid, AH)]
           s == SaveGoldToDB(t, p, c)
           b1 == Drop(d, i)
           b == PutAuction(b1, auctionid, AH)
           J == {i}
           money == x.money - Deposit
<1>1. /\ Online(p) /\ i \in x.bag /\ x.money >= Deposit
      /\ auctionid \in AuctionId
      /\ Commit(s, [char EXCEPT ![p] = c], <<>>)
      /\ auctions' = Override(Only(auctionid, AH), auctions)
      /\ mAitems' = mAitems \union {i} /\ auctionid' = auctionid + 1 /\ phase' = phase /\ crashes' = crashes
    BY DEF SellItem
<1>2. /\ d \in Tables /\ Sound(d, 0, {}) /\ Current(d, p, x) /\ x \in CharRec
      /\ x.state = "online" /\ x.bag = ItemsOf(d, p) /\ x.money = d.money[p]
      /\ x.money \in Nat /\ x.bag \in SUBSET Item
      /\ phase = "up" /\ mailid \in 1..MaxMail + 1 /\ \A m \in RowsOf(d.mail) : m < mailid
      /\ House(d)
    BY <1>1, Before
<1>3. Deposit \in Nat /\ Deposit <= MaxMoney /\ bag \in SUBSET Item /\ i # None
    <2>1. x.money <= MaxMoney
        BY <1>2, WordIs DEF CharRec
    <2> QED
        BY <1>1, <1>2, <2>1, Keys, AuctionAssumption, WordIs, SMTT(40)
<1>4. OwnsOther(x, c, money, bag)
    <2>1. OwnsOther(x, Paid(x, Deposit), x.money - Deposit, x.bag) /\ OwnsOther(x, [Paid(x, Deposit) EXCEPT !.bag = bag], x.money - Deposit, bag)
        BY <1>1, <1>2, <1>3, PaidIs
    <2>2. c = [Paid(x, Deposit) EXCEPT !.bag = bag]
        BY <2>1 DEF OwnsOther
    <2> QED
        BY <2>1, <2>2
<1>5. /\ AH \in AuctionRow /\ AH.item = i /\ AH.bidder = None /\ AH.bid = 0 /\ AH.deposit = Deposit
      /\ AH.startbid = startbid /\ AH.buyout = buyout /\ DOMAIN AH = AuctionColumns
      /\ AH.buyout # 0 => AH.bid < AH.buyout
    BY <1>3 DEF AuctionRow, AuctionColumns
<1>6. /\ t.money = <<>> /\ t.destroyed = {} /\ t.mail = <<>> /\ t.fees = 0
      /\ t.listed = <<>> /\ t.unlisted = {} /\ t.cleared = {} /\ t.created = {} /\ t.lost = {}
      /\ t.inventory = Only(i, None) /\ t.auctionhouse = Only(auctionid, AH) /\ t.login = None /\ DOMAIN t = DOMAIN NoWrites
    BY DEF NoWrites
<1> HIDE DEF d, x, c, t, bag, AH, s
<1>7. IsDropped(d, b1, p, i, 0, {})
    BY <1>1, <1>2, DropMoves
<1>8. Sound(b1, 0, J) /\ ButInventory(d, b1) /\ Touches(d, b1, {p}, {}) /\ ItemsOf(b1, p) = bag
      /\ b1.inventory = [j \in Item |-> IF j = i THEN None ELSE d.inventory[j]]
    <2>1. {} \union ({i} \ {None}) = J
        BY <1>3
    <2> QED
        BY <1>2, <1>7, <2>1 DEF IsDropped, bag
<1> HIDE DEF b1, J
<1>9. d.auctionhouse[auctionid] = None /\ auctionid' \in 1..MaxAuction + 1
      /\ \A e : e.auctionhouse = [d.auctionhouse EXCEPT ![auctionid] = AH] => House(e)'
    <2>1. mAitems' = mAitems \union {AH.item}
        BY <1>1, <1>5
    <2>2. \E e : e.auctionhouse = [d.auctionhouse EXCEPT ![auctionid] = AH]
        <3>1. [auctionhouse |-> [d.auctionhouse EXCEPT ![auctionid] = AH]].auctionhouse = [d.auctionhouse EXCEPT ![auctionid] = AH]
            OBVIOUS
        <3> QED
            BY <3>1
    <2> QED
        BY <1>1, <1>2, <1>5, <2>1, <2>2, HouseGets
<1>10. /\ Sound(b, 0 - Deposit, {}) /\ ButAuctions(b1, b)
       /\ b.auctionhouse = [d.auctionhouse EXCEPT ![auctionid] = AH] /\ Touches(b1, b, {}, {})
    <2>1. b1.auctionhouse = d.auctionhouse /\ AH.item \in J /\ 0 - (AH.bid + AH.deposit) = 0 - Deposit /\ J \ {AH.item} = {}
        BY <1>3, <1>5, <1>8 DEF ButInventory, J
    <2> DEFINE a == auctionid
               L == J
    <2>3. a \in AuctionId /\ b1.auctionhouse[a] = None /\ Sound(b1, 0, L) /\ AH.item \in L
        BY <1>1, <1>8, <1>9, <2>1
    <2>4. b = PutAuction(b1, a, AH)
        OBVIOUS
    <2> HIDE DEF b, a
    <2>5. LET h == PutAuction(b1, a, AH)
          IN  /\ Sound(h, 0 - (AH.bid + AH.deposit), L \ {AH.item}) /\ ButAuctions(b1, h)
              /\ h.auctionhouse = [b1.auctionhouse EXCEPT ![a] = AH] /\ Touches(b1, h, {}, {})
        <3> DEFINE row == AH
        <3>1. row \in AuctionRow /\ row.item \in L /\ (row.bidder = None => row.bid = 0) /\ (row.buyout # 0 => row.bid < row.buyout)
             /\ row.bid <= MaxMoney /\ row.deposit <= MaxMoney
            BY <1>3, <1>5, <2>3, WordIs
        <3> HIDE DEF row
        <3>2. LET h == PutAuction(b1, a, row)
              IN  /\ Sound(h, 0 - (row.bid + row.deposit), L \ {row.item}) /\ ButAuctions(b1, h)
                  /\ h.auctionhouse = [b1.auctionhouse EXCEPT ![a] = row] /\ Touches(b1, h, {}, {})
            BY <2>3, <3>1, AuctionComes
        <3> QED
            BY <3>2 DEF row
    <2>2. /\ Sound(b, 0 - (AH.bid + AH.deposit), J \ {AH.item}) /\ ButAuctions(b1, b)
          /\ b.auctionhouse = [b1.auctionhouse EXCEPT ![auctionid] = AH] /\ Touches(b1, b, {}, {})
        BY <2>4, <2>5 DEF a
    <2> QED
        BY <2>1, <2>2
<1> HIDE DEF b
<1>11. /\ b.money = d.money /\ b.instance = d.instance /\ b.mail = d.mail /\ b.mail_items = d.mail_items
       /\ b.fees = d.fees /\ b.lost = d.lost /\ b.inventory = b1.inventory /\ b \in Tables /\ b1 \in Tables
    BY <1>8, <1>10 DEF ButInventory, ButAuctions
<1>12. b = Apply(d, t)
    <2>1. Override(t.inventory, d.inventory) = b.inventory
        <3>1. d.inventory \in [Item -> Player \union {None}]
            BY <1>2 DEF Tables
        <3>2. Override(Only(i, None), d.inventory) = [d.inventory EXCEPT ![i] = None]
            BY <1>2, InventoryWritten
        <3>3. [d.inventory EXCEPT ![i] = None] = [j \in Item |-> IF j = i THEN None ELSE d.inventory[j]]
            BY <3>1
        <3> QED
            BY <1>6, <1>8, <1>11, <3>2, <3>3
    <2>2. Written(d.auctionhouse, t.auctionhouse, AuctionColumns) = b.auctionhouse
        <3>1. d.auctionhouse \in [AuctionId -> AuctionRow \union {None}]
            BY <1>2 DEF Tables
        <3>2. Written(d.auctionhouse, Only(auctionid, AH), AuctionColumns) = [d.auctionhouse EXCEPT ![auctionid] = AH]
            BY <1>1, <1>2, <1>5, AuctionWritten
        <3> QED
            BY <1>6, <1>10, <3>2
    <2>3. d.fees + t.fees = d.fees
        BY <1>2, <1>6 DEF Tables
    <2>5. /\ ~Refused(d, t) /\ Override(t.listed, Unlisted(d, t)) = d.mail_items
          /\ (d.instance \union t.created) \ t.destroyed = d.instance
          /\ d.lost \union t.lost = d.lost
        BY <1>2, <1>6, PlainWrites
    <2>4. /\ Override(t.money, d.money) = d.money
          /\ Written(d.mail, t.mail, MailColumns) = d.mail
        BY <1>2, <1>6, NotWritten
    <2> QED
        BY <1>11, <2>1, <2>2, <2>3, <2>4, <2>5, ApplyIs
<1>13. Touches(d, b, {p}, {})
    <2>1. Touches(d, b, {p} \union {}, {} \union {})
        BY <1>2, <1>8, <1>10, <1>11, TouchesBoth
    <2> QED
        BY <2>1, TouchesMore
<1>14. Buys(d, p, x, t, b, bag, 0 - Deposit, {})
    <2>1. ItemsOf(b, p) = bag
        BY <1>8, <1>11 DEF ItemsOf, ButInventory
    <2> QED
        BY <1>2, <1>6, <1>10, <1>11, <1>12, <1>13, <2>1 DEF Buys
<1>15. \E e : Bought(d, p, s, b, c, e, 0, {})
    <2>1. Deposit \in Int /\ (0 - Deposit) + Deposit = 0
        BY <1>3
    <2>2. \E e : Bought(d, p, SaveGoldToDB(t, p, c), b, c, e, (0 - Deposit) + Deposit, {})
        BY <1>4, <1>14, <2>1, BuyMoves
    <2> QED
        BY <2>1, <2>2 DEF s
<1>16. PICK e : Bought(d, p, s, b, c, e, 0, {})
    BY <1>15
<1>17. Effect(d, s, e, <<>>, e, 0, {}) /\ (e.auctionhouse = b.auctionhouse => House(e)')
    BY <1>9, <1>10, <1>16 DEF Bought
<1>18. c.mailsLoaded = char[p].mailsLoaded
    BY <1>4 DEF OwnsOther, x
<1> QED
    BY <1>1, <1>9, <1>16, <1>17, <1>18, BuyHandled DEF d, Commit

(* A bid is made. *)
LEMMA PlaceBidStep ==
    ASSUME NEW f, GInv(f), NEW p \in Player, NEW a, NEW price \in Nat, PlaceBid(p, a, price)
    PROVE  \E g : GInv(g)'
<1> DEFINE d == f[Len(queue)]
           x == char[p]
           old == auctions[a]
           row == WithBid(old, p, price)
           due == DueFor(p, a, price)
           c == Paid(x, due)
           t == [NoWrites EXCEPT !.auctionhouse = Only(a, Bid(p, price))]
           s == SaveGoldToDB(t, p, c)
           b == PutAuction(d, a, row)
           out == Outbidded(p, a)
<1>1. /\ Online(p) /\ a \in DOMAIN auctions /\ price > old.bid /\ x.money >= price
      /\ old.buyout = 0 \/ price < old.buyout
      /\ Commit(s, [char EXCEPT ![p] = c], out)
      /\ auctions' = [auctions EXCEPT ![a].bidder = p, ![a].bid = price]
      /\ phase' = phase /\ mAitems' = mAitems /\ auctionid' = auctionid /\ crashes' = crashes
    <2>1. /\ Online(p) /\ a \in DOMAIN auctions /\ price > old.bid /\ x.money >= price
          /\ ~IsBuyout(a, price)
          /\ Commit(s, [char EXCEPT ![p] = c], out)
          /\ auctions' = [auctions EXCEPT ![a].bidder = p, ![a].bid = price]
          /\ phase' = phase /\ mAitems' = mAitems /\ auctionid' = auctionid /\ crashes' = crashes
        BY DEF PlaceBid, MayBid, Bid
    <2>2. GInv(f) /\ auctions[a].buyout \in Nat
        <3>1. Sound(d, 0, {}) /\ House(d) /\ phase = "up"
            BY <2>1, Before
        <3>2. old \in AuctionRow
            BY <2>1, <3>1, InHouse
        <3> QED
            BY <3>2 DEF AuctionRow
    <2> QED
        BY <2>1, <2>2 DEF IsBuyout
<1>2. /\ d \in Tables /\ Sound(d, 0, {}) /\ Current(d, p, x) /\ x \in CharRec
      /\ x.state = "online" /\ x.bag = ItemsOf(d, p) /\ x.money = d.money[p]
      /\ x.money \in Nat /\ x.bag \in SUBSET Item
      /\ phase = "up" /\ mailid \in 1..MaxMail + 1 /\ \A m \in RowsOf(d.mail) : m < mailid
      /\ House(d) /\ auctionid \in 1..MaxAuction + 1
    BY <1>1, Before
<1>3. /\ a \in AuctionId /\ d.auctionhouse[a] = old /\ d.auctionhouse[a] # None /\ old \in AuctionRow
      /\ old.bidder = None => old.bid = 0
      /\ old.bid <= MaxMoney /\ old.deposit <= MaxMoney
    BY <1>1, <1>2, InHouse
<1>4. /\ old.bid \in Nat /\ old.deposit \in Nat /\ old.buyout \in Nat /\ old.owner \in Player /\ old.item \in Item
      /\ old.bidder \in Player \union {None}
    BY <1>3 DEF AuctionRow
<1>5. /\ due \in Nat /\ due <= x.money
      /\ due = IF old.bidder = p THEN price - old.bid ELSE price
    BY <1>1, <1>2, <1>4 DEF DueFor
<1>6. OwnsOther(x, c, x.money - due, x.bag)
    BY <1>2, <1>5, PaidIs
<1>7. /\ t.money = <<>> /\ t.destroyed = {} /\ t.mail = <<>> /\ t.fees = 0
      /\ t.listed = <<>> /\ t.unlisted = {} /\ t.cleared = {} /\ t.created = {} /\ t.lost = {}
      /\ t.inventory = <<>> /\ t.auctionhouse = Only(a, Bid(p, price)) /\ t.login = None /\ DOMAIN t = DOMAIN NoWrites
    BY DEF NoWrites
<1>8. /\ row \in AuctionRow /\ row.item = old.item /\ row.bidder = p /\ row.bid = price /\ row.buyout = old.buyout
      /\ row.deposit = old.deposit /\ p # None /\ row # None
    <2>1. row \in AuctionRow /\ row.item = old.item /\ row.bidder = p /\ row.bid = price /\ row.buyout = old.buyout
          /\ row.deposit = old.deposit
        BY <1>3 DEF WithBid, AuctionRow
    <2> QED
        BY <2>1, Keys
<1>9. auctions' = [auctions EXCEPT ![a] = row]
    BY <1>1 DEF WithBid
<1>10. MayPost(out, {}) /\ ItemsOfAll(out) \subseteq {None} /\ GoldOf(out) = IF old.bidder = p THEN 0 ELSE old.bid
    BY <1>3, RefundIs
<1> HIDE DEF d, x, c, t, s, old, due, row, out
<1>11. /\ Sound(b, old.bid - price, {}) /\ ButAuctions(d, b)
       /\ b.auctionhouse = [d.auctionhouse EXCEPT ![a] = row] /\ Touches(d, b, {}, {})
    <2>1. /\ row.item = d.auctionhouse[a].item /\ (row.bidder = None => row.bid = 0)
          /\ (row.buyout # 0 => row.bid < row.buyout)
          /\ row.bid <= MaxMoney /\ row.deposit <= MaxMoney
        <3>1. x.money \in Nat /\ x.money <= MaxMoney
            BY <1>2, WordIs DEF CharRec
        <3> QED
            BY <1>1, <1>3, <1>8, <3>1, WordIs
    <2>2. 0 + (d.auctionhouse[a].bid + d.auctionhouse[a].deposit) - (row.bid + row.deposit) = old.bid - price
        BY <1>3, <1>4, <1>8
    <2>3. LET h == PutAuction(d, a, row)
          IN  /\ Sound(h, 0 + (d.auctionhouse[a].bid + d.auctionhouse[a].deposit) - (row.bid + row.deposit), {})
              /\ ButAuctions(d, h) /\ h.auctionhouse = [d.auctionhouse EXCEPT ![a] = row]
              /\ Touches(d, h, {}, {})
        BY <1>2, <1>3, <1>8, <2>1, AuctionIsChanged
    <2> QED
        BY <2>2, <2>3
<1> HIDE DEF b
<1>12. /\ b.money = d.money /\ b.instance = d.instance /\ b.mail = d.mail /\ b.mail_items = d.mail_items
       /\ b.fees = d.fees /\ b.lost = d.lost /\ b.inventory = d.inventory /\ b \in Tables
    BY <1>11 DEF ButAuctions
<1>13. b = Apply(d, t)
    <2>1. Written(d.auctionhouse, t.auctionhouse, AuctionColumns) = b.auctionhouse
        <3>1. Written(d.auctionhouse, Only(a, Bid(p, price)), AuctionColumns) = [d.auctionhouse EXCEPT ![a] = row]
            BY <1>2, <1>3, BidWritten DEF row
        <3> QED
            BY <1>7, <1>11, <3>1
    <2>2. d.fees + t.fees = d.fees
        BY <1>2, <1>7 DEF Tables
    <2>4. /\ ~Refused(d, t) /\ Override(t.listed, Unlisted(d, t)) = d.mail_items
          /\ (d.instance \union t.created) \ t.destroyed = d.instance
          /\ d.lost \union t.lost = d.lost
        BY <1>2, <1>7, PlainWrites
    <2>3. /\ Override(t.money, d.money) = d.money
          /\ Override(t.inventory, d.inventory) = d.inventory
          /\ Written(d.mail, t.mail, MailColumns) = d.mail
        BY <1>2, <1>7, NotWritten
    <2> QED
        BY <1>12, <2>1, <2>2, <2>3, <2>4, ApplyIs
<1>14. Buys(d, p, x, t, b, x.bag, old.bid - price, {})
    <2>1. ItemsOf(b, p) = x.bag
        BY <1>2, <1>12 DEF ItemsOf
    <2>2. Touches(d, b, {p}, {})
        BY <1>11, TouchesMore
    <2> QED
        BY <1>2, <1>7, <1>11, <1>12, <1>13, <2>1, <2>2 DEF Buys
<1>15. \E e : Bought(d, p, s, b, c, e, GoldOf(out), {})
    <2>1. due \in Int /\ (old.bid - price) + due = GoldOf(out)
        BY <1>3, <1>4, <1>5, <1>10
    <2> DEFINE bag == x.bag
               money == x.money - due
    <2>2. Buys(d, p, x, t, b, bag, old.bid - price, {}) /\ OwnsOther(x, c, money, bag) /\ money = x.money - due
        BY <1>6, <1>14
    <2> HIDE DEF bag, money
    <2>3. \E e : Bought(d, p, SaveGoldToDB(t, p, c), b, c, e, (old.bid - price) + due, {})
        BY <2>1, <2>2, BuyMoves
    <2> QED
        BY <2>1, <2>3 DEF s
<1>16. PICK e : Bought(d, p, s, b, c, e, GoldOf(out), {})
    BY <1>15
<1>17. \E h : Effect(d, s, e, out, h, 0, {})
    <2> DEFINE none == <<>>
    <2>1. none \o out = out
        BY <1>3, RefundIs, ConcatProperties DEF out, old
    <2>2. Effect(d, s, e, none, e, GoldOf(out), {}) /\ CanPost(none \o out)
        BY <1>1, <1>16, <2>1 DEF Bought, Commit, PostAndCommit
    <2> HIDE DEF none
    <2>3. \E h : Effect(d, s, e, none \o out, h, GoldOf(out) - GoldOf(out), {} \ ItemsOfAll(out))
        BY <1>10, <2>2, EffectMore
    <2>4. GoldOf(out) - GoldOf(out) = 0 /\ {} \ ItemsOfAll(out) = {}
        BY <1>4, <1>10
    <2> QED
        BY <2>1, <2>3, <2>4
<1>18. PICK h : Effect(d, s, e, out, h, 0, {})
    BY <1>17
<1>19. h.auctionhouse = b.auctionhouse => House(h)'
    <2> SUFFICES ASSUME h.auctionhouse = b.auctionhouse PROVE House(h)'
        OBVIOUS
    <2>1. h.auctionhouse = [d.auctionhouse EXCEPT ![a] = row]
        BY <1>11
    <2>2. row.item = auctions[a].item
        BY <1>8 DEF old
    <2> QED
        <3>1. /\ d \in Tables /\ House(d) /\ phase = "up" /\ phase' = phase /\ a \in DOMAIN auctions
              /\ row # None /\ mAitems' = mAitems /\ auctionid' = auctionid
            BY <1>1, <1>2, <1>8
        <3>2. auctions' = [auctions EXCEPT ![a] = row]
            BY <1>9
        <3> QED
            BY <2>1, <2>2, <3>1, <3>2, HouseChanges
<1>20. c.mailsLoaded = char[p].mailsLoaded
    BY <1>6 DEF OwnsOther, x
<1> QED
    BY <1>1, <1>2, <1>16, <1>18, <1>19, <1>20, BuyHandled DEF d, Commit

(* An auction is bought out. *)
LEMMA BuyoutStep ==
    ASSUME NEW f, GInv(f), NEW p \in Player, NEW a, NEW price \in Nat, Buyout(p, a, price)
    PROVE  \E g : GInv(g)'
<1> DEFINE d == f[Len(queue)]
           x == char[p]
           old == auctions[a]
           sold == [auctions[a] EXCEPT !.bidder = p, !.bid = auctions[a].buyout]
           due == DueFor(p, a, sold.buyout)
           c == Paid(x, due)
           fee == Fee(sold)
           S == {sold.item} \ mAitems
           t == EndWrites(a, fee, S)
           s == SaveGoldToDB(t, p, c)
           out == Outbidded(p, a)
           paid == <<SuccessfulMail(sold)>>
           last == ItemMail(p, sold.item)
           all == (out \o paid) \o last
<1>1. /\ Online(p) /\ a \in DOMAIN auctions /\ x.money >= price
      /\ auctions[a].buyout # 0 /\ price >= auctions[a].buyout
      /\ Commit(s, [char EXCEPT ![p] = c], all)
      /\ auctions' = Without(a) /\ mAitems' = mAitems \ {auctions[a].item}
      /\ phase' = phase /\ auctionid' = auctionid /\ crashes' = crashes
    BY DEF Buyout, MayBid, IsBuyout, EndWrites
<1>2. /\ d \in Tables /\ Sound(d, 0, {}) /\ Current(d, p, x) /\ x \in CharRec
      /\ x.state = "online" /\ x.bag = ItemsOf(d, p) /\ x.money = d.money[p]
      /\ x.money \in Nat /\ x.bag \in SUBSET Item
      /\ phase = "up" /\ mailid \in 1..MaxMail + 1 /\ \A m \in RowsOf(d.mail) : m < mailid
      /\ House(d) /\ auctionid \in 1..MaxAuction + 1
    BY <1>1, Before
<1>3. /\ a \in AuctionId /\ d.auctionhouse[a] = old /\ d.auctionhouse[a] # None /\ old \in AuctionRow
      /\ old.bidder = None => old.bid = 0
      /\ old.bid < old.buyout /\ old.bid <= MaxMoney /\ old.deposit <= MaxMoney
    BY <1>1, <1>2, InHouse
<1>4. /\ old.bid \in Nat /\ old.deposit \in Nat /\ old.buyout \in Nat /\ old.owner \in Player /\ old.item \in Item
      /\ old.bidder \in Player \union {None} /\ old.item # None
    BY <1>3, Keys DEF AuctionRow
<1>5. /\ sold \in AuctionRow /\ sold.item = old.item /\ sold.bidder = p /\ sold.bid = old.buyout /\ sold.buyout = old.buyout
      /\ sold.deposit = old.deposit /\ sold.owner = old.owner
    BY <1>3 DEF AuctionRow
<1>5a. sold.bid <= MaxMoney /\ sold.deposit <= MaxMoney
    <2>1. x.money <= MaxMoney
        BY <1>2, WordIs DEF CharRec
    <2> QED
        BY <1>1, <1>2, <1>3, <1>4, <1>5, <2>1, WordIs
<1> HIDE DEF sold
<1>6. /\ due \in Nat /\ due <= x.money
      /\ due = IF old.bidder = p THEN old.buyout - old.bid ELSE old.buyout
    <2>1. price \in Nat /\ old.buyout <= x.money
        BY <1>1, <1>2, <1>4
    <2>2. due = IF old.bidder = p THEN old.buyout - old.bid ELSE old.buyout
        BY <1>5 DEF DueFor
    <2> QED
        BY <1>2, <1>3, <1>4, <2>1, <2>2
<1>7. OwnsOther(x, c, x.money - due, x.bag)
    BY <1>2, <1>6, PaidIs
<1> DEFINE L == {old.item} \ S
<1>9. MayPost(out, L) /\ ItemsOfAll(out) \subseteq {None}
      /\ GoldOf(out) = (IF old.bidder = p THEN 0 ELSE old.bid) /\ out \in Seq(Drafts)
    <2>1. MayPost(out, {}) /\ ItemsOfAll(out) \subseteq {None}
          /\ GoldOf(out) = (IF old.bidder = p THEN 0 ELSE old.bid) /\ out \in Seq(Drafts)
        BY <1>3, RefundIs
    <2> QED
        BY <2>1, MayPostMore
<1>10. /\ MayPost(paid, L) /\ ItemsOfAll(paid) = {None} /\ paid \in Seq(Drafts)
       /\ GoldOf(paid) = old.buyout + old.deposit - fee /\ fee \in Nat
    BY <1>5, <1>5a, SuccessfulIs
<1>12. /\ MayPost(last, L) /\ L \ ItemsOfAll(last) = {} /\ GoldOf(last) = 0
       /\ last \in Seq(Drafts)
    <2>1. L = {old.item} \ ({old.item} \ mAitems) /\ last = ItemMail(p, old.item)
        BY <1>5
    <2> HIDE DEF L, last
    <2> QED
        BY <1>4, <2>1, ItemMailIs
<1>11. S \in SUBSET {old.item}
    BY <1>5
<1> HIDE DEF d, x, c, t, s, old, due, fee, out, paid, last, S
<1>13. PICK b : Ends(d, a, fee, S, b)
    BY <1>2, <1>3, <1>10, <1>11, EndMoves
<1> DEFINE gold == (old.bid + old.deposit) - fee
           bag == x.bag
           money == x.money - due
<1>14. /\ b = Apply(d, t) /\ DOMAIN t = DOMAIN NoWrites /\ t.login = None /\ t.listed = <<>> /\ Sound(b, gold, L)
       /\ Touches(d, b, {}, {})
       /\ b.money = d.money /\ b.mail = d.mail /\ b.inventory = d.inventory /\ b.instance = d.instance
       /\ b.auctionhouse = [d.auctionhouse EXCEPT ![a] = None]
    BY <1>3, <1>13 DEF Ends, t
<1>15. MayPost(out, L) /\ MayPost(paid, L) /\ MayPost(last, L) /\ L \ ItemsOfAll(out) = L /\ L \ ItemsOfAll(paid) = L
       /\ L \ ItemsOfAll(last) = {}
    BY <1>4, <1>9, <1>10, <1>12
<1>8. fee \in Nat
    BY <1>10
<1>16. (((gold + due) - GoldOf(out)) - GoldOf(paid)) - GoldOf(last) = 0
    <2>1. /\ old.bid \in Int /\ old.deposit \in Int /\ old.buyout \in Int /\ fee \in Int /\ due \in Int
          /\ gold = (old.bid + old.deposit) - fee
          /\ GoldOf(paid) = old.buyout + (old.deposit - fee) /\ GoldOf(last) = 0
        BY <1>4, <1>6, <1>8, <1>10, <1>12
    <2> HIDE DEF gold
    <2>2. CASE old.bidder = p
        <3>1. due = old.buyout - old.bid /\ GoldOf(out) = 0
            BY <1>6, <1>9, <2>2
        <3> QED
            BY <2>1, <3>1
    <2>3. CASE old.bidder # p
        <3>1. due = old.buyout /\ GoldOf(out) = old.bid
            BY <1>6, <1>9, <2>3
        <3> QED
            BY <2>1, <3>1
    <2> QED
        BY <2>2, <2>3
<1>17. OwnsOther(x, c, money, bag) /\ money = x.money - due /\ bag = x.bag
    BY <1>7
<1> HIDE DEF gold, L, bag, money
<1>18. Buys(d, p, x, t, b, bag, gold, L)
    <2>1. ItemsOf(b, p) = bag
        BY <1>2, <1>14, <1>17 DEF ItemsOf
    <2>2. Touches(d, b, {p}, {})
        BY <1>14, TouchesMore
    <2> QED
        BY <1>2, <1>14, <2>1, <2>2 DEF Buys
<1>19. \E e : Bought(d, p, s, b, c, e, gold + due, L)
    <2>1. due \in Int
        BY <1>6
    <2> QED
        BY <1>17, <1>18, <2>1, BuyMoves DEF s
<1>20. PICK e : Bought(d, p, s, b, c, e, gold + due, L)
    BY <1>19
<1>21. \E h : Effect(d, s, e, all, h, 0, {})
    <2>1. Effect(d, s, e, <<>>, e, gold + due, L) /\ CanPost(all) /\ mailid \in Nat
        BY <1>1, <1>2, <1>20, StoreAssumption DEF Bought, Commit, PostAndCommit
    <2>2. CanPost(out \o paid) /\ CanPost(out)
        <3>1. out \o paid \in Seq(Drafts)
            BY <1>9, <1>10, ConcatProperties
        <3>2. CanPost(out \o paid)
            BY <1>12, <2>1, <3>1, CanPostFewer
        <3> QED
            BY <1>9, <1>10, <2>1, <3>2, CanPostFewer
    <2>3. PICK h1 : Effect(d, s, e, out, h1, (gold + due) - GoldOf(out), L)
        <3>1. \E h : Effect(d, s, e, out, h, (gold + due) - GoldOf(out), L \ ItemsOfAll(out))
            BY <1>9, <1>15, <2>1, <2>2, EffectFirst
        <3> QED
            BY <1>15, <3>1
    <2>4. PICK h2 : Effect(d, s, e, out \o paid, h2, ((gold + due) - GoldOf(out)) - GoldOf(paid), L)
        <3>1. \E h : Effect(d, s, e, out \o paid, h, ((gold + due) - GoldOf(out)) - GoldOf(paid), L \ ItemsOfAll(paid))
            BY <1>15, <2>2, <2>3, EffectMore
        <3> QED
            BY <1>15, <3>1
    <2>5. \E h : Effect(d, s, e, (out \o paid) \o last, h, (((gold + due) - GoldOf(out)) - GoldOf(paid)) - GoldOf(last), L \ ItemsOfAll(last))
        BY <1>15, <2>1, <2>4, EffectMore
    <2> QED
        BY <1>15, <1>16, <2>5
<1>22. PICK h : Effect(d, s, e, all, h, 0, {})
    BY <1>21
<1>23. h.auctionhouse = b.auctionhouse => House(h)'
    <2> SUFFICES ASSUME h.auctionhouse = b.auctionhouse PROVE House(h)'
        OBVIOUS
    <2>1. h.auctionhouse = [d.auctionhouse EXCEPT ![a] = None]
        BY <1>14
    <2>2. /\ Sound(d, 0, {}) /\ House(d) /\ phase = "up" /\ phase' = phase /\ a \in DOMAIN auctions
          /\ auctions' = Without(a) /\ mAitems' \subseteq mAitems /\ auctionid' = auctionid
        BY <1>1, <1>2
    <2> QED
        BY <2>1, <2>2, HouseLoses
<1>24. c.mailsLoaded = char[p].mailsLoaded
    BY <1>7 DEF OwnsOther, x
<1> HIDE DEF all
<1> QED
    BY <1>1, <1>2, <1>20, <1>22, <1>23, <1>24, BuyHandled DEF d, Commit

(* An auction is cancelled. *)
LEMMA CancelStep ==
    ASSUME NEW f, GInv(f), NEW p \in Player, NEW a, CancelAuction(p, a)
    PROVE  \E g : GInv(g)'
<1> DEFINE d == f[Len(queue)]
           x == char[p]
           old == auctions[a]
           cut == IF old.bidder = None THEN 0 ELSE GetAuctionCut(old.bid)
           c == Paid(x, cut)
           fee == old.deposit + cut
           t == EndWrites(a, fee, {})
           s == SaveGoldToDB(t, p, c)
           out == IF old.bidder = None THEN <<>> ELSE <<RefundMail(old)>>
           last == ItemMail(p, old.item)
           all == out \o last
<1>1. /\ Online(p) /\ a \in DOMAIN auctions /\ x.money >= cut
      /\ old.owner = p /\ old.item \in mAitems
      /\ Commit(s, [char EXCEPT ![p] = c], all)
      /\ auctions' = Without(a) /\ mAitems' = mAitems \ {auctions[a].item}
      /\ phase' = phase /\ auctionid' = auctionid /\ crashes' = crashes
    <2>1. t = [NoWrites EXCEPT !.auctionhouse = Only(a, None), !.fees = fee]
        <3> DEFINE w == [NoWrites EXCEPT !.auctionhouse = Only(a, None), !.fees = fee]
        <3>1. w.lost = {} /\ w = [k \in DOMAIN w |-> w[k]] /\ "lost" \in DOMAIN w
            BY DEF NoWrites
        <3>2. t = [w EXCEPT !.lost = {}]
            BY DEF EndWrites
        <3> HIDE DEF w, t
        <3>3. t = w
            BY <3>1, <3>2
        <3> QED
            BY <3>3 DEF w
    <2> QED
        BY <2>1 DEF CancelAuction
<1>2. /\ d \in Tables /\ Sound(d, 0, {}) /\ Current(d, p, x) /\ x \in CharRec
      /\ x.state = "online" /\ x.bag = ItemsOf(d, p) /\ x.money = d.money[p]
      /\ x.money \in Nat /\ x.bag \in SUBSET Item
      /\ phase = "up" /\ mailid \in 1..MaxMail + 1 /\ \A m \in RowsOf(d.mail) : m < mailid
      /\ House(d) /\ auctionid \in 1..MaxAuction + 1
    BY <1>1, Before
<1>3. /\ a \in AuctionId /\ d.auctionhouse[a] = old /\ d.auctionhouse[a] # None /\ old \in AuctionRow
      /\ old.bidder = None => old.bid = 0
      /\ old.bid <= MaxMoney
    BY <1>1, <1>2, InHouse
<1>4. /\ old.bid \in Nat /\ old.deposit \in Nat /\ old.owner \in Player /\ old.item \in Item
      /\ old.bidder \in Player \union {None} /\ old.item # None
    BY <1>3, Keys DEF AuctionRow
<1>5. cut \in Nat /\ cut <= x.money /\ fee \in Nat
    <2>1. GetAuctionCut(old.bid) \in Nat
        BY <1>4, CutIsLess
    <2> QED
        BY <1>1, <1>2, <1>4, <2>1
<1>6. OwnsOther(x, c, x.money - cut, x.bag)
    BY <1>2, <1>5, PaidIs
<1>7. MayPost(out, {old.item}) /\ ItemsOfAll(out) \subseteq {None} /\ GoldOf(out) = old.bid /\ out \in Seq(Drafts)
    <2>1. /\ MayPost(Outbidded(None, a), {}) /\ ItemsOfAll(Outbidded(None, a)) \subseteq {None}
          /\ GoldOf(Outbidded(None, a)) = IF old.bidder = None THEN 0 ELSE old.bid
          /\ Outbidded(None, a) \in Seq(Drafts)
        BY <1>3, RefundIs
    <2>2. out = Outbidded(None, a)
        BY DEF Outbidded
    <2> HIDE DEF out
    <2> QED
        BY <1>3, <2>1, <2>2, MayPostMore
<1>8. /\ MayPost(last, {old.item}) /\ ItemsOfAll(last) = {old.item} /\ GoldOf(last) = 0
      /\ last \in Seq(Drafts)
    <2>1. {old.item} \ ({old.item} \ mAitems) = {old.item}
        BY <1>1
    <2>2. ItemsOfAll(last) = {old.item}
        BY <1>1, <1>4 DEF ItemMail, ItemsOfAll, AuctionMail, Draft
    <2> DEFINE i == old.item
               kept == {i} \ ({i} \ mAitems)
    <2>3. i \in Item
        BY <1>4
    <2> HIDE DEF i
    <2>4. /\ MayPost(ItemMail(p, i), kept) /\ GoldOf(ItemMail(p, i)) = 0
          /\ ItemMail(p, i) \in Seq(Drafts)
        BY <2>3, ItemMailIs
    <2> HIDE DEF kept
    <2>5. kept = {old.item} /\ last = ItemMail(p, i)
        BY <2>1 DEF kept, i
    <2> QED
        BY <2>2, <2>4, <2>5
<1> HIDE DEF d, x, c, t, s, old, cut, fee, out, last
<1>9. PICK b : Ends(d, a, fee, {}, b)
    BY <1>2, <1>3, <1>5, EndMoves
<1> DEFINE gold == (old.bid + old.deposit) - fee
           L == {old.item}
           bag == x.bag
           money == x.money - cut
<1>10. /\ b = Apply(d, t) /\ DOMAIN t = DOMAIN NoWrites /\ t.login = None /\ t.listed = <<>> /\ Sound(b, gold, L)
       /\ Touches(d, b, {}, {})
       /\ b.money = d.money /\ b.mail = d.mail /\ b.inventory = d.inventory /\ b.instance = d.instance
       /\ b.auctionhouse = [d.auctionhouse EXCEPT ![a] = None]
    <2>1. {old.item} \ {} = {old.item}
        OBVIOUS
    <2> QED
        BY <1>3, <1>9, <2>1 DEF Ends, t
<1>11. MayPost(out, L) /\ MayPost(last, L) /\ L \ ItemsOfAll(out) = L /\ L \ ItemsOfAll(last) = {}
    BY <1>4, <1>7, <1>8
<1>12. ((gold + cut) - GoldOf(out)) - GoldOf(last) = 0
    <2>1. fee = old.deposit + cut
        BY DEF fee
    <2> QED
        BY <1>4, <1>5, <1>7, <1>8, <2>1
<1>13. OwnsOther(x, c, money, bag) /\ money = x.money - cut /\ bag = x.bag
    BY <1>6
<1> HIDE DEF gold, L, bag, money
<1>14. Buys(d, p, x, t, b, bag, gold, L)
    <2>1. ItemsOf(b, p) = bag
        BY <1>2, <1>10, <1>13 DEF ItemsOf
    <2>2. Touches(d, b, {p}, {})
        BY <1>10, TouchesMore
    <2> QED
        BY <1>2, <1>10, <2>1, <2>2 DEF Buys
<1>15. \E e : Bought(d, p, s, b, c, e, gold + cut, L)
    <2>1. cut \in Int
        BY <1>5
    <2> QED
        BY <1>13, <1>14, <2>1, BuyMoves DEF s
<1>16. PICK e : Bought(d, p, s, b, c, e, gold + cut, L)
    BY <1>15
<1>17. \E h : Effect(d, s, e, all, h, 0, {})
    <2>1. Effect(d, s, e, <<>>, e, gold + cut, L) /\ CanPost(all) /\ mailid \in Nat
        BY <1>1, <1>2, <1>16, StoreAssumption DEF Bought, Commit, PostAndCommit
    <2>2. CanPost(out)
        BY <1>7, <1>8, <2>1, CanPostFewer
    <2>3. PICK h1 : Effect(d, s, e, out, h1, (gold + cut) - GoldOf(out), L)
        <3>1. \E h : Effect(d, s, e, out, h, (gold + cut) - GoldOf(out), L \ ItemsOfAll(out))
            BY <1>7, <1>11, <2>1, <2>2, EffectFirst
        <3> QED
            BY <1>11, <3>1
    <2>4. \E h : Effect(d, s, e, out \o last, h, ((gold + cut) - GoldOf(out)) - GoldOf(last), L \ ItemsOfAll(last))
        BY <1>11, <2>1, <2>3, EffectMore
    <2> QED
        BY <1>11, <1>12, <2>4
<1>18. PICK h : Effect(d, s, e, all, h, 0, {})
    BY <1>17
<1>19. h.auctionhouse = b.auctionhouse => House(h)'
    <2> SUFFICES ASSUME h.auctionhouse = b.auctionhouse PROVE House(h)'
        OBVIOUS
    <2>1. h.auctionhouse = [d.auctionhouse EXCEPT ![a] = None]
        BY <1>10
    <2>2. /\ Sound(d, 0, {}) /\ House(d) /\ phase = "up" /\ phase' = phase /\ a \in DOMAIN auctions
          /\ auctions' = Without(a) /\ mAitems' \subseteq mAitems /\ auctionid' = auctionid
        BY <1>1, <1>2
    <2> QED
        BY <2>1, <2>2, HouseLoses
<1>20. c.mailsLoaded = char[p].mailsLoaded
    BY <1>6 DEF OwnsOther, x
<1> HIDE DEF all
<1> QED
    BY <1>1, <1>2, <1>16, <1>18, <1>19, <1>20, BuyHandled DEF d, Commit

(* Who acts on nobody. *)
LEMMA NobodyHandled ==
    ASSUME NEW f, GInv(f), phase = "up", phase' = phase, crashes' = crashes, auctionid' \in 1..MaxAuction + 1,
           NEW t, t.login = None, NEW drafts, NEW b, NEW e,
           Effect(f[Len(queue)], t, b, drafts, e, 0, {}), Touches(f[Len(queue)], b, {}, {}),
           PostAndCommit(t, char, drafts), House(e)'
    PROVE  \E g : GInv(g)'
<1> DEFINE P == {}
           D == {}
<1>1. DOMAIN char = Player
    BY DEF GInv, Server
<1>2. Handled(f[Len(queue)], t, char, drafts, b, e, P, D)
    BY <1>1 DEF Handled
<1>3. phase' = "up"
    OBVIOUS
<1> HIDE DEF P, D
<1> QED
    BY <1>2, <1>3, HandlerKeeps

(* An auction ends. *)
LEMMA ExpireStep ==
    ASSUME NEW f, GInv(f), NEW a, ExpireAuction(a)
    PROVE  \E g : GInv(g)'
<1> DEFINE d == f[Len(queue)]
           old == auctions[a]
           fee == IF old.bidder = None THEN old.deposit ELSE Fee(old)
           S == {old.item} \ mAitems
           t == EndWrites(a, fee, S)
           all == EndMails(old)
<1>1. /\ phase = "up" /\ a \in DOMAIN auctions
      /\ Commit(t, char, all)
      /\ auctions' = Without(a)
      /\ mAitems' \subseteq mAitems
      /\ phase' = phase /\ auctionid' = auctionid /\ crashes' = crashes
    BY DEF ExpireAuction, EndedAuction, EndWrites
<1>2. /\ d \in Tables /\ Sound(d, 0, {})
      /\ mailid \in 1..MaxMail + 1 /\ \A m \in RowsOf(d.mail) : m < mailid
      /\ House(d) /\ auctionid \in 1..MaxAuction + 1
    <2>1. Sound(d, 0, {})
        BY InTheEnd
    <2> QED
        BY <1>1, <2>1, MailIds DEF Sound, GInv, Server
<1>3. /\ a \in AuctionId /\ d.auctionhouse[a] = old /\ d.auctionhouse[a] # None /\ old \in AuctionRow
      /\ old.bidder = None => old.bid = 0
      /\ old.bid <= MaxMoney /\ old.deposit <= MaxMoney
    BY <1>1, <1>2, InHouse
<1>4. /\ old.bid \in Nat /\ old.deposit \in Nat /\ old.owner \in Player /\ old.item \in Item
      /\ old.bidder \in Player \union {None} /\ old.item # None
    BY <1>3, Keys DEF AuctionRow
<1>5. fee \in Nat
    <2>1. Fee(old) \in Nat
        <3> HIDE DEF old
        <3> QED
            BY <1>3, SuccessfulIs
    <2> QED
        BY <1>4, <2>1
<1>6. S \in SUBSET {old.item} /\ S = {old.item} \ mAitems
    OBVIOUS
<1> HIDE DEF d, old, fee, t, S
<1>7. PICK b : Ends(d, a, fee, S, b)
    BY <1>2, <1>3, <1>5, <1>6, EndMoves
<1> DEFINE gold == (old.bid + old.deposit) - fee
           L == {old.item} \ S
<1>6a. L = {old.item} \ ({old.item} \ mAitems)
    BY <1>6
<1>8. /\ b = Apply(d, t) /\ DOMAIN t = DOMAIN NoWrites /\ t.login = None /\ t.listed = <<>> /\ Sound(b, gold, L)
      /\ Touches(d, b, {}, {}) /\ b.mail = d.mail
      /\ b.auctionhouse = [d.auctionhouse EXCEPT ![a] = None]
    BY <1>3, <1>7 DEF Ends, t
<1> HIDE DEF gold, L
<1>9. Effect(d, t, b, <<>>, b, gold, L) /\ mailid \in Nat
    BY <1>2, <1>8, EffectNone, StoreAssumption
<1> HIDE DEF all
<1>10. CanPost(all)
    BY <1>1 DEF Commit, PostAndCommit
<1>11. \E h : Effect(d, t, b, all, h, 0, {})
    <2>1. CASE old.bidder = None
        <3> DEFINE last == ItemMail(old.owner, old.item)
        <3>1. /\ MayPost(last, L) /\ L \ ItemsOfAll(last) = {} /\ GoldOf(last) = 0 /\ last \in Seq(Drafts)
            BY <1>4, <1>6a, ItemMailIs
        <3>2. all = last
            BY <2>1 DEF all, EndMails, old
        <3> HIDE DEF last
        <3>3. \E h : Effect(d, t, b, last, h, gold - GoldOf(last), L \ ItemsOfAll(last))
            BY <1>9, <1>10, <3>1, <3>2, EffectFirst
        <3>4. gold - GoldOf(last) = 0 /\ L \ ItemsOfAll(last) = {}
            <4>1. fee = old.deposit /\ old.bid = 0
                BY <1>3, <2>1 DEF fee
            <4> QED
                BY <1>4, <3>1, <4>1 DEF gold
        <3> QED
            BY <3>2, <3>3, <3>4
    <2>2. CASE old.bidder # None
        <3> DEFINE paid == <<SuccessfulMail(old)>>
                   last == ItemMail(old.bidder, old.item)
                   cut == Fee(old)
        <3>1. /\ MayPost(last, L) /\ L \ ItemsOfAll(last) = {} /\ GoldOf(last) = 0 /\ last \in Seq(Drafts)
            BY <1>4, <1>6a, <2>2, ItemMailIs
        <3>2. /\ MayPost(paid, L) /\ ItemsOfAll(paid) = {None} /\ paid \in Seq(Drafts)
              /\ GoldOf(paid) = old.bid + old.deposit - cut /\ cut \in Nat
            BY <1>3, SuccessfulIs
        <3>3. all = paid \o last
            BY <2>2 DEF all, EndMails, old
        <3>4. cut \in Nat /\ fee = cut
            BY <2>2, <3>2 DEF fee
        <3> HIDE DEF paid, last, cut
        <3>5. CanPost(paid)
            BY <1>9, <1>10, <3>1, <3>2, <3>3, CanPostFewer
        <3>6. L \ ItemsOfAll(paid) = L /\ L \ ItemsOfAll(last) = {}
            BY <1>4, <3>1, <3>2 DEF L
        <3>7. PICK h1 : Effect(d, t, b, paid, h1, gold - GoldOf(paid), L)
            <4>1. \E h : Effect(d, t, b, paid, h, gold - GoldOf(paid), L \ ItemsOfAll(paid))
                BY <1>9, <3>2, <3>5, EffectFirst
            <4> QED
                BY <3>6, <4>1
        <3>8. \E h : Effect(d, t, b, paid \o last, h, (gold - GoldOf(paid)) - GoldOf(last), L \ ItemsOfAll(last))
            <4>1. MayPost(last, L) /\ CanPost(paid \o last)
                BY <1>10, <3>1, <3>3
            <4> QED
                BY <3>7, <4>1, EffectMore
        <3>9. (gold - GoldOf(paid)) - GoldOf(last) = 0
            BY <1>4, <3>1, <3>2, <3>4 DEF gold
        <3> QED
            BY <3>3, <3>6, <3>8, <3>9
    <2> QED
        BY <2>1, <2>2
<1>12. PICK h : Effect(d, t, b, all, h, 0, {})
    BY <1>11
<1>13. House(h)'
    <2>1. h.auctionhouse = [d.auctionhouse EXCEPT ![a] = None]
        BY <1>8, <1>12 DEF Effect
    <2> QED
        BY <1>1, <1>2, <2>1, HouseLoses
<1>14. auctionid' \in 1..MaxAuction + 1
    BY <1>1, <1>2
<1> QED
    BY <1>1, <1>8, <1>12, <1>13, <1>14, NobodyHandled DEF d, Commit

(* What becomes of what the mail old holds: its gold is a fee and its item is  *)
(* lost, or a draft has both.                                                  *)
HandedOn(old, fee, S, gone, drafts) ==
    /\ fee \in Nat /\ S \in SUBSET ({old.item} \ {None}) /\ gone \in SUBSET {old.item}
    /\ \/ drafts = <<>> /\ fee = Value(old.money) /\ S = {old.item} \ {None}
       \/ /\ \E draft \in Drafts : drafts = <<draft>> /\ draft.item = old.item /\ draft.money = old.money
          /\ fee = 0 /\ S = {}

(* A handler by which the mail m of p goes, with what it holds. *)
LEMMA GoneKeeps ==
    ASSUME NEW f, GInv(f), NEW p \in Player, Online(p), NEW m \in DOMAIN Owned(p), UNCHANGED house,
           NEW fee, NEW S, NEW gone, NEW c, c = WithoutOne(char[p], m, gone), NEW drafts,
           HandedOn(Owned(p)[m], fee, S, gone, drafts), NEW all, all = [char EXCEPT ![p] = c],
           PostAndCommit(GoneWrites(m, fee, S), all, drafts)
    PROVE  \E g : GInv(g)'
<1> DEFINE d == f[Len(queue)]
           x == char[p]
           i == Owned(p)[m].item
           sum == Owned(p)[m].money
           t == GoneWrites(m, fee, S)
           D == {m}
<1>1. /\ d \in Tables /\ Sound(d, 0, {}) /\ Current(d, p, x)
      /\ x.state = "online"
      /\ mailid \in 1..MaxMail + 1 /\ \A k \in RowsOf(d.mail) : k < mailid
      /\ House(d) /\ auctionid \in 1..MaxAuction + 1
    BY Before
<1>2. m \in MailId /\ Owned(p)[m] \in MemoryMail /\ IsThere(d, p, m, Owned(p)[m]) /\ m \in DOMAIN x.mails
      /\ x.mails[m].item = i
    BY OwnedAreThere DEF Owned
<1>3. /\ d.mail[m] # None /\ d.mail[m].money = sum /\ Inside(d, m) = {i} \ {None}
      /\ i \in Item \union {None} /\ sum \in Nat
    BY <1>2 DEF IsThere, MemoryMail
<1>4. /\ S \in SUBSET ({i} \ {None}) /\ gone \subseteq {x.mails[m].item} /\ fee \in Nat
      /\ PostAndCommit(t, [char EXCEPT ![p] = c], drafts)
      /\ \/ drafts = <<>> /\ fee = Value(sum) /\ S = {i} \ {None}
         \/ /\ \E draft \in Drafts : drafts = <<draft>> /\ draft.item = i /\ draft.money = sum
            /\ fee = 0 /\ S = {}
      /\ c = WithoutOne(x, m, gone)
    BY <1>2 DEF HandedOn
<1>5. D \in SUBSET DOMAIN Owned(p) /\ Online(p)
    OBVIOUS
<1> HIDE DEF d, x, i, sum, t
<1>6. PICK b : Goes(d, m, i, fee, S, b)
    BY <1>1, <1>2, <1>3, <1>4, MailIsGone
<1> DEFINE gold == Value(sum) - fee
           loose == ({i} \ {None}) \ S
<1>7. /\ b = Apply(d, t) /\ DOMAIN t = DOMAIN NoWrites /\ t.login = None /\ t.listed = <<>>
      /\ Sound(b, gold, loose) /\ Touches(d, b, {}, {m}) /\ b.auctionhouse = d.auctionhouse
      /\ b.mail = [d.mail EXCEPT ![m] = None]
    BY <1>3, <1>6 DEF Goes, t
<1> HIDE DEF gold, loose
<1>8. b \in Tables /\ \A k \in RowsOf(b.mail) \union RowsOf(d.mail) : k < mailid
    <2>1. RowsOf(b.mail) \subseteq RowsOf(d.mail)
        BY <1>1, <1>2, <1>7 DEF RowsOf, Tables
    <2> QED
        BY <1>1, <1>7, <2>1 DEF Sound
<1>9. \E e : Effect(d, t, b, drafts, e, 0, {})
    <2>1. CASE drafts = <<>> /\ fee = Value(sum) /\ S = {i} \ {None}
        <3>1. gold = 0 /\ loose = {}
            BY <1>3, <2>1, ValueOfBid DEF gold, loose
        <3>2. Effect(d, t, b, <<>>, b, 0, {})
            BY <1>1, <1>7, <1>8, <3>1, EffectNone
        <3> QED
            BY <2>1, <3>2
    <2>2. CASE /\ \E draft \in Drafts : drafts = <<draft>> /\ draft.item = i /\ draft.money = sum
               /\ fee = 0 /\ S = {}
        <3>1. PICK draft \in Drafts : drafts = <<draft>> /\ draft.item = i /\ draft.money = sum
            BY <2>2
        <3>2. draft.item \in loose \union {None} /\ loose \ {draft.item} = {} /\ gold - Value(draft.money) = 0
            BY <1>3, <2>2, <3>1, ValueOfBid DEF gold, loose
        <3>3. CanPost(<<draft>>)
            BY <1>4, <3>1 DEF PostAndCommit
        <3>4. \E e : Effect(d, t, b, <<draft>>, e, gold - Value(draft.money), loose \ {draft.item})
            BY <1>1, <1>7, <1>8, <3>2, <3>3, EffectOne
        <3> QED
            BY <3>1, <3>2, <3>4
    <2> QED
        BY <1>4, <2>1, <2>2
<1>10. PICK e : Effect(d, t, b, drafts, e, 0, {})
    BY <1>9
<1>11. Current(b, p, c) /\ c.mailsLoaded = x.mailsLoaded
    <2>1. d \in Tables /\ Current(d, p, x) /\ x.state = "online"
        BY <1>1
    <2>2. b \in Tables /\ Touches(d, b, {}, {m})
        BY <1>7, <1>8
    <2>3. m \in DOMAIN x.mails /\ gone \subseteq {x.mails[m].item} /\ c = WithoutOne(x, m, gone)
        BY <1>2, <1>4
    <2>4. MailWent(d, b, x, m, gone)
        BY <2>1, <2>2, <2>3 DEF MailWent
    <2> QED
        BY <2>1, <2>3, <2>4, WithoutMail
<1>12. Touches(d, b, {p}, D)
    BY <1>7, TouchesMore
<1>13. House(e)'
    <2>1. e.auctionhouse = d.auctionhouse
        BY <1>7, <1>10 DEF Effect
    <2> QED
        BY <1>1, <2>1, HouseStays
<1>14. phase' = phase /\ crashes' = crashes /\ auctionid' \in 1..MaxAuction + 1
    BY <1>1 DEF house
<1> HIDE DEF D
<1> QED
    BY <1>4, <1>5, <1>7, <1>10, <1>11, <1>12, <1>13, <1>14, OneHandled DEF d, x

(* A mail is returned. *)
LEMMA ReturnStep ==
    ASSUME NEW f, GInv(f), NEW p \in Player, NEW m, ReturnToSender(p, m), UNCHANGED house
    PROVE  \E g : GInv(g)'
<1> DEFINE d == f[Len(queue)]
           x == char[p]
           old == Owned(p)[m]
           draft == [Draft(old.sender, p, "normal") EXCEPT
                       !.money = old.money, !.returned = TRUE,
                       !.item = IF old.item \in char[p].mMitems THEN old.item ELSE None]
           c == [x EXCEPT !.mails = [k \in (DOMAIN @) \ {m} |-> @[k]]]
           t == [NoWrites EXCEPT !.mail = Only(m, None), !.cleared = {m}]
           S == {old.item} \ {None}
           fee == Value(old.money)
<1>1. /\ Online(p) /\ m \in DOMAIN Owned(p)
      /\ \/ Commit(t, [char EXCEPT ![p] = [c EXCEPT !.mMitems = @ \ {old.item}]], <<draft>>)
         \/ Commit([t EXCEPT !.fees = fee, !.lost = S], [char EXCEPT ![p] = c], <<>>)
    BY DEF ReturnToSender, Usable
<1>2. /\ d \in Tables /\ Sound(d, 0, {}) /\ Current(d, p, x) /\ x \in CharRec /\ x.state = "online"
    BY <1>1, Before
<1>3. m \in MailId /\ old \in MemoryMail /\ IsThere(d, p, m, old)
    BY <1>1, OwnedAreThere
<1>4. old.item \in x.mMitems \union {None} /\ x.mMitems \subseteq Item
    BY <1>1, <1>2 DEF Current, CharRec, Owned
<1>5. old.money \in 0..(Word - 1)
    <2>1. d.mail[m].money < Word
        BY <1>2, <1>3 DEF Sound, SumsInOrder, MailsInOrder, IsThere, Tables, RowsOf
    <2> QED
        BY <1>3, <2>1, WordIs DEF IsThere, MemoryMail
<1>6. draft \in Drafts /\ draft.money = old.money /\ draft.item = old.item
    BY <1>3, <1>4, <1>5, Keys DEF MemoryMail, Draft, Drafts
<1>7. fee \in Nat /\ S \in SUBSET ({old.item} \ {None}) /\ 0 \in Nat
    BY <1>5, ValueOfBid
<1>8. x = [k \in DOMAIN x |-> x[k]] /\ "mails" \in DOMAIN x /\ "mMitems" \in DOMAIN x
    BY <1>2 DEF CharRec
<1> HIDE DEF x, old, draft, fee, S
<1>9. CASE Commit(t, [char EXCEPT ![p] = [c EXCEPT !.mMitems = @ \ {old.item}]], <<draft>>)
    <2> DEFINE r == [c EXCEPT !.mMitems = @ \ {old.item}]
    <2>1. t = GoneWrites(m, 0, {})
        <3>1. t.fees = 0 /\ t.lost = {} /\ t = [k \in DOMAIN t |-> t[k]] /\ "lost" \in DOMAIN t /\ "fees" \in DOMAIN t
            BY DEF NoWrites
        <3>2. GoneWrites(m, 0, {}) = [t EXCEPT !.fees = 0, !.lost = {}]
            BY DEF GoneWrites
        <3> HIDE DEF t
        <3> QED
            BY <3>1, <3>2
    <2>2. r = WithoutOne(x, m, {old.item})
        BY <1>8 DEF WithoutOne
    <2>3. PostAndCommit(t, [char EXCEPT ![p] = r], <<draft>>)
        BY <1>9 DEF Commit
    <2> HIDE DEF t, r, c
    <2>4. PostAndCommit(GoneWrites(m, 0, {}), [char EXCEPT ![p] = r], <<draft>>)
        BY <2>1, <2>3
    <2> QED
        <3> DEFINE all == [char EXCEPT ![p] = r]
                   drafts == <<draft>>
                   none == {}
                   gone == {old.item}
        <3>1. HandedOn(Owned(p)[m], 0, none, gone, drafts)
            BY <1>6 DEF HandedOn, old
        <3>2. PostAndCommit(GoneWrites(m, 0, none), all, drafts) /\ r = WithoutOne(char[p], m, gone)
              /\ all = [char EXCEPT ![p] = r]
            BY <2>2, <2>4 DEF x
        <3> HIDE DEF all, drafts, none, gone
        <3> QED
            BY <1>1, <3>1, <3>2, GoneKeeps
<1>10. CASE Commit([t EXCEPT !.fees = fee, !.lost = S], [char EXCEPT ![p] = c], <<>>)
    <2>1. [t EXCEPT !.fees = fee, !.lost = S] = GoneWrites(m, fee, S)
        BY DEF GoneWrites
    <2>2. c = WithoutOne(x, m, {})
        <3>1. x.mMitems \ {} = x.mMitems
            OBVIOUS
        <3>2. c = [k \in DOMAIN c |-> c[k]] /\ c.mMitems = x.mMitems /\ "mMitems" \in DOMAIN c
            BY <1>8
        <3>3. WithoutOne(x, m, {}) = [c EXCEPT !.mMitems = @ \ {}]
            BY DEF WithoutOne
        <3> HIDE DEF c
        <3> QED
            BY <3>1, <3>2, <3>3
    <2>3. PostAndCommit(GoneWrites(m, fee, S), [char EXCEPT ![p] = c], <<>>)
        BY <1>10, <2>1 DEF Commit
    <2>4. {} \in SUBSET {Owned(p)[m].item} /\ fee = Value(Owned(p)[m].money) /\ S = {Owned(p)[m].item} \ {None}
        BY DEF fee, S, old
    <2> DEFINE none == <<>>
               all == [char EXCEPT ![p] = c]
               gone == {}
    <2>5. PostAndCommit(GoneWrites(m, fee, S), all, none) /\ all = [char EXCEPT ![p] = c]
        BY <2>3
    <2>6. c = WithoutOne(char[p], m, gone)
        BY <2>2 DEF x
    <2>7. HandedOn(Owned(p)[m], fee, S, gone, none)
        BY <1>7, <2>4 DEF HandedOn
    <2> HIDE DEF c, t, none, all, gone
    <2> QED
        BY <1>1, <2>5, <2>6, <2>7, GoneKeeps
<1> QED
    BY <1>1, <1>9, <1>10

(* A handler that takes something out of a mail. *)
LEMMA TakenKeeps ==
    ASSUME NEW f, GInv(f), NEW p \in Player, Online(p), UNCHANGED house,
           NEW t, NEW c, NEW m \in DOMAIN Owned(p), NEW y, NEW b, NEW gold,
           Takes(f[Len(queue)], t, p, char[p], c, m, y, b, gold), NEW drafts,
           PostAndCommit(SaveMail(SaveGoldToDB(t, p, c), c), [char EXCEPT ![p] = MailSaved(c)], drafts),
           \/ drafts = <<>> /\ gold = 0
           \/ \E draft \in Drafts : drafts = <<draft>> /\ Value(draft.money) = gold /\ draft.item = None
    PROVE  \E g : GInv(g)'
<1> DEFINE d == f[Len(queue)]
           x == char[p]
           s == SaveGoldToDB(t, p, c)
           w == SaveMail(s, c)
           D == {m} \union Deleted(c)
<1>1. /\ d \in Tables /\ Sound(d, 0, {}) /\ Current(d, p, x)
      /\ x.state = "online"
      /\ mailid \in 1..MaxMail + 1 /\ \A k \in RowsOf(d.mail) : k < mailid
      /\ House(d) /\ auctionid \in 1..MaxAuction + 1
    BY Before
<1>2. m \in DOMAIN x.mails /\ Takes(d, t, p, x, c, m, y, b, gold)
    BY DEF Owned
<1> HIDE DEF d, x
<1>3. PICK e : MailIsSaved(d, s, p, c, b, e, gold, {})
    BY <1>1, <1>2, TakenMoves
<1>4. /\ e = Apply(d, w) /\ DOMAIN w = DOMAIN NoWrites /\ w.listed = <<>> /\ w.login = s.login /\ Sound(e, gold, {})
      /\ Touches(b, e, {}, IF c.mailsLoaded THEN Deleted(c) ELSE {})
      /\ e.auctionhouse = b.auctionhouse /\ RowsOf(e.mail) \subseteq RowsOf(b.mail)
      /\ Current(e, p, MailSaved(c)) /\ MailSaved(c).mailsLoaded = c.mailsLoaded
    BY <1>3 DEF MailIsSaved
<1>5. s.login = None
    <2>1. DOMAIN t = DOMAIN NoWrites /\ t.money = <<>> /\ t.login = None
        BY <1>2 DEF Takes, NoMails
    <2>2. GoldIsWritten(d, t, p, c.money, s)
        BY <1>1, <2>1, GoldWritten
    <2> QED
        BY <2>1, <2>2 DEF GoldIsWritten
<1>6. /\ Sound(b, gold, {}) /\ Touches(d, b, {p}, {m}) /\ b.auctionhouse = d.auctionhouse
      /\ RowsOf(b.mail) \subseteq RowsOf(d.mail) /\ DOMAIN c.mails = DOMAIN x.mails /\ c.mailsLoaded = x.mailsLoaded
    BY <1>2 DEF Takes, Opens
<1>7. b \in Tables /\ e \in Tables
    BY <1>4, <1>6 DEF Sound
<1>8. Touches(d, e, {p}, D)
    <2>1. Touches(b, e, {}, Deleted(c))
        BY <1>4, TouchesMore
    <2>2. Touches(d, e, {p} \union {}, {m} \union Deleted(c))
        BY <1>1, <1>6, <1>7, <2>1, TouchesBoth
    <2> QED
        BY <2>2
<1>9. D \in SUBSET DOMAIN Owned(p)
    BY <1>6 DEF Deleted, Owned, x
<1> HIDE DEF s, w, D
<1>10. PostAndCommit(w, [char EXCEPT ![p] = MailSaved(c)], drafts) /\ w.login = None
    BY <1>4, <1>5 DEF w, s
<1>11. \A k \in RowsOf(e.mail) \union RowsOf(d.mail) : k < mailid
    BY <1>1, <1>4, <1>6
<1>12. \E h : Effect(d, w, e, drafts, h, 0, {})
    <2>1. CASE drafts = <<>> /\ gold = 0
        <3>1. Effect(d, w, e, <<>>, e, 0, {})
            BY <1>1, <1>4, <1>11, <2>1, EffectNone
        <3> QED
            BY <2>1, <3>1
    <2>2. CASE \E draft \in Drafts : drafts = <<draft>> /\ Value(draft.money) = gold /\ draft.item = None
        <3>1. PICK draft \in Drafts : drafts = <<draft>> /\ Value(draft.money) = gold /\ draft.item = None
            BY <2>2
        <3> DEFINE L == {}
        <3>2. draft.item \in L \union {None} /\ L \ {draft.item} = {} /\ gold - Value(draft.money) = 0
            BY <3>1, ValueOfBid DEF Drafts
        <3>3. CanPost(<<draft>>) /\ Sound(e, gold, L)
            BY <1>4, <1>10, <3>1 DEF PostAndCommit
        <3>4. L = {}
            OBVIOUS
        <3> HIDE DEF L
        <3>5. \E h : Effect(d, w, e, <<draft>>, h, gold - Value(draft.money), L \ {draft.item})
            BY <1>1, <1>4, <1>11, <3>2, <3>3, EffectOne
        <3> QED
            BY <3>1, <3>2, <3>5
    <2> QED
        BY <2>1, <2>2
<1>13. PICK h : Effect(d, w, e, drafts, h, 0, {})
    BY <1>12
<1>14. House(h)'
    <2>1. h.auctionhouse = d.auctionhouse
        BY <1>4, <1>6, <1>13 DEF Effect
    <2> QED
        BY <1>1, <2>1, HouseStays
<1>15. phase' = phase /\ crashes' = crashes /\ auctionid' \in 1..MaxAuction + 1
    BY <1>1 DEF house
<1>16. Current(e, p, MailSaved(c)) /\ MailSaved(c).mailsLoaded = char[p].mailsLoaded
    BY <1>4, <1>6 DEF x
<1> QED
    BY <1>8, <1>9, <1>10, <1>13, <1>14, <1>15, <1>16, OneHandled DEF d

(* The gold of a mail is taken. *)
LEMMA TakeMoneyStep ==
    ASSUME NEW f, GInv(f), NEW p \in Player, NEW m, TakeMoney(p, m), UNCHANGED house
    PROVE  \E g : GInv(g)'
<1> DEFINE d == f[Len(queue)]
           x == char[p]
           old == Owned(p)[m]
           y == [old EXCEPT !.money = 0, !.state = "changed"]
           c == [WithMoney(x, old.money) EXCEPT !.mails[m] = [@ EXCEPT !.money = 0, !.state = "changed"]]
           v == WithMoney(x, old.money).money
           gone == x.money + Value(old.money) - c.money
           t == [NoWrites EXCEPT !.fees = gone]
           row == WithSums(d.mail[m], 0, d.mail[m].cod)
<1>1. /\ Online(p) /\ m \in DOMAIN Owned(p)
      /\ Commit(SaveMail(SaveGoldToDB(t, p, c), c), [char EXCEPT ![p] = MailSaved(c)], <<>>)
    BY DEF TakeMoney, Usable
<1>2. /\ d \in Tables /\ Sound(d, 0, {}) /\ Current(d, p, x) /\ x \in CharRec
      /\ x.state = "online" /\ x.bag = ItemsOf(d, p) /\ x.money = d.money[p]
      /\ x.money \in Nat /\ x.bag \in SUBSET Item
    BY <1>1, Before
<1>3. m \in MailId /\ old \in MemoryMail /\ IsThere(d, p, m, old)
    BY <1>1, OwnedAreThere
<1>4. /\ d.mail[m] # None /\ d.mail[m] \in MailRow /\ d.mail[m].receiver = p /\ d.mail[m].money = old.money
      /\ d.mail[m].cod = old.cod /\ Inside(d, m) = {old.item} \ {None}
      /\ old.money \in Nat /\ old.cod \in Nat
    BY <1>2, <1>3 DEF IsThere, Tables, MemoryMail
<1>5. y \in MemoryMail /\ y.money = 0 /\ y.cod = old.cod /\ y.item = old.item /\ y.state = "changed"
    BY <1>3 DEF MemoryMail
<1>6. /\ v \in 0..MaxMoney /\ x.money + Value(old.money) - v \in Nat
      /\ WithMoney(x, old.money) = [x EXCEPT !.money = v]
    <2>1. old.money < Word
        BY <1>2, <1>3, <1>4 DEF Sound, SumsInOrder, MailsInOrder, Tables, RowsOf
    <2> QED
        BY <1>2, <1>4, <2>1, WithMoneyIs
<1>6a. v \in Int /\ Value(old.money) \in Nat
    BY <1>4, <1>6, ValueOfBid, WordIs
<1>7. x.mails[m] = old /\ m \in DOMAIN x.mails
    BY <1>1 DEF Owned
<1> HIDE DEF v
<1> DEFINE mails == [x.mails EXCEPT ![m] = y]
           bag == x.bag
           items == x.mMitems
<1>8. c = [x EXCEPT !.money = v, !.bag = bag, !.mMitems = items, !.mails = mails]
    <2>1. c = [[x EXCEPT !.money = v] EXCEPT !.mails[m] = [@ EXCEPT !.money = 0, !.state = "changed"]]
        BY <1>6
    <2> QED
        BY <1>2, <1>7, <2>1 DEF CharRec
<1> HIDE DEF c, y, old, d
<1>9. Opens(x, c, m, y, v, bag)
    <2>1. mails = [x.mails EXCEPT ![m] = y]
        OBVIOUS
    <2>3. \A k \in DOMAIN mails : mails[k].item \in items \union {None}
        <3>1. \A k \in DOMAIN x.mails : x.mails[k].item \in items \union {None}
            BY <1>2 DEF Current
        <3> QED
            BY <1>5, <1>7, <3>1
    <2> HIDE DEF mails, x, bag, items
    <2>2. x \in CharRec /\ bag \in SUBSET Item /\ items \in SUBSET Item
        BY <1>2 DEF bag, items, CharRec
    <2>4. v \in 0..MaxMoney /\ y \in MemoryMail /\ m \in DOMAIN x.mails
        BY <1>5, <1>6, <1>7
    <2> QED
        BY <1>8, <2>1, <2>2, <2>3, <2>4, OpenedIs
<1>10. c.money = v /\ c.bag = x.bag
    BY <1>9 DEF Opens
<1>11. gone \in Nat /\ gone + v = d.money[p] + Value(d.mail[m].money)
    BY <1>2, <1>4, <1>6, <1>6a, <1>10
<1>12. /\ t.money = <<>> /\ t.destroyed = {} /\ t.mail = <<>> /\ t.auctionhouse = <<>>
       /\ t.listed = <<>> /\ t.unlisted = {} /\ t.cleared = {} /\ t.created = {} /\ t.lost = {}
       /\ t.inventory = <<>> /\ t.fees = gone /\ t.login = None /\ DOMAIN t = DOMAIN NoWrites
    BY DEF NoWrites
<1> HIDE DEF t, gone, x, row, items
<1>13. PICK b : /\ Sound(b, 0, {}) /\ Touches(d, b, {p}, {m}) /\ Inside(b, m) = Inside(d, m)
                /\ b.money = [d.money EXCEPT ![p] = v] /\ b.instance = d.instance
                /\ b.inventory = d.inventory /\ b.mail_items = d.mail_items
                /\ b.auctionhouse = d.auctionhouse /\ b.fees = d.fees + gone /\ b.lost = d.lost
                /\ b.mail = [d.mail EXCEPT ![m] = row]
    <2>1. /\ Sound(d, 0, {}) /\ m \in MailId /\ d.mail[m] # None /\ v \in 0..MaxMoney /\ gone \in Nat
          /\ gone + v = d.money[p] + Value(d.mail[m].money)
        BY <1>2, <1>3, <1>4, <1>6, <1>11
    <2>2. row = WithSums(d.mail[m], 0, d.mail[m].cod)
        BY DEF row
    <2>3. PICK b : GoldTaken(d, p, m, v, gone, b)
        BY <2>1, GoldIsTaken
    <2> QED
        BY <2>2, <2>3 DEF GoldTaken
<1>14. row \in MailRow /\ row # None /\ row.receiver = p /\ row.money = y.money /\ row.cod = y.cod
       /\ row = WithSums(d.mail[m], y.money, y.cod)
    <2> DEFINE r == d.mail[m]
    <2>1. r \in MailRow /\ y.money \in Nat /\ y.cod \in Nat /\ row = WithSums(r, y.money, y.cod) /\ r.receiver = p
        BY <1>4, <1>5 DEF row
    <2> DEFINE u == y.money
               w == y.cod
    <2>2. r \in MailRow /\ u \in Nat /\ w \in Nat
        BY <2>1
    <2> HIDE DEF r, u, w
    <2>3. /\ WithSums(r, u, w) \in MailRow /\ WithSums(r, u, w) # None
          /\ WithSums(r, u, w).receiver = r.receiver
          /\ WithSums(r, u, w).money = u /\ WithSums(r, u, w).cod = w
        BY <2>2, WithSumsIs
    <2>4. row = WithSums(r, u, w) /\ r.receiver = p
        BY <2>1 DEF u, w
    <2> QED
        BY <2>3, <2>4 DEF u, w, r
<1>15. b.mail[m] = row /\ RowsOf(b.mail) \subseteq RowsOf(d.mail)
    BY <1>2, <1>3, <1>4, <1>13 DEF Tables, RowsOf
<1>16. Takes(d, t, p, x, c, m, y, b, 0)
    <2>1. NoMails(t)
        BY <1>11, <1>12 DEF NoMails
    <2>2. b.inventory = Override(t.inventory, d.inventory) /\ b.mail_items = Unlisted(d, t)
          /\ t.created \subseteq d.instance /\ b.lost = d.lost \union t.lost
        <3>1. Override(<<>>, d.inventory) = d.inventory /\ Unlisted(d, t) = d.mail_items
            BY <1>2, <1>12, NotWritten, NothingListed
        <3> QED
            BY <1>12, <1>13, <3>1
    <2>3. IsThere(b, p, m, y)
        BY <1>4, <1>5, <1>13, <1>14, <1>15 DEF IsThere
    <2>4. ItemsOf(b, p) = c.bag
        BY <1>2, <1>10, <1>13 DEF ItemsOf
    <2>5. Opens(x, c, m, y, c.money, c.bag)
        BY <1>9, <1>10 DEF bag
    <2>6. /\ Sound(b, 0, {}) /\ Touches(d, b, {p}, {m}) /\ b.instance = d.instance
          /\ b.money = [d.money EXCEPT ![p] = c.money]
          /\ b.auctionhouse = d.auctionhouse /\ b.fees = d.fees + t.fees
          /\ b.mail = [d.mail EXCEPT ![m] = WithSums(d.mail[m], y.money, y.cod)]
        <3>1. [d.mail EXCEPT ![m] = row] = [d.mail EXCEPT ![m] = WithSums(d.mail[m], y.money, y.cod)]
            BY <1>14
        <3> QED
            BY <1>10, <1>12, <1>13, <3>1
    <2> QED
        BY <1>5, <1>12, <1>15, <2>1, <2>2, <2>3, <2>4, <2>5, <2>6 DEF Takes
<1> QED
    BY <1>1, <1>16, TakenKeeps DEF d, x, Commit

(* A character who has put the item i into his bag.                            *)
LEMMA ItemOut ==
    ASSUME NEW x \in CharRec, NEW m, NEW i, NEW v, NEW y
    PROVE  [[x EXCEPT !.money = v] EXCEPT !.bag = @ \union {i}, !.mMitems = @ \ {i}, !.mails[m] = y]
           = [x EXCEPT !.money = v, !.bag = x.bag \union {i}, !.mMitems = x.mMitems \ {i},
                       !.mails = [x.mails EXCEPT ![m] = y]]
BY DEF CharRec

(* The item of a mail is taken. *)
LEMMA TakeItemStep ==
    ASSUME NEW f, GInv(f), NEW p \in Player, NEW m, NEW i \in Item, TakeItem(p, m, i), ~astray', UNCHANGED house
    PROVE  \E g : GInv(g)'
<1> DEFINE d == f[Len(queue)]
           x == char[p]
           old == Owned(p)[m]
           sum == old.cod
           y == [old EXCEPT !.item = IF @ = i THEN None ELSE @, !.cod = 0, !.state = "changed"]
           c == [Paid(x, sum) EXCEPT !.bag = @ \union {i}, !.mMitems = @ \ {i}, !.mails[m] = y]
           payment == [Draft(old.sender, p, "normal") EXCEPT !.money = sum, !.returned = TRUE]
           drafts == IF sum > 0 THEN <<payment>> ELSE <<>>
           t == [NoWrites EXCEPT !.inventory = Only(i, p), !.created = {i}, !.unlisted = {i}]
           v == x.money - sum
<1>1. /\ Online(p) /\ m \in DOMAIN Owned(p) /\ i # None /\ x.money >= sum /\ old.item = i
      /\ PostAndCommit(SaveMail(SaveGoldToDB(t, p, c), c), [char EXCEPT ![p] = MailSaved(c)], drafts)
    BY Keys DEF TakeItem, Usable
<1>2. /\ d \in Tables /\ Sound(d, 0, {}) /\ Current(d, p, x) /\ x \in CharRec
      /\ x.state = "online" /\ x.bag = ItemsOf(d, p) /\ x.money = d.money[p]
      /\ x.money \in Nat /\ x.bag \in SUBSET Item
    BY <1>1, Before
<1>3. m \in MailId /\ old \in MemoryMail /\ IsThere(d, p, m, old)
    BY <1>1, OwnedAreThere
<1>4. /\ d.mail[m] # None /\ d.mail[m] \in MailRow /\ d.mail[m].receiver = p /\ d.mail[m].money = old.money
      /\ d.mail[m].cod = sum /\ Inside(d, m) = {i} /\ i \in d.instance
      /\ old.money \in Nat /\ sum \in Nat
    <2>1. Inside(d, m) = {i}
        BY <1>1, <1>3 DEF IsThere
    <2> QED
        BY <1>1, <1>2, <1>3, <2>1 DEF IsThere, Tables, MemoryMail, Inside
<1>5. y \in MemoryMail /\ y.money = old.money /\ y.cod = 0 /\ y.item = None /\ y.state = "changed"
    BY <1>1, <1>3 DEF MemoryMail
<1>6. v \in 0..MaxMoney /\ Paid(x, sum) = [x EXCEPT !.money = v]
    <2>1. x.money \in 0..MaxMoney
        BY <1>2 DEF CharRec
    <2>2. Paid(x, sum) = [x EXCEPT !.money = IF x.money > sum THEN x.money - sum ELSE 0]
        BY DEF Paid
    <2>3. (IF x.money > sum THEN x.money - sum ELSE 0) = v
        BY <1>1, <1>4, <2>1
    <2> QED
        BY <1>1, <1>4, <2>1, <2>2, <2>3, MailAssumption
<1>e. sum \in 0..(Word - 1) /\ Value(sum) = sum
    <2>1. x.money <= MaxMoney /\ MaxMoney < Half
        BY <1>2, MailAssumption DEF CharRec
    <2> QED
        BY <1>1, <1>2, <1>4, <2>1, WordIs, MailAssumption DEF Value
<1>7. x.mails[m] = old /\ m \in DOMAIN x.mails
    BY <1>1 DEF Owned
<1>a. \/ drafts = <<>> /\ sum = 0
      \/ \E draft \in Drafts : drafts = <<draft>> /\ Value(draft.money) = sum /\ draft.item = None
    <2>1. payment \in Drafts /\ Value(payment.money) = sum /\ payment.item = None
        BY <1>3, <1>e DEF MemoryMail, Draft, Drafts
    <2> HIDE DEF payment
    <2> QED
        BY <1>4, <2>1
<1> HIDE DEF v, drafts
<1> DEFINE mails == [x.mails EXCEPT ![m] = y]
           bag == x.bag \union {i}
           items == x.mMitems \ {i}
<1>8. c = [x EXCEPT !.money = v, !.bag = bag, !.mMitems = items, !.mails = mails]
    <2>1. c = [[x EXCEPT !.money = v] EXCEPT !.bag = @ \union {i}, !.mMitems = @ \ {i}, !.mails[m] = y]
        BY <1>6
    <2> HIDE DEF x, c, y, v
    <2> QED
        BY <1>2, <2>1, ItemOut
<1> HIDE DEF c, y, old, d
<1>9. Opens(x, c, m, y, v, bag)
    <2>1. mails = [x.mails EXCEPT ![m] = y]
        OBVIOUS
    <2>2. x \in CharRec /\ bag \in SUBSET Item /\ items \in SUBSET Item
        BY <1>2, <1>4 DEF CharRec
    <2>3. \A k \in DOMAIN mails : mails[k].item \in items \union {None}
        <3> SUFFICES ASSUME NEW k \in DOMAIN x.mails, k # m, x.mails[k].item # None
                     PROVE  x.mails[k].item \in items
            BY <1>5, <1>7
        <3>1. x.mails[k].item \in x.mMitems
            BY <1>2 DEF Current
        <3>2. IsThere(d, p, k, x.mails[k])
            BY <1>1, OwnedAreThere DEF Owned, d
        <3>3. x.mails[k].item \in Inside(d, k)
            BY <3>2 DEF IsThere
        <3>4. x.mails[k].item # i
            BY <1>4, <3>3 DEF Inside
        <3> QED
            BY <3>1, <3>4
    <2> HIDE DEF mails, x, bag, items
    <2>4. v \in 0..MaxMoney /\ y \in MemoryMail /\ m \in DOMAIN x.mails
        BY <1>5, <1>6, <1>7
    <2> QED
        BY <1>8, <2>1, <2>2, <2>3, <2>4, OpenedIs
<1>10. c.money = v /\ c.bag = bag
    BY <1>9 DEF Opens
<1>12. /\ t.money = <<>> /\ t.destroyed = {} /\ t.mail = <<>> /\ t.auctionhouse = <<>>
       /\ t.listed = <<>> /\ t.unlisted = {i} /\ t.cleared = {} /\ t.created = {i} /\ t.lost = {}
       /\ t.inventory = Only(i, p) /\ t.fees = 0 /\ t.login = None /\ DOMAIN t = DOMAIN NoWrites
    BY DEF NoWrites
<1>b. v = d.money[p] - sum /\ sum <= d.money[p]
    BY <1>1, <1>2, <1>4 DEF v
<1> HIDE DEF t, x, bag, sum, items
<1>13. PICK b : ItemTaken(d, p, m, i, sum, b)
    BY <1>2, <1>3, <1>4, <1>b, ItemIsTaken
<1> DEFINE row == WithSums(d.mail[m], y.money, y.cod)
<1>14. row \in MailRow /\ row # None /\ row.receiver = p /\ row.money = y.money /\ row.cod = y.cod
       /\ row = WithSums(d.mail[m], d.mail[m].money, 0)
    <2> DEFINE r == d.mail[m]
               u == y.money
               w == y.cod
    <2>1. r \in MailRow /\ u \in Nat /\ w \in Nat /\ row = WithSums(r, u, w) /\ r.receiver = p
        BY <1>4, <1>5
    <2> HIDE DEF r, u, w
    <2>2. /\ WithSums(r, u, w) \in MailRow /\ WithSums(r, u, w) # None
          /\ WithSums(r, u, w).receiver = r.receiver
          /\ WithSums(r, u, w).money = u /\ WithSums(r, u, w).cod = w
        BY <2>1, WithSumsIs
    <2>3. row = WithSums(d.mail[m], d.mail[m].money, 0)
        BY <1>4, <1>5
    <2> HIDE DEF row
    <2> QED
        BY <2>1, <2>2, <2>3 DEF u, w
<1> HIDE DEF row
<1>15. b.mail = [d.mail EXCEPT ![m] = row]
    BY <1>13, <1>14 DEF ItemTaken
<1>16. b.mail[m] = row /\ RowsOf(b.mail) \subseteq RowsOf(d.mail)
    BY <1>2, <1>3, <1>4, <1>15 DEF Tables, RowsOf
<1>17. Takes(d, t, p, x, c, m, y, b, sum)
    <2>1. NoMails(t)
        BY <1>12 DEF NoMails
    <2>2. b.inventory = Override(t.inventory, d.inventory) /\ b.mail_items = Unlisted(d, t)
          /\ t.created \subseteq d.instance /\ b.lost = d.lost \union t.lost
        <3>1. Override(Only(i, p), d.inventory) = [d.inventory EXCEPT ![i] = p]
            BY <1>2, <1>4, InventoryWritten
        <3>2. Unlisted(d, t) = [d.mail_items EXCEPT ![i] = None]
            <4>1. d.mail_items \in [Item -> MailId \union {None}]
                BY <1>2 DEF Tables
            <4> QED
                BY <1>12, <4>1 DEF Unlisted
        <3> QED
            BY <1>4, <1>12, <1>13, <3>1, <3>2 DEF ItemTaken
    <2>3. IsThere(b, p, m, y)
        <3>1. Inside(b, m) = {} /\ {y.item} \ {None} = {}
            BY <1>5, <1>13 DEF ItemTaken
        <3> QED
            BY <1>14, <1>16, <3>1 DEF IsThere
    <2>4. ItemsOf(b, p) = c.bag
        BY <1>2, <1>10, <1>13 DEF ItemTaken, bag
    <2>5. Opens(x, c, m, y, c.money, c.bag)
        BY <1>9, <1>10
    <2>6. /\ Sound(b, sum, {}) /\ Touches(d, b, {p}, {m}) /\ b.instance = d.instance
          /\ b.money = [d.money EXCEPT ![p] = c.money]
          /\ b.auctionhouse = d.auctionhouse /\ b.fees = d.fees + t.fees
        <3>1. d.fees + t.fees = d.fees
            BY <1>2, <1>12 DEF Tables
        <3> QED
            BY <1>10, <1>13, <1>b, <3>1 DEF ItemTaken
    <2>7. b.mail = [d.mail EXCEPT ![m] = WithSums(d.mail[m], y.money, y.cod)]
        BY <1>15 DEF row
    <2> QED
        BY <1>5, <1>12, <1>16, <2>1, <2>2, <2>3, <2>4, <2>5, <2>6, <2>7 DEF Takes
<1> QED
    BY <1>1, <1>17, <1>a, TakenKeeps DEF d, x

(* The exchange, of the items that can be stored, when none is dropped.        *)
Traded(p, q, G, H) ==
    LET cp == Exchanged(p, G, H)
        cq == Exchanged(q, H, G)
        t == SwapWrites(p, q, G, H, CutOff(p) + CutOff(q))
    IN  PostAndCommit(SaveGoldToDB(SaveGoldToDB(t, p, cp), q, cq), [char EXCEPT ![p] = cp, ![q] = cq], <<>>)

LEMMA TradeIs ==
    ASSUME NEW p, CompleteTrade(p), ~astray'
    PROVE  /\ Trading(p) /\ BothCanPay(p)
           /\ \E G \in SUBSET Given(p) : \E H \in SUBSET Given(Partner(p)) : Traded(p, Partner(p), G, H)
<1> DEFINE q == Partner(p)
           Swap(G, H, dropped, gone) ==
              LET cp == Exchanged(p, G, H \ dropped)
                  cq == Exchanged(q, H, G \ dropped)
                  stored == (G \union H) \ dropped
                  t == [NoWrites EXCEPT
                          !.inventory = [i \in stored \union gone |->
                                           IF i \in gone THEN None ELSE IF i \in G THEN q ELSE p],
                          !.fees = CutOff(p) + CutOff(q),
                          !.lost = gone]
              IN  PostAndCommit(SaveGoldToDB(SaveGoldToDB(t, p, cp), q, cq), [char EXCEPT ![p] = cp, ![q] = cq], <<>>)
<1>1. Trading(p) /\ BothCanPay(p)
    BY DEF CompleteTrade
<1>2. PICK back \in SUBSET (Given(p) \union Given(q)), dropped \in SUBSET (Given(p) \union Given(q)) :
         \E gone \in SUBSET dropped :
            /\ Swap(Given(p) \ back, Given(q) \ back, dropped, gone)
            /\ astray' = (astray \/ dropped # {})
    BY DEF CompleteTrade
<1>3. dropped = {}
    BY <1>2
<1> DEFINE G == Given(p) \ back
           H == Given(q) \ back
           none == {}
<1>4. Swap(G, H, none, none)
    <2> HIDE DEF Swap
    <2> QED
        BY <1>2, <1>3
<1>5. Traded(p, q, G, H)
    <2>1. G \ none = G /\ H \ none = H /\ ((G \union H) \ none) \union none = G \union H
        OBVIOUS
    <2> DEFINE cut == CutOff(p) + CutOff(q)
               g == [i \in G \union H |-> IF i \in G THEN q ELSE p]
               h == [i \in ((G \union H) \ none) \union none |->
                       IF i \in none THEN None ELSE IF i \in G THEN q ELSE p]
    <2>2. h = g
        OBVIOUS
    <2>3. [NoWrites EXCEPT !.inventory = g, !.fees = cut, !.lost = none] = [NoWrites EXCEPT !.inventory = g, !.fees = cut]
        <3> DEFINE w == [NoWrites EXCEPT !.inventory = g, !.fees = cut]
        <3> HIDE DEF g, cut
        <3>1. w.lost = none /\ w = [k \in DOMAIN w |-> w[k]]
            BY DEF NoWrites
        <3>2. [NoWrites EXCEPT !.inventory = g, !.fees = cut, !.lost = none] = [w EXCEPT !.lost = none]
            OBVIOUS
        <3> HIDE DEF w, none
        <3>3. [w EXCEPT !.lost = none] = w
            BY <3>1
        <3> QED
            BY <3>2, <3>3 DEF w
    <2> HIDE DEF G, H, none, cut, g, h
    <2>4. [NoWrites EXCEPT !.inventory = h, !.fees = cut, !.lost = none] = SwapWrites(p, q, G, H, cut)
        BY <2>2, <2>3 DEF SwapWrites, g
    <2> QED
        BY <1>4, <2>1, <2>4 DEF Traded, cut, h
<1>6. G \in SUBSET Given(p) /\ H \in SUBSET Given(q)
    OBVIOUS
<1> HIDE DEF G, H, Swap
<1> QED
    BY <1>1, <1>5, <1>6

(* A trade is completed. *)
LEMMA CompleteTradeStep ==
    ASSUME NEW f, GInv(f), TInv, NEW p \in Player, CompleteTrade(p), ~astray', UNCHANGED house
    PROVE  \E g : GInv(g)'
<1>0. PICK G \in SUBSET Given(p), H \in SUBSET Given(Partner(p)) : Traded(p, Partner(p), G, H)
    BY TradeIs
<1> DEFINE d == f[Len(queue)]
           q == Partner(p)
           x == char[p]
           y == char[q]
           cp == Exchanged(p, G, H)
           cq == Exchanged(q, H, G)
           cut == CutOff(p) + CutOff(q)
           mine == trade[p].money
           his == trade[q].money
           t == SwapWrites(p, q, G, H, cut)
           s == SaveGoldToDB(SaveGoldToDB(t, p, cp), q, cq)
           all == [char EXCEPT ![p] = cp, ![q] = cq]
           D == {}
           P == {p, q}
<1>1. /\ Trading(p) /\ BothCanPay(p) /\ PostAndCommit(s, all, <<>>)
    BY <1>0, TradeIs DEF Traded
<1>2. /\ q \in Player /\ q # p /\ Partner(q) = p /\ Online(p) /\ Online(q)
    BY <1>1, Partners DEF Trading
<1>3. mine \in Nat /\ his \in Nat
    BY <1>2 DEF TInv, TradeData
<1>4. mine <= x.money /\ his <= y.money
    <2>1. x.money \in Nat /\ y.money \in Nat
        BY <1>2, Before
    <2> QED
        BY <1>1, <1>3, <2>1 DEF BothCanPay, HasEnoughMoney
<1>5. /\ d \in Tables /\ Sound(d, 0, {}) /\ Current(d, p, x) /\ x \in CharRec
      /\ x.state = "online" /\ x.bag = ItemsOf(d, p) /\ x.money = d.money[p]
      /\ x.money \in Nat /\ x.bag \in SUBSET Item
      /\ Current(d, q, y) /\ y \in CharRec /\ y.state = "online" /\ y.bag = ItemsOf(d, q)
      /\ y.money = d.money[q] /\ y.money \in Nat /\ y.bag \in SUBSET Item
      /\ phase = "up" /\ mailid \in 1..MaxMail + 1 /\ \A m \in RowsOf(d.mail) : m < mailid
      /\ House(d) /\ auctionid \in 1..MaxAuction + 1
    BY <1>2, Before
<1>6. G \subseteq x.bag /\ H \subseteq y.bag
    BY <1>0 DEF Given
<1> DEFINE bagp == (x.bag \ G) \union H
           bagq == (y.bag \ H) \union G
<1>7. bagp \in SUBSET Item /\ bagq \in SUBSET Item
    BY <1>5, <1>6
<1>8. Swaps(x, cp, mine, his, CutOff(p), bagp)
    <2>1. LET sum == Paid(x, mine).money + his
          IN  Swaps(x, [Earned(Paid(x, mine), his) EXCEPT !.bag = bagp], mine, his,
                    IF sum > MaxMoney THEN sum - MaxMoney ELSE 0, bagp)
        <3> HIDE DEF x, mine, his, bagp
        <3> QED
            BY <1>3, <1>4, <1>5, <1>7, SwapsIs
    <2> DEFINE sum == Paid(x, mine).money + his
               k == IF sum > MaxMoney THEN sum - MaxMoney ELSE 0
    <2>2. CutOff(p) = k
        BY DEF CutOff
    <2>3. cp = [Earned(Paid(x, mine), his) EXCEPT !.bag = bagp]
        <3> DEFINE z == Earned(Paid(x, mine), his)
        <3>1. cp = [z EXCEPT !.bag = (@ \ G) \union H]
            BY DEF Exchanged
        <3>2. z.bag = x.bag
            BY <1>5 DEF Earned, Paid, CharRec
        <3>3. "bag" \in DOMAIN z
            BY <1>5 DEF Earned, Paid, CharRec
        <3> HIDE DEF z, cp
        <3> QED
            BY <3>1, <3>2, <3>3 DEF z
    <2>4. Swaps(x, [Earned(Paid(x, mine), his) EXCEPT !.bag = bagp], mine, his, k, bagp)
        BY <2>1
    <2> HIDE DEF cp, x, mine, his, bagp, k
    <2> QED
        BY <2>2, <2>3, <2>4
<1>9. Swaps(y, cq, his, mine, CutOff(q), bagq)
    <2>1. LET sum == Paid(y, his).money + mine
          IN  Swaps(y, [Earned(Paid(y, his), mine) EXCEPT !.bag = bagq], his, mine,
                    IF sum > MaxMoney THEN sum - MaxMoney ELSE 0, bagq)
        <3> HIDE DEF y, mine, his, bagq
        <3> QED
            BY <1>3, <1>4, <1>5, <1>7, SwapsIs
    <2> DEFINE sum == Paid(y, his).money + mine
               k == IF sum > MaxMoney THEN sum - MaxMoney ELSE 0
    <2>2. CutOff(q) = k
        BY <1>2 DEF CutOff
    <2>3. cq = [Earned(Paid(y, his), mine) EXCEPT !.bag = bagq]
        <3> DEFINE z == Earned(Paid(y, his), mine)
        <3>1. cq = [z EXCEPT !.bag = (@ \ H) \union G]
            BY <1>2 DEF Exchanged
        <3>2. z.bag = y.bag
            BY <1>5 DEF Earned, Paid, CharRec
        <3>3. "bag" \in DOMAIN z
            BY <1>5 DEF Earned, Paid, CharRec
        <3> HIDE DEF z, cq
        <3> QED
            BY <3>1, <3>2, <3>3 DEF z
    <2>4. Swaps(y, [Earned(Paid(y, his), mine) EXCEPT !.bag = bagq], his, mine, k, bagq)
        BY <2>1
    <2> HIDE DEF cq, y, mine, his, bagq, k
    <2> QED
        BY <2>2, <2>3, <2>4
<1> HIDE DEF d, q, x, y, cp, cq, cut, mine, his, bagp, bagq
<1>10. /\ cp \in CharRec /\ cq \in CharRec /\ cut \in Nat
       /\ cp.money + cq.money + cut = d.money[p] + d.money[q]
       /\ cp.bag = bagp /\ cq.bag = bagq
    <2>1. /\ OwnsOther(x, cp, cp.money, bagp) /\ CutOff(p) \in Nat
          /\ OwnsOther(y, cq, cq.money, bagq) /\ CutOff(q) \in Nat
          /\ cp.money + CutOff(p) = (x.money - mine) + his
          /\ cq.money + CutOff(q) = (y.money - his) + mine
        BY <1>8, <1>9 DEF Swaps
    <2>2. cp \in CharRec /\ cq \in CharRec /\ cp.bag = bagp /\ cq.bag = bagq
        BY <2>1 DEF OwnsOther
    <2>3. cp.money \in Nat /\ cq.money \in Nat
        BY <2>2, MailAssumption DEF CharRec
    <2>4. cp.money + cq.money + cut = d.money[p] + d.money[q]
        <3> DEFINE u == cp.money
                   v == cq.money
                   k == CutOff(p)
                   l == CutOff(q)
                   xm == x.money
                   ym == y.money
        <3>1. /\ u \in Nat /\ v \in Nat /\ k \in Nat /\ l \in Nat /\ xm \in Nat /\ ym \in Nat
              /\ u + k = (xm - mine) + his /\ v + l = (ym - his) + mine
            BY <1>5, <2>1, <2>3
        <3>2. xm = d.money[p] /\ ym = d.money[q] /\ cut = k + l
            BY <1>5 DEF cut
        <3> HIDE DEF u, v, k, l, xm, ym
        <3>3. (u + v) + cut = xm + ym
            BY <1>3, <3>1, <3>2
        <3> QED
            BY <3>2, <3>3 DEF u, v
    <2> QED
        BY <2>1, <2>2, <2>4 DEF cut
<1>11. PICK b : BothPaid(d, s, p, q, cp, cq, b)
    <2>1. /\ G \subseteq ItemsOf(d, p) /\ H \subseteq ItemsOf(d, q)
          /\ bagp = (ItemsOf(d, p) \ G) \union H /\ bagq = (ItemsOf(d, q) \ H) \union G
        BY <1>5, <1>6 DEF bagp, bagq
    <2>2. LET w == SwapWrites(p, q, G, H, cut)
          IN  \E b : BothPaid(d, SaveGoldToDB(SaveGoldToDB(w, p, cp), q, cq), p, q, cp, cq, b)
        BY <1>2, <1>5, <1>10, <2>1, BothArePaid
    <2> QED
        BY <2>2
<1> HIDE DEF s
<1>12. /\ b = Apply(d, s) /\ DOMAIN s = DOMAIN NoWrites /\ s.login = None
       /\ s.listed = <<>> /\ Sound(b, 0, {}) /\ Touches(d, b, P, D)
       /\ b.mail = d.mail /\ b.auctionhouse = d.auctionhouse
       /\ b.money[p] = cp.money /\ b.money[q] = cq.money
       /\ ItemsOf(b, p) = cp.bag /\ ItemsOf(b, q) = cq.bag /\ b \in Tables
    BY <1>11 DEF BothPaid, Sound
<1>13. Effect(d, s, b, <<>>, b, 0, {})
    <2> DEFINE L == {}
    <2>1. Sound(b, 0, L) /\ RowsOf(b.mail) = RowsOf(d.mail)
        BY <1>12
    <2> HIDE DEF L
    <2>2. Effect(d, s, b, <<>>, b, 0, L)
        BY <1>5, <1>12, <2>1, EffectNone
    <2> QED
        BY <2>2 DEF L
<1>14. SameMail(p, d, b) /\ SameMail(q, d, b)
    BY <1>12 DEF Touches, SameMail
<1>15. Current(b, p, cp) /\ cp.mailsLoaded = x.mailsLoaded
    <2>1. OwnsOther(x, cp, cp.money, bagp) /\ ItemsOf(b, p) = bagp
        BY <1>8, <1>10, <1>12 DEF Swaps
    <2>2. Current(b, p, cp)
        BY <1>5, <1>12, <1>14, <2>1, OwnsCurrent
    <2> QED
        BY <2>1, <2>2 DEF OwnsOther
<1>16. Current(b, q, cq) /\ cq.mailsLoaded = y.mailsLoaded
    <2>1. OwnsOther(y, cq, cq.money, bagq) /\ ItemsOf(b, q) = bagq
        BY <1>9, <1>10, <1>12 DEF Swaps
    <2>2. Current(b, q, cq)
        BY <1>2, <1>5, <1>12, <1>14, <2>1, OwnsCurrent
    <2> QED
        BY <2>1, <2>2 DEF OwnsOther
<1>17. /\ DOMAIN all = Player /\ all[p] = cp /\ all[q] = cq
       /\ \A r \in Player \ P : all[r] = char[r]
    <2>1. DOMAIN char = Player
        BY DEF GInv, Server
    <2> QED
        BY <1>2, <2>1
<1>18. /\ P \subseteq Player /\ (\A r \in P : Online(r)) /\ \A m \in D : FALSE
       /\ \A r \in P : r = p \/ r = q
    BY <1>2
<1>19. PostAndCommit(s, all, <<>>)
    BY <1>1
<1>20. phase' = "up" /\ crashes' = crashes /\ auctionid' \in 1..MaxAuction + 1 /\ House(b)'
    <2>1. House(b)'
        BY <1>5, <1>12, HouseStays
    <2> QED
        BY <1>5, <2>1 DEF house
<1> HIDE DEF all, P, D
<1>21. Handled(d, s, all, <<>>, b, b, P, D)
    <2>1. \A r \in P : Current(b, r, all[r]) /\ all[r].mailsLoaded = char[r].mailsLoaded
        BY <1>15, <1>16, <1>17, <1>18 DEF x, y
    <2> QED
        BY <1>12, <1>13, <1>17, <1>18, <2>1 DEF Handled
<1> DEFINE none == <<>>
<1>22. Handled(f[Len(queue)], s, all, none, b, b, P, D) /\ PostAndCommit(s, all, none)
    BY <1>19, <1>21 DEF d
<1> HIDE DEF none
<1> QED
    BY <1>5, <1>20, <1>22, HandlerKeeps

-----------------------------------------------------------------------------
(* The worker thread, crashes, and starts.                                     *)

(* The queue without its first element. *)
LEMMA QueueShrinks ==
    ASSUME \E S : queue \in Seq(S), queue # <<>>, queue' = Tail(queue)
    PROVE  /\ Len(queue) \in Nat \ {0} /\ Len(queue') = Len(queue) - 1
           /\ Head(queue) = queue[1]
           /\ \A k \in 1..(Len(queue) - 1) : queue'[k] = queue[k + 1]
           /\ (\E S : queue \in Seq(S))'
<1>1. PICK S : queue \in Seq(S)
    OBVIOUS
<1>2. /\ Len(queue) \in Nat \ {0} /\ Tail(queue) \in Seq(S)
      /\ Len(Tail(queue)) = Len(queue) - 1
      /\ \A k \in 1..(Len(queue) - 1) : Tail(queue)[k] = queue[k + 1]
    BY <1>1, HeadTailProperties, EmptySeq, LenProperties
<1>3. Head(queue) = queue[1]
    BY <1>1
<1> QED
    BY <1>2, <1>3

(* An operation takes effect. *)
LEMMA ExecuteStep ==
    ASSUME NEW f, GInv(f), Execute, UNCHANGED house
    PROVE  \E g : GInv(g)'
<1> DEFINE n == Len(queue)
           d == f[n]
           t == Head(queue)
           who == t.login
           come == [Offline EXCEPT !.state = "online", !.money = db.money[who], !.bag = ItemsOf(db, who)]
<1>1. /\ queue # <<>> /\ queue' = Tail(queue) /\ db' = Apply(db, t) /\ mailid' = mailid
      /\ char' = IF who = None THEN char ELSE [char EXCEPT ![who] = come]
      /\ phase' = phase /\ auctions' = auctions /\ mAitems' = mAitems /\ auctionid' = auctionid
      /\ crashes' = crashes
    BY DEF Execute, house
<1>2. /\ n \in Nat \ {0} /\ Len(queue') = n - 1 /\ t = queue[1]
      /\ \A k \in 1..(n - 1) : queue'[k] = queue[k + 1]
      /\ (\E S : queue \in Seq(S))'
    BY <1>1, QueueShrinks DEF GInv, Server
<1>3. phase = "up" /\ DOMAIN char = Player
    BY <1>1 DEF GInv, Server
<1>4. /\ f[0] = db /\ (\A k \in 1..n : f[k] = Apply(f[k - 1], queue[k]))
      /\ \A k \in 0..n : Sound(f[k], 0, {}) /\ f[k] \in Tables /\ \A m \in RowsOf(f[k].mail) : m < mailid
    BY <1>3 DEF GInv, Chain, AllSound, Sound
<1>5. PICK g : g = [k \in 0..(n - 1) |-> f[k + 1]]
    OBVIOUS
<1>6. (\A k \in 0..(n - 1) : g[k] = f[k + 1]) /\ g[n - 1] = d
    BY <1>2, <1>5
<1>7. who # None =>
        /\ who \in Player /\ char[who].state = "loading"
        /\ \A j \in 1..n : queue[j].login = who => j = 1
        /\ \A j \in 0..n : Same(who, f[j], d)
    <2>1. 1 \in 1..n /\ 1 - 1 = 0 /\ queue[1].login = who
        BY <1>2
    <2> QED
        BY <2>1 DEF GInv, Logins
<1> HIDE DEF who, t, come
<1>8. \A p \in Player : p # who \/ who = None => char'[p] = char[p]
    BY <1>1, <1>3
<1>9. who # None => char'[who] = come
    BY <1>1, <1>3, <1>7
<1>10. Chain(g)'
    <2>1. g[0] = db'
        BY <1>1, <1>2, <1>4, <1>6
    <2>2. \A k \in 1..(n - 1) : g[k] = Apply(g[k - 1], queue'[k])
        <3> TAKE k \in 1..(n - 1)
        <3>1. k \in 0..(n - 1) /\ k - 1 \in 0..(n - 1) /\ (k - 1) + 1 = k /\ k + 1 \in 1..n /\ (k + 1) - 1 = k
            BY <1>2
        <3>2. g[k] = f[k + 1] /\ g[k - 1] = f[k] /\ queue'[k] = queue[k + 1]
            BY <1>2, <1>6, <3>1
        <3>3. f[k + 1] = Apply(f[k], queue[k + 1])
            BY <1>4, <3>1
        <3> QED
            BY <3>2, <3>3
    <2> QED
        BY <1>2, <2>1, <2>2 DEF Chain
<1>11. AllSound(g)'
    <2>1. \A k \in 0..(n - 1) : k + 1 \in 0..n /\ g[k] = f[k + 1]
        BY <1>2, <1>6
    <2>2. \A k \in 0..(n - 1) : Sound(g[k], 0, {}) /\ \A m \in RowsOf(g[k].mail) : m < mailid'
        BY <1>1, <1>4, <2>1
    <2> QED
        BY <1>2, <2>2 DEF AllSound
<1>12. Logins(g)'
    <2> SUFFICES ASSUME NEW k \in 1..(n - 1), queue'[k].login # None
                 PROVE  /\ queue'[k].login \in Player
                        /\ char'[queue'[k].login].state = "loading"
                        /\ \A j \in 1..(n - 1) : queue'[j].login = queue'[k].login => j = k
                        /\ \A j \in (k - 1)..(n - 1) : Same(queue'[k].login, g[j], g[n - 1])
        BY <1>2 DEF Logins
    <2> DEFINE q == queue'[k].login
    <2>1. queue[k + 1].login = q /\ k + 1 \in 1..n /\ (k + 1) - 1 = k
        BY <1>2
    <2>2. /\ q \in Player /\ char[q].state = "loading"
          /\ \A j \in 1..n : queue[j].login = q => j = k + 1
          /\ \A j \in k..n : Same(q, f[j], d)
        BY <2>1 DEF GInv, Logins
    <2> HIDE DEF q
    <2>3. q # who \/ who = None
        <3>1. 1 \in 1..n /\ queue[1].login = who /\ 1 # k + 1
            BY <1>2 DEF who
        <3> QED
            BY <2>2, <3>1
    <2>4. char'[q] = char[q]
        BY <1>8, <2>2, <2>3
    <2>5. \A j \in 1..(n - 1) : queue'[j].login = q => j = k
        <3> TAKE j \in 1..(n - 1)
        <3>1. j + 1 \in 1..n /\ queue'[j] = queue[j + 1]
            BY <1>2
        <3>2. j + 1 = k + 1 => j = k
            BY <1>2
        <3> QED
            BY <2>2, <3>1, <3>2
    <2>6. \A j \in (k - 1)..(n - 1) : Same(q, g[j], g[n - 1])
        <3> TAKE j \in (k - 1)..(n - 1)
        <3>1. j \in 0..(n - 1) /\ j + 1 \in k..n
            BY <1>2
        <3> QED
            BY <1>6, <2>2, <3>1
    <2> QED
        BY <2>2, <2>4, <2>5, <2>6 DEF q
<1>13. Chars(g)'
    <2> SUFFICES ASSUME NEW p \in Player
                 PROVE  /\ Current(g[n - 1], p, char'[p])
                        /\ char'[p].state = "online" /\ ~char'[p].mailsLoaded =>
                              \A j \in 0..(n - 1) : SameMail(p, g[j], g[n - 1])
        BY <1>2 DEF Chars, Online
    <2>1. \A j \in 0..(n - 1) : j + 1 \in 0..n /\ g[j] = f[j + 1]
        BY <1>2, <1>6
    <2>2. CASE p # who \/ who = None
        <3>1. char'[p] = char[p]
            BY <1>8, <2>2
        <3>2. /\ Current(d, p, char[p])
              /\ char[p].state = "online" /\ ~char[p].mailsLoaded =>
                    \A j \in 0..n : SameMail(p, f[j], d)
            BY DEF GInv, Chars, Online
        <3> HIDE DEF d
        <3> QED
            BY <1>6, <2>1, <3>1, <3>2
    <2>3. CASE p = who /\ who # None
        <3>1. char'[p] = come
            BY <1>9, <2>3
        <3>2. \A j \in 0..n : Same(p, f[j], d)
            BY <1>7, <2>3
        <3>3. f[0] = db /\ db \in Tables /\ d \in Tables /\ db.money[p] <= MaxMoney /\ Same(p, db, d)
            <4>1. 0 \in 0..n /\ n \in 0..n
                BY <1>2
            <4> QED
                BY <1>4, <3>2, <4>1 DEF Sound
        <3> HIDE DEF d
        <3>4. Current(d, p, come)
            BY <2>3, <3>3, ComesCurrent DEF come
        <3>5. \A j \in 0..(n - 1) : SameMail(p, g[j], g[n - 1])
            BY <1>6, <2>1, <3>2 DEF Same
        <3> QED
            BY <1>6, <3>1, <3>4, <3>5
    <2> QED
        BY <2>2, <2>3
<1>14. Server'
    <2>1. DOMAIN char' = Player
        BY <1>1, <1>3
    <2>2. Len(queue') <= MaxPending + MaxMail
        BY <1>2, StoreAssumption DEF GInv, Server
    <2> QED
        BY <1>1, <1>2, <1>3, <2>1, <2>2 DEF GInv, Server
<1>15. House(g[Len(queue)])'
    <2>1. PICK e : e = d
        OBVIOUS
    <2>2. House(e)
        BY <2>1 DEF GInv
    <2>3. House(e)'
        BY <2>2, HouseStays
    <2>4. g[Len(queue')] = e
        BY <1>2, <1>6, <2>1
    <2>5. House(e)' = House(g[Len(queue)])'
        BY <2>4 DEF House
    <2> QED
        BY <2>3, <2>5
<1> QED
    BY <1>10, <1>11, <1>12, <1>13, <1>14, <1>15 DEF GInv

(* A server without a queue, and without characters. *)
LEMMA EmptyQueue ==
    ASSUME NEW d, Server', queue' = <<>>, \A p \in Player : char'[p] = Offline, d = db', Sound(d, 0, {}),
           phase' # "down" => \A m \in RowsOf(d.mail) : m < mailid', House(d)'
    PROVE  \E g : GInv(g)'
<1>1. PICK g : g = [k \in {0} |-> d]
    OBVIOUS
<1>2. Len(queue') = 0 /\ 1..Len(queue') = {} /\ 0..Len(queue') = {0}
    OBVIOUS
<1>3. g[0] = d /\ g[Len(queue')] = d
    BY <1>1, <1>2
<1>4. Chain(g)' /\ AllSound(g)' /\ Logins(g)'
    BY <1>2, <1>3 DEF Chain, AllSound, Logins
<1>5. Chars(g)'
    <2>1. Offline.state # "online"
        BY DEF Offline
    <2> QED
        BY <2>1, OfflineIsCurrent DEF Chars, Online
<1>6. House(g[Len(queue)])'
    BY <1>3 DEF House
<1> QED
    BY <1>4, <1>5, <1>6 DEF GInv

(* A crash. *)
LEMMA CrashStep ==
    ASSUME NEW f, GInv(f), Crash
    PROVE  \E g : GInv(g)'
<1>1. PICK d : d = db
    OBVIOUS
<1>2. Len(queue) \in Nat /\ Sound(d, 0, {})
    <2>1. Len(queue) \in Nat /\ 0 \in 0..Len(queue)
        BY InTheEnd
    <2> QED
        BY <1>1, <2>1 DEF GInv, Chain, AllSound
<1>3. d = db' /\ queue' = <<>> /\ phase' = "down" /\ \A p \in Player : char'[p] = Offline
    BY <1>1 DEF Crash
<1>4. Server'
    <2>1. crashes' \in 0..MaxCrashes
        BY AuctionAssumption DEF GInv, Server, Crash
    <2>2. (\E S : queue \in Seq(S))' /\ Len(queue') = 0
        <3>1. queue' \in Seq({}) /\ Len(queue') = 0
            BY <1>3
        <3> QED
            BY <3>1
    <2>3. mailid' \in 1..MaxMail + 1 /\ auctionid' \in 1..MaxAuction + 1 /\ 0 <= MaxPending + MaxMail
        BY StoreAssumption DEF Crash
    <2>4. DOMAIN char' = Player
        BY DEF Crash
    <2> QED
        BY <1>3, <2>1, <2>2, <2>3, <2>4 DEF Server
<1>5. House(d)'
    BY DEF House, Crash
<1> QED
    BY <1>2, <1>3, <1>4, <1>5, EmptyQueue

(* A start. *)
LEMMA RestartStep ==
    ASSUME NEW f, GInv(f), Restart
    PROVE  \E g : GInv(g)'
<1>1. PICK d : d = db
    OBVIOUS
<1>2. phase = "down" /\ queue = <<>> /\ \A p \in Player : char[p] = Offline
    BY DEF Restart, GInv, Server
<1>3. Sound(d, 0, {}) /\ d \in Tables /\ House(d)
    <2>1. Len(queue) = 0 /\ 0 \in 0..Len(queue)
        BY <1>2
    <2> QED
        BY <1>1, <2>1 DEF GInv, Chain, AllSound, Sound
<1>4. /\ d = db' /\ queue' = queue /\ phase' = "starting" /\ char' = char /\ auctions' = auctions
      /\ mAitems' = mAitems /\ crashes' = crashes
      /\ mailid' = NextKey(d.mail) /\ auctionid' = NextKey(d.auctionhouse)
    BY <1>1 DEF Restart, store
<1>5. mailid' \in 1..MaxMail + 1 /\ \A m \in RowsOf(d.mail) : m < mailid'
    <2>1. RowsOf(d.mail) \subseteq 1..MaxMail /\ MaxMail \in Nat
        BY <1>3, Rows, StoreAssumption DEF MailId
    <2> QED
        BY <1>4, <2>1, NextKeyIs
<1>6. auctionid' \in 1..MaxAuction + 1 /\ \A a \in RowsOf(d.auctionhouse) : a < auctionid'
    <2>1. RowsOf(d.auctionhouse) \subseteq 1..MaxAuction /\ MaxAuction \in Nat
        BY <1>3, Rows, StoreAssumption DEF AuctionId
    <2> QED
        BY <1>4, <2>1, NextKeyIs
<1>7. Server'
    BY <1>2, <1>4, <1>5, <1>6 DEF GInv, Server
<1>8. House(d)'
    BY <1>2, <1>3, <1>4, <1>6 DEF House
<1> QED
    BY <1>2, <1>3, <1>4, <1>5, <1>7, <1>8, EmptyQueue

(* The world is loaded. *)
LEMMA LoadWorldStep ==
    ASSUME NEW f, GInv(f), LoadWorld, ~astray
    PROVE  \E g : GInv(g)'
<1>1. PICK d : d = db
    OBVIOUS
<1>2. phase = "starting" /\ queue = <<>> /\ \A p \in Player : char[p] = Offline
    BY DEF LoadWorld, GInv, Server
<1>3. Sound(d, 0, {}) /\ d \in Tables /\ House(d) /\ \A m \in RowsOf(d.mail) : m < mailid
    <2>1. Len(queue) = 0 /\ 0 \in 0..Len(queue)
        BY <1>2
    <2> QED
        BY <1>1, <1>2, <2>1 DEF GInv, Chain, AllSound, Sound
<1>4. PICK X, has_items :
         /\ X \in SUBSET RowsOf(d.mail)
         /\ \A m \in X : has_items[m] <=> ItemIn(d, m) # None
         /\ queue' = queue \o [k \in 1..Cardinality(X) |-> OldMail(SetToSeq(X)[k], has_items[SetToSeq(X)[k]])]
    <2>1. PICK X \in SUBSET RowsOf(d.mail) : \E has_items \in [X -> BOOLEAN] :
             /\ \A m \in X : /\ ItemIn(d, m) # None => has_items[m]
                             /\ has_items[m] => ItemIn(d, m) # None \/ astray
             /\ queue' = queue \o [k \in 1..Cardinality(X) |->
                                      OldMail(SetToSeq(X)[k], has_items[SetToSeq(X)[k]])]
        BY <1>1 DEF LoadWorld
    <2> QED
        BY <2>1
<1>5. PICK N : N = Cardinality(X)
    OBVIOUS
<1>6. PICK s : s = SetToSeq(X)
    OBVIOUS
<1>7. PICK op : op = [k \in 1..N |-> OldMail(s[k], has_items[s[k]])]
    OBVIOUS
<1>8. N \in Nat /\ N <= MaxMail /\ OldOnes(d, s, op, N)
    BY <1>1, <1>3, <1>4, <1>5, <1>6, <1>7, OldQueue
<1>9. queue' = <<>> \o op /\ DOMAIN op = 1..N
    BY <1>2, <1>4, <1>5, <1>6, <1>7
<1>10. PICK S : S = {op[k] : k \in 1..N}
    OBVIOUS
<1>11. op \in Seq(S) /\ Len(op) = N
    <2>1. op \in [1..N -> S]
        BY <1>7, <1>10
    <2> QED
        BY <1>8, <2>1
<1>12. queue' = op
    <2>1. <<>> \o op = op
        BY <1>11
    <2> QED
        BY <1>9, <2>1
<1>13. PICK g : OldTables(g, d, s, op, N, N)
    BY <1>3, <1>8, OldChain
<1>14. /\ db' = d /\ char' = char /\ mailid' = mailid /\ phase' = "up" /\ auctionid' = auctionid
       /\ crashes' = crashes /\ Len(queue') = N
    BY <1>1, <1>11, <1>12 DEF LoadWorld, mail
<1>15. Chain(g)' /\ AllSound(g)' /\ Logins(g)'
    <2>1. Chain(g)'
        BY <1>12, <1>13, <1>14 DEF Chain, OldTables
    <2>2. \A k \in 0..N : Sound(g[k], 0, {}) /\ \A m \in RowsOf(g[k].mail) : m < mailid'
        BY <1>3, <1>13, <1>14 DEF OldTables
    <2>3. AllSound(g)'
        BY <1>14, <2>2 DEF AllSound
    <2>4. Logins(g)'
        BY <1>12, <1>13, <1>14 DEF Logins, OldTables
    <2> QED
        BY <2>1, <2>3, <2>4
<1>16. Chars(g)'
    <2>1. Offline.state # "online"
        BY DEF Offline
    <2>2. \A p \in Player : char'[p] = Offline
        BY <1>2, <1>14
    <2> QED
        BY <2>1, <2>2, OfflineIsCurrent DEF Chars, Online
<1>17. PICK e : e = g[N]
    OBVIOUS
<1>18. e.auctionhouse = d.auctionhouse
    <2>1. N \in 0..N
        BY <1>8
    <2> QED
        BY <1>13, <1>17, <2>1 DEF OldTables
<1>19. House(e)'
    <2> DEFINE rows == RowsOf(d.auctionhouse)
    <2>1. auctions' = [a \in rows |-> d.auctionhouse[a]] /\ mAitems' = {d.auctionhouse[a].item : a \in rows}
        BY <1>1 DEF LoadWorld
    <2>2. \A a \in rows : d.auctionhouse[a].item \in Item
        BY <1>3, Rows DEF AuctionRow
    <2>3. \A a \in rows : a < auctionid
        BY <1>2, <1>3 DEF House
    <2> QED
        BY <1>14, <1>18, <2>1, <2>2, <2>3 DEF House
<1>20. House(g[Len(queue)])'
    <2>1. g[Len(queue')] = e
        BY <1>14, <1>17
    <2> QED
        BY <1>19, <2>1 DEF House
<1>21. Server'
    <2>1. (\E Q : queue \in Seq(Q))'
        BY <1>11, <1>12
    <2>2. Len(queue') <= MaxPending + MaxMail
        BY <1>8, <1>14, StoreAssumption
    <2> QED
        BY <1>14, <2>1, <2>2 DEF GInv, Server
<1> QED
    BY <1>15, <1>16, <1>20, <1>21 DEF GInv

-----------------------------------------------------------------------------
(* The invariant holds.                                                        *)

(* The invariant holds at first. *)
LEMMA InitGInv == Init => \E g : GInv(g)
<1> SUFFICES ASSUME Init PROVE \E g : GInv(g)
    OBVIOUS
<1>1. PICK d : d = db
    OBVIOUS
<1>2. PICK g : g = [k \in {0} |-> d]
    OBVIOUS
<1>3. Sound(d, 0, {})
    BY <1>1, InitSound
<1>4. queue = <<>> /\ Len(queue) = 0 /\ 1..Len(queue) = {} /\ 0..Len(queue) = {0}
    BY DEF Init, InitStore
<1>5. g[0] = d /\ g[Len(queue)] = d
    BY <1>2, <1>4
<1>6. RowsOf(d.mail) = {} /\ RowsOf(d.auctionhouse) = {}
    BY <1>1 DEF Init, InitStore, RowsOf
<1>7. Chain(g) /\ AllSound(g) /\ Logins(g)
    BY <1>1, <1>3, <1>4, <1>5, <1>6 DEF Chain, AllSound, Logins
<1>8. \A p \in Player : char[p] = Offline
    BY DEF Init, InitMail
<1>9. Chars(g)
    <2>1. Offline.state # "online"
        BY DEF Offline
    <2> QED
        BY <1>8, <2>1, OfflineIsCurrent DEF Chars, Online
<1>10. House(g[Len(queue)])
    BY <1>5, <1>6 DEF House, Init
<1>11. Server
    <2>1. \E S : queue \in Seq(S)
        <3>1. queue \in Seq({})
            BY <1>4
        <3> QED
            BY <3>1
    <2> QED
        BY <1>4, <1>8, <2>1, StoreAssumption, AuctionAssumption DEF Server, Init, InitMail
<1> QED
    BY <1>7, <1>9, <1>10, <1>11 DEF GInv

(* What the players offer. *)
Offered == \A p \in Player : trade[p].money \in OfferedGold \union {0}

(* What is not a trade offers nothing. *)
LEMMA ClosedOffers ==
    ASSUME NEW p \in Player, trade \in [Player -> TradeData], Offered
    PROVE  \A r \in Player : Closed(p)[r].money \in OfferedGold \union {0}
BY DEF Closed, Offered, NoTrade

(* An offer is changed. *)
LEMMA OfferOffers ==
    ASSUME TInv, Offered, NEW p \in Player, Trading(p), NEW money \in OfferedGold \union {0}, NEW items,
           Offer(p, money, items)
    PROVE  Offered'
<1>1. trade \in [Player -> TradeData] /\ Partner(p) \in Player /\ Partner(p) # p
    BY Partners DEF TInv, Trading
<1> DEFINE new == [trade[p] EXCEPT !.money = money, !.items = items, !.accepted = FALSE]
           other == [trade[Partner(p)] EXCEPT !.accepted = FALSE]
<1>2. /\ new.money = money
      /\ other.money = trade[Partner(p)].money
    BY <1>1 DEF TradeData
<1>3. trade' = [trade EXCEPT ![p] = new, ![Partner(p)] = other]
    BY <1>1 DEF Offer
<1> HIDE DEF new, other
<1>4. \A r \in Player : trade'[r] = IF r = Partner(p) THEN other ELSE IF r = p THEN new ELSE trade[r]
    BY <1>1, <1>3
<1> QED
    BY <1>1, <1>2, <1>4 DEF Offered

(* What two players do to their trade. *)
LEMMA BargainingOffers ==
    ASSUME TInv, Offered, Bargaining
    PROVE  Offered'
<1>0. trade \in [Player -> TradeData]
    BY DEF TInv
<1>1. ASSUME NEW p \in Traders, NEW q \in Player, InitiateTrade(p, q)
      PROVE  Offered'
    <2>1. PICK mine, his \in SUBSET Item :
             trade' = [trade EXCEPT ![p] = [NoTrade EXCEPT !.trader = q, !.items = mine],
                                    ![q] = [NoTrade EXCEPT !.trader = p, !.items = his]]
        BY <1>1 DEF InitiateTrade
    <2>2. \A r \in Player : trade'[r].money = trade[r].money \/ trade'[r].money = 0
        <3>1. \A x, y : [NoTrade EXCEPT !.trader = x, !.items = y].money = 0
            BY DEF NoTrade
        <3> QED
            BY <1>0, <2>1, <3>1
    <2> QED
        BY <2>2 DEF Offered
<1>2. ASSUME NEW p \in Player, NEW gold \in OfferedGold, SetTradeGold(p, gold)
      PROVE  Offered'
    BY <1>2, OfferOffers DEF SetTradeGold
<1>3. ASSUME NEW p \in Player, NEW i \in Item, ClearTradeItem(p, i)
      PROVE  Offered'
    BY <1>3, OfferOffers DEF ClearTradeItem, Offered
<1>4. ASSUME NEW p \in Player, NEW i \in Item, NEW old, SetTradeItem(p, i, old)
      PROVE  Offered'
    BY <1>4, OfferOffers DEF SetTradeItem, Offered
<1>5. ASSUME NEW p \in Player, UnacceptTrade(p)
      PROVE  Offered'
    BY <1>0, <1>5 DEF UnacceptTrade, Offered, TradeData
<1>6. ASSUME NEW p \in Player, TradeCancel(p)
      PROVE  Offered'
    BY <1>0, <1>6, ClosedOffers DEF TradeCancel, Offered
<1>7. ASSUME NEW p \in Player, NotYet(p)
      PROVE  Offered'
    <2> DEFINE q == Partner(p)
    <2>1. /\ \/ trade' = [trade EXCEPT ![p].accepted = FALSE]
             \/ trade' = [trade EXCEPT ![p].accepted = TRUE]
             \/ trade' = [[trade EXCEPT ![p].accepted = TRUE] EXCEPT ![q].accepted = FALSE]
             \/ trade' = [[trade EXCEPT ![p].accepted = TRUE]
                             EXCEPT ![p].accepted = FALSE, ![q].accepted = FALSE]
        BY <1>7 DEF NotYet
    <2>2. \A r \in Player : trade'[r].money = trade[r].money
        BY <1>0, <2>1 DEF TradeData
    <2> QED
        BY <2>2 DEF Offered
<1>8. ASSUME NEW p \in Player, CompleteTrade(p)
      PROVE  Offered'
    BY <1>0, <1>8, ClosedOffers DEF CompleteTrade, Offered
<1> QED
    BY <1>1, <1>2, <1>3, <1>4, <1>5, <1>6, <1>7, <1>8 DEF Bargaining

(* Every step offers what may be offered. *)
LEMMA NextOffers ==
    ASSUME TInv, Offered, [Next]_vars
    PROVE  Offered'
<1>0. trade \in [Player -> TradeData]
    BY DEF TInv
<1>1. CASE UNCHANGED trade
    BY <1>1 DEF Offered
<1>2. ASSUME NEW p \in Player, Leave(p)
      PROVE  Offered'
    BY <1>0, <1>2, ClosedOffers DEF Leave, Offered
<1>3. CASE Bargaining
    BY <1>3, BargainingOffers
<1>4. CASE Crash
    BY <1>4 DEF Crash, AllClosed, NoTrade, Offered
<1> QED
    BY <1>1, <1>2, <1>3, <1>4, MailAssumption DEF Next, vars

(* A step that changes nothing but trades. *)
LEMMA NothingMoves ==
    ASSUME NEW f, GInv(f), UNCHANGED <<store, mail, house>>
    PROVE  GInv(f)'
<1>1. UNCHANGED <<db, queue, char, mailid, phase, auctions, mAitems, auctionid, crashes>>
    BY DEF store, mail, house
<1>2. Server'
    BY <1>1 DEF GInv, Server
<1>3. Chain(f)' /\ AllSound(f)' /\ Logins(f)'
    BY <1>1 DEF GInv, Chain, AllSound, Logins
<1>4. Chars(f)'
    BY <1>1 DEF GInv, Chars, Online
<1>5. House(f[Len(queue)])'
    BY <1>1 DEF GInv, House
<1> QED
    BY <1>2, <1>3, <1>4, <1>5 DEF GInv

(* What the players do with their mail. *)
LEMMA CorrespondenceStep ==
    ASSUME NEW f, GInv(f), Correspondence, ~astray', UNCHANGED house
    PROVE  \E g : GInv(g)'
<1>1. ASSUME NEW p \in Player, Save(p) \/ LoadMail(p)
      PROVE  \E g : GInv(g)'
    BY <1>1, SaveStep, LoadMailStep
<1>2. ASSUME NEW p \in Player, NEW r \in Player, NEW money \in 0..(Word - 1), NEW cod \in Nat,
             NEW i \in Item \union {None}, SendMail(p, r, money, cod, i)
      PROVE  \E g : GInv(g)'
    BY <1>2, SendMailStep
<1>3. ASSUME NEW p \in Player, NEW m, MarkAsRead(p, m) \/ DeleteMail(p, m)
      PROVE  \E g : GInv(g)'
    BY <1>3, MarkStep
<1>4. ASSUME NEW p \in Player, NEW m, ReturnToSender(p, m) \/ TakeMoney(p, m)
      PROVE  \E g : GInv(g)'
    BY <1>4, ReturnStep, TakeMoneyStep
<1>5. ASSUME NEW p \in Player, NEW m, NEW i \in Item, TakeItem(p, m, i)
      PROVE  \E g : GInv(g)'
    BY <1>5, TakeItemStep
<1>6. Writers \subseteq Player /\ MailedGold \subseteq 0..(Word - 1) /\ CodGold \subseteq Nat
    <2>1. 0..(Word - 1) \subseteq Nat
        BY WordIs
    <2> QED
        BY <2>1, MailAssumption
<1> QED
    BY <1>1, <1>2, <1>3, <1>4, <1>5, <1>6 DEF Correspondence

(* What two players do to their trade. *)
LEMMA BargainingGoes ==
    ASSUME NEW f, GInv(f), TInv, Bargaining, ~astray', UNCHANGED house
    PROVE  \E g : GInv(g)'
<1>1. (\E p \in Player : CompleteTrade(p)) \/ UNCHANGED <<store, mail, house>>
    BY DEF Bargaining, InitiateTrade, SetTradeGold, ClearTradeItem, SetTradeItem, UnacceptTrade,
           TradeCancel, NotYet
<1> QED
    BY <1>1, NothingMoves, CompleteTradeStep

(* What they do with auctions. *)
LEMMA AuctioningStep ==
    ASSUME NEW f, GInv(f), Auctioning
    PROVE  \E g : GInv(g)'
<1>1. ASSUME NEW p \in Player, NEW i \in Item, NEW startbid \in Nat, NEW buyout \in Nat,
             SellItem(p, i, startbid, buyout)
      PROVE  \E g : GInv(g)'
    BY <1>1, SellItemStep
<1>2. ASSUME NEW p \in Player, NEW a, NEW price \in Nat, PlaceBid(p, a, price) \/ Buyout(p, a, price)
      PROVE  \E g : GInv(g)'
    BY <1>2, PlaceBidStep, BuyoutStep
<1>3. ASSUME NEW p \in Player, NEW a, CancelAuction(p, a) \/ ExpireAuction(a)
      PROVE  \E g : GInv(g)'
    BY <1>3, CancelStep, ExpireStep
<1>4. StartBids \subseteq Nat /\ Buyouts \subseteq Nat /\ Prices \subseteq Nat
    BY AuctionAssumption
<1> QED
    BY <1>1, <1>2, <1>3, <1>4 DEF Auctioning

(* Nothing that went astray comes back. *)
LEMMA NextAstray ==
    ASSUME astray \in BOOLEAN, [Next]_vars
    PROVE  astray' \in BOOLEAN /\ (astray => astray')
<1> DEFINE NoReturn == astray' \in BOOLEAN /\ (astray => astray')
<1>1. CASE UNCHANGED astray
    BY <1>1
<1>2. CASE Correspondence
    <2>1. ASSUME NEW p, NEW m, NEW i, TakeItem(p, m, i)
          PROVE  NoReturn
        BY <2>1 DEF TakeItem
    <2>2. ASSUME NEW p, NEW r, NEW money, NEW cod, NEW i, SendMail(p, r, money, cod, i)
          PROVE  UNCHANGED astray
        BY <2>2 DEF SendMail, Commit
    <2>3. ASSUME NEW p, Save(p) \/ LoadMail(p)
          PROVE  UNCHANGED astray
        BY <2>3 DEF Save, LoadMail
    <2>4. ASSUME NEW p, NEW m, MarkAsRead(p, m) \/ DeleteMail(p, m)
          PROVE  UNCHANGED astray
        BY <2>4 DEF MarkAsRead, DeleteMail
    <2>5. ASSUME NEW p, NEW m, ReturnToSender(p, m)
          PROVE  UNCHANGED astray
        BY <2>5 DEF ReturnToSender, Commit
    <2>6. ASSUME NEW p, NEW m, TakeMoney(p, m)
          PROVE  UNCHANGED astray
        BY <2>6 DEF TakeMoney, Commit
    <2> HIDE DEF NoReturn
    <2> QED
        BY <1>1, <1>2, <2>1, <2>2, <2>3, <2>4, <2>5, <2>6 DEF Correspondence, NoReturn
<1>3. CASE Bargaining
    <2>1. ASSUME NEW p, CompleteTrade(p)
          PROVE  NoReturn
        BY <2>1 DEF CompleteTrade
    <2> QED
        BY <1>1, <1>3, <2>1 DEF Bargaining, InitiateTrade, SetTradeGold, ClearTradeItem, SetTradeItem,
            UnacceptTrade, TradeCancel, NotYet, mail
<1>4. CASE Auctioning
    <2>1. ASSUME NEW p, NEW i, NEW startbid, NEW buyout, SellItem(p, i, startbid, buyout)
          PROVE  UNCHANGED astray
        BY <2>1 DEF SellItem, Commit
    <2>2. ASSUME NEW p, NEW a, NEW price, PlaceBid(p, a, price)
          PROVE  UNCHANGED astray
        BY <2>2 DEF PlaceBid, Commit
    <2>3. ASSUME NEW p, NEW a, NEW price, Buyout(p, a, price)
          PROVE  UNCHANGED astray
        BY <2>3 DEF Buyout, Commit
    <2>4. ASSUME NEW p, NEW a, CancelAuction(p, a)
          PROVE  UNCHANGED astray
        BY <2>4 DEF CancelAuction, Commit
    <2>5. ASSUME NEW a, ExpireAuction(a)
          PROVE  UNCHANGED astray
        BY <2>5 DEF ExpireAuction, Commit
    <2> QED
        BY <1>1, <1>4, <2>1, <2>2, <2>3, <2>4, <2>5 DEF Auctioning
<1>5. CASE \E p \in Leavers : Leave(p)
    BY <1>1, <1>5 DEF Leave, Logout
<1>6. CASE \E p \in Player : Login(p)
    BY <1>1, <1>6 DEF Login
<1>7. CASE Execute
    BY <1>1, <1>7 DEF Execute
<1>8. CASE Crash \/ Restart \/ LoadWorld
    BY <1>1, <1>8 DEF Crash, Restart, LoadWorld, mail
<1>9. CASE UNCHANGED vars
    BY <1>1, <1>9 DEF vars, mail
<1> QED
    BY <1>2, <1>3, <1>4, <1>5, <1>6, <1>7, <1>8, <1>9 DEF Next

(* Every step keeps the invariant. *)
LEMMA NextGInv ==
    ASSUME NEW f, GInv(f), TInv, [Next]_vars, ~astray, ~astray'
    PROVE  \E g : GInv(g)'
<1>1. CASE Execute /\ UNCHANGED house
    BY <1>1, ExecuteStep
<1>2. ASSUME NEW p \in Player, Login(p), phase = "up", UNCHANGED house
      PROVE  \E g : GInv(g)'
    BY <1>2, LoginStep
<1>3. ASSUME NEW p \in Player, Leave(p), UNCHANGED house
      PROVE  \E g : GInv(g)'
    BY <1>3, LogoutStep DEF Leave
<1>4. CASE Correspondence /\ UNCHANGED house
    BY <1>4, CorrespondenceStep
<1>5. CASE Bargaining /\ UNCHANGED house
    BY <1>5, BargainingGoes
<1>6. CASE Auctioning
    BY <1>6, AuctioningStep
<1>7. CASE Crash \/ Restart \/ LoadWorld
    BY <1>7, CrashStep, RestartStep, LoadWorldStep
<1>8. CASE UNCHANGED vars
    BY <1>8, NothingMoves DEF vars
<1> QED
    BY <1>1, <1>2, <1>3, <1>4, <1>5, <1>6, <1>7, <1>8, MailAssumption DEF Next, house

(* The tables in the end are the last of a chain. *)
LEMMA FinalIs ==
    ASSUME NEW f, Chain(f), Len(queue) \in Nat
    PROVE  Final = f[Len(queue)]
<1> DEFINE n == Len(queue)
           after == CHOOSE g : g = [k \in 0..n |-> IF k = 0 THEN db ELSE Apply(g[k - 1], queue[k])]
           g == [k \in 0..n |-> f[k]]
<1>1. Final = after[n]
    BY DEF Final
<1>2. g = [k \in 0..n |-> IF k = 0 THEN db ELSE Apply(g[k - 1], queue[k])]
    <2>1. ASSUME NEW k \in 0..n
          PROVE  g[k] = IF k = 0 THEN db ELSE Apply(g[k - 1], queue[k])
        <3>1. CASE k = 0
            BY <3>1 DEF Chain
        <3>2. CASE k # 0
            <4>1. k \in 1..n /\ k - 1 \in 0..n
                BY <3>2
            <4>2. f[k] = Apply(f[k - 1], queue[k])
                BY <4>1 DEF Chain
            <4> QED
                BY <3>2, <4>1, <4>2
        <3> QED
            BY <3>1, <3>2
    <2> QED
        BY <2>1
<1>3. after = [k \in 0..n |-> IF k = 0 THEN db ELSE Apply(after[k - 1], queue[k])]
    <2> HIDE DEF g
    <2> QED
        BY <1>2
<1> HIDE DEF after
<1> DEFINE T == {k \in Nat : k \in 0..n => after[k] = f[k]}
<1>4. 0 \in T
    BY <1>3 DEF Chain
<1>5. ASSUME NEW k \in T PROVE k + 1 \in T
    <2> SUFFICES ASSUME k + 1 \in 0..n PROVE after[k + 1] = f[k + 1]
        OBVIOUS
    <2>1. k \in Nat /\ k \in 0..n /\ k + 1 \in 1..n /\ k + 1 # 0 /\ k + 1 - 1 = k
        OBVIOUS
    <2>2. after[k] = f[k]
        BY <2>1
    <2>3. f[k + 1] = Apply(f[k], queue[k + 1])
        BY <2>1 DEF Chain
    <2>4. after[k + 1] = Apply(after[k], queue[k + 1])
        BY <1>3, <2>1
    <2> QED
        BY <2>2, <2>3, <2>4
<1> HIDE DEF T
<1>6. T = Nat
    BY <1>4, <1>5, SetInduction DEF T
<1>7. n \in T /\ n \in 0..n
    BY <1>6
<1> QED
    BY <1>1, <1>7 DEF T

(* The tables and the memory of the server agree in the end, and nothing is    *)
(* lost on the way there.                                                      *)
HInv == TInv /\ Offered /\ astray \in BOOLEAN /\ (~astray => \E f : GInv(f))

(* At first it is so. *)
LEMMA InitHInv == Init => HInv
<1>1. Init => Offered
    BY DEF Init, InitTrade, AllClosed, NoTrade, Offered
<1> QED
    BY <1>1, InitTInv, InitGInv DEF HInv, Init, InitMail

(* And after each step. *)
LEMMA NextHInv == HInv /\ [Next]_vars => HInv'
<1> SUFFICES ASSUME HInv, [Next]_vars
             PROVE  HInv'
    OBVIOUS
<1>1. TInv'
    BY NextTInv DEF HInv
<1>2. Offered'
    BY NextOffers DEF HInv
<1>3. astray' \in BOOLEAN /\ (astray => astray')
    BY NextAstray DEF HInv
<1>4. ASSUME ~astray'
      PROVE  \E g : GInv(g)'
    <2>1. ~astray
        BY <1>3, <1>4
    <2>2. PICK f : GInv(f)
        BY <2>1 DEF HInv
    <2> QED
        BY <1>4, <2>1, <2>2, NextGInv DEF HInv
<1>5. ASSUME ~astray'
      PROVE  (\E h : GInv(h))'
    <2>1. PICK g : GInv(g)'
        BY <1>4, <1>5
    <2> QED
        BY <2>1
<1> QED
    BY <1>1, <1>2, <1>3, <1>5 DEF HInv

(* Every variable has its type. *)
LEMMA InvTyped == HInv /\ ~astray => TypeOK
<1> SUFFICES ASSUME HInv, ~astray PROVE TypeOK
    OBVIOUS
<1>1. PICK f : GInv(f)
    BY DEF HInv
<1>2. Len(queue) \in Nat /\ 0 \in 0..Len(queue) /\ Sound(f[Len(queue)], 0, {})
    BY <1>1, InTheEnd
<1>3. db \in Tables
    <2>1. f[0] = db /\ f[0] \in Tables
        BY <1>1, <1>2, InTheEnd DEF GInv, Chain
    <2> QED
        BY <2>1
<1>4. ASSUME NEW p \in Player
      PROVE  /\ char[p].state \in {"offline", "loading", "online"}
             /\ char[p].money \in 0..MaxMoney
             /\ char[p].bag \subseteq Item /\ char[p].mMitems \subseteq Item
             /\ char[p].mailsLoaded \in BOOLEAN /\ char[p].mailsUpdated \in BOOLEAN
             /\ DOMAIN Owned(p) \subseteq MailId
             /\ \A m \in DOMAIN Owned(p) : Owned(p)[m] \in MemoryMail
    <2>1. char[p] \in CharRec
        BY <1>1, OwnedAreThere
    <2>2. char[p].mails \in MailMaps
        BY <2>1 DEF CharRec
    <2> QED
        BY <2>1, <2>2, Mails DEF CharRec, Owned
<1>5. DOMAIN auctions \subseteq AuctionId /\ \A a \in DOMAIN auctions : auctions[a] \in AuctionRow
    <2>1. PICK d : d = f[Len(queue)]
        OBVIOUS
    <2>2. d \in Tables /\ House(d) /\ phase \in {"down", "starting", "up"}
        BY <1>1, <1>2, <2>1 DEF GInv, Sound, Server
    <2>3. CASE phase = "up"
        BY <2>2, <2>3, Rows DEF House
    <2>4. CASE phase # "up"
        BY <2>2, <2>4 DEF House
    <2> QED
        BY <2>3, <2>4
<1>6. ASSUME NEW p \in Player
      PROVE  /\ trade[p].trader \in Player \union {None} /\ trade[p].money \in OfferedGold \union {0}
             /\ trade[p].items \subseteq Item /\ trade[p].accepted \in BOOLEAN
    <2>1. trade[p] \in TradeData /\ trade[p].money \in OfferedGold \union {0}
        BY DEF HInv, TInv, Offered
    <2> QED
        BY <2>1 DEF TradeData
<1>7. /\ phase \in {"down", "starting", "up"} /\ Len(queue) <= MaxPending + MaxMail
      /\ mAitems \subseteq Item /\ crashes \in 0..MaxCrashes
      /\ mailid \in 1..MaxMail + 1 /\ auctionid \in 1..MaxAuction + 1
    BY <1>1 DEF GInv, Server, House
<1> QED
    BY <1>3, <1>4, <1>5, <1>6, <1>7 DEF TypeOK, HInv

(* Nothing is lost. *)
LEMMA InvConserves == HInv => GoodsConserved
<1> SUFFICES ASSUME HInv, ~astray PROVE GoodsConserved
    BY DEF GoodsConserved
<1>1. PICK f : GInv(f)
    BY DEF HInv
<1>2. PICK d : d = db
    OBVIOUS
<1>3. Sound(d, 0, {})
    <2>1. 0 \in 0..Len(queue) /\ f[0] = d
        BY <1>1, <1>2, InTheEnd DEF GInv, Chain
    <2> QED
        BY <1>1, <2>1 DEF GInv, AllSound
<1>4. GoldConserved
    <2>1. d \in Tables /\ Gold(d) + d.fees + 0 = Endowment
        BY <1>3 DEF Sound
    <2>2. GoldIn(d) = Gold(d) /\ Gold(d) \in Nat /\ d.fees \in Nat
        BY <2>1, GoldInRows, Golds
    <2> QED
        BY <1>2, <2>1, <2>2 DEF GoldConserved, Endowment
<1>5. ItemsKept
    BY <1>2, <1>3, OnePlace DEF ItemsKept
<1> QED
    BY <1>4, <1>5, InvTyped DEF GoodsConserved

(* The handlers decide by what the tables will say. *)
LEMMA InvCurrent == HInv => MemoryIsCurrent
<1> SUFFICES ASSUME HInv, ~astray PROVE MemoryIsCurrent
    BY DEF MemoryIsCurrent
<1>1. PICK f : GInv(f)
    BY DEF HInv
<1>2. PICK d : d = f[Len(queue)]
    OBVIOUS
<1>3. Final = d
    BY <1>1, <1>2, InTheEnd, FinalIs DEF GInv
<1>4. ASSUME NEW p \in Player, Online(p)
      PROVE  char[p].money = d.money[p] /\ char[p].bag = ItemsOf(d, p)
    BY <1>1, <1>2, <1>4, OwnedAreThere DEF Current, Online
<1>5. House(d)
    BY <1>1, <1>2 DEF GInv
<1>6. ASSUME phase = "up"
      PROVE  /\ DOMAIN auctions = RowsOf(d.auctionhouse)
             /\ \A a \in DOMAIN auctions : auctions[a] = d.auctionhouse[a]
    BY <1>5, <1>6 DEF House
<1> HIDE <1>3
<1> QED
    BY <1>3, <1>4, <1>6 DEF MemoryIsCurrent

(* The mails of a mailbox can be taken. *)
LEMMA InvMailbox == HInv => MailboxIsCurrent
<1> SUFFICES ASSUME HInv, ~astray PROVE MailboxIsCurrent
    BY DEF MailboxIsCurrent
<1>1. PICK f : GInv(f)
    BY DEF HInv
<1>2. PICK d : d = f[Len(queue)]
    OBVIOUS
<1>3. Final = d
    BY <1>1, <1>2, InTheEnd, FinalIs DEF GInv
<1>4. Sound(d, 0, {})
    BY <1>1, <1>2, InTheEnd
<1>5. ASSUME NEW p \in Player, NEW m \in DOMAIN Owned(p)
      PROVE  /\ d.mail[m] # None
             /\ d.mail[m].receiver = p
             /\ d.mail[m].money = Owned(p)[m].money
             /\ d.mail[m].cod = Owned(p)[m].cod
             /\ Owned(p)[m].item = ItemIn(d, m)
             /\ Owned(p)[m].item \in char[p].mMitems \union {None}
    <2>1. Current(d, p, char[p])
        BY <1>1, <1>2, OwnedAreThere
    <2>2. char[p].state = "online" /\ m \in DOMAIN char[p].mails
        BY <1>5, <2>1 DEF Current, Owned
    <2>3. /\ char[p].mails \in MailMaps
          /\ IsThere(d, p, m, char[p].mails[m])
        BY <2>1, <2>2 DEF Current, Mailbox
    <2>4. m \in MailId /\ char[p].mails[m] \in MemoryMail
        BY <2>2, <2>3, Mails
    <2>5. char[p].mails[m].item \in Item \union {None}
        BY <2>4 DEF MemoryMail
    <2>6. Inside(d, m) = {char[p].mails[m].item} \ {None}
        BY <2>3 DEF IsThere
    <2>7. char[p].mails[m].item = ItemIn(d, m)
        BY <1>4, <2>4, <2>5, <2>6, ItemOfInside
    <2>8. char[p].mails[m].item \in char[p].mMitems \union {None}
        BY <2>1, <2>2 DEF Current
    <2> QED
        BY <2>3, <2>7, <2>8 DEF IsThere, Owned
<1> QED
    BY <1>3, <1>5 DEF MailboxIsCurrent

(* What the theorems below rest on, for any number of players, items, mails,   *)
(* auctions and operations that wait: as long as no item went astray, there is *)
(* a chain of sound tables from those there are to those that the queue will   *)
(* make, and memory is what the last of them says. Handlers (MailHandler.cpp,  *)
(* AuctionHouseHandler.cpp, TradeHandler.cpp), logins and logouts, the worker  *)
(* thread, a crash with all that waits, and a start with its old mails keep it *)
(* so.                                                                         *)
THEOREM StoreInvariant == Spec => []HInv
BY InitHInv, NextHInv, PTL DEF Spec

(* After every transaction of the character database, a crash between any two  *)
(* of them included, the gold in purses, mails, bids and deposits and what the *)
(* game has taken is what there was at first, and each item that is left is in *)
(* one inventory, one mail or one auction, or among those that the return of   *)
(* an auction mail or the end of an auction leaves nowhere (GoodsConserved):   *)
(* until an item is taken through a mail that does not list it                 *)
(* (MailHandler.cpp:419), or a trade leaves one with nobody                    *)
(* (TradeHandler.cpp:180).                                                     *)
THEOREM NothingIsLost == Spec => []GoodsConserved
BY StoreInvariant, InvConserves, PTL

(* The gold, the bag and the auctions by which a handler decides, in memory,   *)
(* are what the tables will say when the queue has been worked off, although   *)
(* SaveGoldToDB and the others save only what they believe has changed; until  *)
(* an item goes astray.                                                        *)
THEOREM MemoryAgrees == Spec => []MemoryIsCurrent
BY StoreInvariant, InvCurrent, PTL

(* A mail in m_mail is one that the tables will have, for that player, with    *)
(* that gold, that COD and that item: nobody else will have taken them; until  *)
(* an item goes astray.                                                        *)
THEOREM MailboxesAgree == Spec => []MailboxIsCurrent
BY StoreInvariant, InvMailbox, PTL
=============================================================================
