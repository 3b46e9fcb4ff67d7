---------------------------- MODULE AuctionHouse ----------------------------
(* The auction house over the mail system and the character tables: the        *)
(* auctions in memory and their rows, the handlers of AuctionHouseHandler.cpp, *)
(* the expiry of auctions, and a server that crashes with everything in memory *)
(* and in the queue, and starts again from the tables.                         *)
EXTENDS Trade

CONSTANTS
    Deposit,        \* GetAuctionDeposit
    CutPercent,     \* AuctionHouseEntry::cutPercent, with the rate
    StartBids,      \* bound: the start bids of sellers
    Buyouts,        \* bound: their buyout prices; 0 is none
    Prices,         \* bound: what bidders offer
    MaxCrashes      \* bound: crashes in a behaviour

ASSUME AuctionAssumption ==
    /\ Deposit \in Nat /\ CutPercent \in 0..100
    /\ MaxCrashes \in Nat
    /\ StartBids \subseteq Nat \ {0} /\ Prices \subseteq Nat \ {0} /\ Buyouts \subseteq Nat

VARIABLES
    phase,          \* of the server: down, starting, or up
    auctions,       \* AuctionsMap
    mAitems,        \* the items of the house
    auctionid,      \* ObjectMgr::m_auctionid
    crashes         \* how often the server has crashed

house == <<phase, auctions, mAitems, auctionid, crashes>>
vars == <<store, mail, trade, house>>

Init ==
    /\ InitStore
    /\ InitMail
    /\ InitTrade
    /\ phase = "up"
    /\ auctions = <<>>
    /\ mAitems = {}
    /\ auctionid = 1
    /\ crashes = 0

-----------------------------------------------------------------------------
GetAuctionCut(bid) == (bid * CutPercent) \div 100
GetAuctionOutBid(bid) == IF (bid * 5) \div 100 > 0 THEN (bid * 5) \div 100 ELSE 1

Without(a) == [k \in (DOMAIN auctions) \ {a} |-> auctions[k]]

(* The mails of an auction. The mail of a pending sale holds nothing. *)
AuctionMail(receiver, money, i) ==
    [Draft(receiver, receiver, "auction") EXCEPT !.money = money, !.item = i]

SuccessfulMail(auction) ==
    AuctionMail(auction.owner, auction.bid + auction.deposit - GetAuctionCut(auction.bid), None)

(* What the game keeps of a sale. *)
Fee(auction) == auction.bid + auction.deposit - Value(SuccessfulMail(auction).money)

(* The gold of a bidder goes to the seller. *)
MutantRefundMail(auction) == AuctionMail(auction.owner, auction.bid, None)
RefundMail(auction) == AuctionMail(auction.bidder, auction.bid, None)

(* SendAuctionWonMail, SendAuctionExpiredMail: nothing is sent for an item     *)
(* that is not among the house's.                                              *)
ItemMail(receiver, i) ==
    IF i \in mAitems THEN <<AuctionMail(receiver, 0, i)>> ELSE <<>>

(* HandleAuctionSellItem. *)
SellItem(p, i, startbid, buyout) ==
    /\ Online(p)
    /\ i \in char[p].bag
    /\ i \notin mAitems
    /\ char[p].money >= Deposit
    /\ auctionid \in AuctionId
    /\ LET c == [Paid(char[p], Deposit) EXCEPT !.bag = @ \ {i}]
           AH == [item |-> i, owner |-> p, bidder |-> None, bid |-> 0,
                  startbid |-> startbid, buyout |-> buyout, deposit |-> Deposit]
           t == [NoWrites EXCEPT !.inventory = Only(i, None), !.auctionhouse = Only(auctionid, AH)]
       IN  /\ Commit(SaveGoldToDB(t, p, c), [char EXCEPT ![p] = c], <<>>)
           /\ auctions' = Override(Only(auctionid, AH), auctions)
    /\ mAitems' = mAitems \union {i}
    /\ auctionid' = auctionid + 1
    /\ UNCHANGED <<phase, crashes>>

(* HandleAuctionPlaceBid: the checks of both ways. *)
MayBid(p, a, price) ==
    /\ Online(p)
    /\ a \in DOMAIN auctions
    /\ auctions[a].owner # p
    /\ price > auctions[a].bid
    /\ price >= auctions[a].startbid
    /\ char[p].money >= price

IsBuyout(a, price) == auctions[a].buyout # 0 /\ price >= auctions[a].buyout

(* What the new bid costs: a bidder that raises his own pays the difference;   *)
(* any other gets his gold back.                                               *)
DueFor(p, a, price) ==
    IF auctions[a].bidder = p THEN price - auctions[a].bid ELSE price

(* A faulty variant, for the sensitivity of the checks, as are the other       *)
(* operators named Mutant...: the gold of the last bidder is not given back.   *)
MutantNoRefund(p, a) == <<>>

Outbidded(p, a) ==
    IF auctions[a].bidder \in {None, p} THEN <<>> ELSE <<RefundMail(auctions[a])>>

PlaceBid(p, a, price) ==
    /\ MayBid(p, a, price)
    /\ ~IsBuyout(a, price)
    /\ price >= auctions[a].bid + GetAuctionOutBid(auctions[a].bid)
    /\ LET c == Paid(char[p], DueFor(p, a, price))
           t == [NoWrites EXCEPT !.auctionhouse = Only(a, [bidder |-> p, bid |-> price])]
       IN  Commit(SaveGoldToDB(t, p, c), [char EXCEPT ![p] = c], Outbidded(p, a))
    /\ auctions' = [auctions EXCEPT ![a].bidder = p, ![a].bid = price]
    /\ UNCHANGED <<phase, mAitems, auctionid, crashes>>

Buyout(p, a, price) ==
    /\ MayBid(p, a, price)
    /\ IsBuyout(a, price)
    /\ LET sold == [auctions[a] EXCEPT !.bidder = p, !.bid = auctions[a].buyout]
           c == Paid(char[p], DueFor(p, a, sold.buyout))
           t == [NoWrites EXCEPT !.auctionhouse = Only(a, None),
                                 !.fees = Fee(sold), !.lost = {sold.item} \ mAitems]
       IN  Commit(SaveGoldToDB(t, p, c), [char EXCEPT ![p] = c],
                  Outbidded(p, a) \o <<SuccessfulMail(sold)>> \o ItemMail(p, sold.item))
    /\ auctions' = Without(a)
    /\ mAitems' = mAitems \ {auctions[a].item}
    /\ UNCHANGED <<phase, auctionid, crashes>>

(* HandleAuctionRemoveItem: the owner pays the cut of a bid that was made. *)
CancelAuction(p, a) ==
    /\ Online(p)
    /\ a \in DOMAIN auctions
    /\ auctions[a].owner = p
    /\ auctions[a].item \in mAitems
    /\ LET auction == auctions[a]
           cut == IF auction.bidder = None THEN 0 ELSE GetAuctionCut(auction.bid)
           c == Paid(char[p], cut)
           t == [NoWrites EXCEPT !.auctionhouse = Only(a, None), !.fees = auction.deposit + cut]
       IN  /\ char[p].money >= cut
           /\ Commit(SaveGoldToDB(t, p, c), [char EXCEPT ![p] = c],
                     (IF auction.bidder = None THEN <<>> ELSE <<RefundMail(auction)>>)
                       \o ItemMail(p, auction.item))
    /\ auctions' = Without(a)
    /\ mAitems' = mAitems \ {auctions[a].item}
    /\ UNCHANGED <<phase, auctionid, crashes>>

(* The end of an auction, in the transaction t: without a bidder its item goes *)
(* back, otherwise the seller is paid and the winner gets the item.            *)
EndedAuction(a, auction) ==
    [NoWrites EXCEPT !.auctionhouse = Only(a, None),
                     !.fees = IF auction.bidder = None THEN auction.deposit ELSE Fee(auction),
                     !.lost = {auction.item} \ mAitems]

EndMails(auction) ==
    IF auction.bidder = None THEN ItemMail(auction.owner, auction.item)
    ELSE <<SuccessfulMail(auction)>> \o ItemMail(auction.bidder, auction.item)

(* AuctionHouseObject::Update, for one of the rows whose time has passed. The  *)
(* entry is deleted before its item is looked up in it to be removed from      *)
(* mAitems: what stands there then may be that, or the item of another auction,*)
(* or none of the house's.                                                     *)
ExpireAuction(a) ==
    /\ phase = "up"
    /\ db.auctionhouse[a] # None
    /\ a \in DOMAIN auctions
    /\ Commit(EndedAuction(a, auctions[a]), char, EndMails(auctions[a]))
    /\ auctions' = Without(a)
    /\ \E found \in Item \union {None} : mAitems' = mAitems \ {found}
    /\ UNCHANGED <<phase, auctionid, crashes>>

-----------------------------------------------------------------------------
Crash ==
    /\ phase # "down"
    /\ crashes < MaxCrashes
    /\ crashes' = crashes + 1
    /\ phase' = "down"
    /\ queue' = <<>>
    /\ char' = [p \in Player |-> Offline]
    /\ mailid' = 1
    /\ trade' = AllClosed
    /\ auctions' = <<>>
    /\ mAitems' = {}
    /\ auctionid' = 1
    /\ UNCHANGED <<db, astray>>

(* The start of the server, World::SetInitialWorldSettings: SetHighestGuids,   *)
(* then DeleteExpiredAuctionsAtStartup. Here: no auction has expired.          *)
Restart ==
    /\ phase = "down"
    /\ phase' = "starting"
    /\ mailid' = NextKey(db.mail)
    /\ auctionid' = NextKey(db.auctionhouse)
    /\ UNCHANGED <<store, char, astray, auctions, mAitems, crashes>>

(* Here: one has. No item is known yet. *)
RestartLate(a) ==
    /\ phase = "down"
    /\ phase' = "starting"
    /\ db.auctionhouse[a] # None
    /\ LET mails == EndMails(db.auctionhouse[a])
           first == NextKey(db.mail)
           Id(k) == first + k - 1
       IN  /\ first + Len(mails) - 1 <= MaxMail
           /\ CommitTransaction(
                [EndedAuction(a, db.auctionhouse[a]) EXCEPT
                    !.mail = [m \in first..(first + Len(mails) - 1) |->
                                RowOf(mails[m - first + 1])]])
           /\ mailid' = first + Len(mails)
    /\ auctionid' = NextKey(db.auctionhouse)
    /\ UNCHANGED <<char, astray, auctions, mAitems, crashes>>

(* LoadAuctionItems, LoadAuctions and ReturnOrDeleteOldMails. *)
LoadWorld ==
    /\ phase = "starting"
    /\ phase' = "up"
    /\ LET rows == RowsOf(db.auctionhouse)
       IN  /\ auctions' = [a \in rows |-> db.auctionhouse[a]]
           /\ mAitems' = {db.auctionhouse[a].item : a \in rows}
    /\ \E expired \in SUBSET RowsOf(db.mail) : \E has_items \in [expired -> BOOLEAN] :
          /\ \A m \in expired : /\ ItemIn(db, m) # None => has_items[m]
                                /\ has_items[m] => ItemIn(db, m) # None \/ astray
          /\ LET Mails == SetToSeq(expired)
             IN  queue' = queue \o [k \in 1..Cardinality(expired) |->
                                       OldMail(Mails[k], has_items[Mails[k]])]
    /\ UNCHANGED <<db, mail, auctionid, crashes>>

-----------------------------------------------------------------------------
Auctioning ==
    \/ \E p \in Player, i \in Item, startbid \in StartBids, buyout \in Buyouts :
          SellItem(p, i, startbid, buyout)
    \/ \E p \in Player, a \in AuctionId, price \in Prices :
          PlaceBid(p, a, price) \/ Buyout(p, a, price)
    \/ \E p \in Player, a \in AuctionId : CancelAuction(p, a) \/ ExpireAuction(a)

Next ==
    \/ Execute /\ UNCHANGED <<trade, house>>
    \/ phase = "up" /\ (\E p \in Player : Login(p)) /\ UNCHANGED <<trade, house>>
    \/ (\E p \in Leavers : Leave(p)) /\ UNCHANGED house
    \/ Correspondence /\ UNCHANGED <<trade, house>>
    \/ Bargaining /\ UNCHANGED house
    \/ Auctioning /\ UNCHANGED trade
    \/ Crash
    \/ (Restart \/ LoadWorld) /\ UNCHANGED trade

Spec == Init /\ [][Next]_vars

(* A server that may have been down while an auction expired. *)
LateNext ==
    \/ Next
    \/ (\E a \in AuctionId : RestartLate(a)) /\ UNCHANGED trade
LateSpec == Init /\ [][LateNext]_vars

-----------------------------------------------------------------------------
MemoryMail ==
    [sender : Player, money : Nat, cod : Nat, kind : {"normal", "auction"},
     returned : BOOLEAN, item : Item \union {None},
     state : {"unchanged", "changed", "deleted"}]

(* Every variable has its type. *)
TypeOK ==
    /\ db \in Tables
    /\ Len(queue) <= MaxPending + MaxMail
    /\ \A p \in Player :
          /\ char[p].state \in {"offline", "loading", "online"}
          /\ char[p].money \in 0..MaxMoney
          /\ char[p].bag \subseteq Item /\ char[p].mMitems \subseteq Item
          /\ char[p].mailsLoaded \in BOOLEAN /\ char[p].mailsUpdated \in BOOLEAN
          /\ DOMAIN Owned(p) \subseteq MailId
          /\ \A m \in DOMAIN Owned(p) : Owned(p)[m] \in MemoryMail
    /\ phase \in {"down", "starting", "up"}
    /\ DOMAIN auctions \subseteq AuctionId
    /\ \A a \in DOMAIN auctions : auctions[a] \in AuctionRow
    /\ \A p \in Player :
          /\ trade[p].trader \in Player \union {None} /\ trade[p].money \in OfferedGold \union {0}
          /\ trade[p].items \subseteq Item /\ trade[p].accepted \in BOOLEAN
    /\ mAitems \subseteq Item /\ crashes \in 0..MaxCrashes /\ astray \in BOOLEAN
    /\ mailid \in 1..MaxMail + 1 /\ auctionid \in 1..MaxAuction + 1

(* A trade has two sides, each of which is the other's partner, and both are   *)
(* in the world: m_trader is used without a look.                              *)
TradeIsMutual ==
    \A p \in Player : trade[p] # NoTrade =>
        Online(p) /\ Partner(p) # p /\ trade[Partner(p)].trader = p

(* Who has accepted has accepted what both windows show now: no change of an   *)
(* offer leaves an acceptance in place.                                        *)
AcceptanceStands ==
    [][\A p \in Player :
          LET q == Partner(p)
          IN  trade[p].accepted /\ trade'[p].accepted =>
                 /\ trade'[p] = trade[p]
                 /\ trade'[q].money = trade[q].money
                 /\ trade'[q].items = trade[q].items]_trade

GoldConserved == GoldIn(db) + db.fees = InitialGold * Cardinality(Player)

ItemsKept ==
    \A i \in db.instance :
        LET places == Cardinality(PlacesOf(db, i))
        IN  places <= 1 /\ (places = 0 => i \in db.lost)

(* After every transaction the gold in purses, mails, bids and deposits, and   *)
(* what the game has taken, is the gold there was at first, and an item is in  *)
(* one inventory, one mail or one auction, as long as it exists: a crash       *)
(* between any two transactions neither loses nor doubles anything. But for    *)
(* the items that the code itself leaves nowhere: those of an auction mail     *)
(* that is returned, and of an auction that ends while the house does not know *)
(* its item; and as long as none went astray.                                  *)
GoodsConserved == ~astray => TypeOK /\ GoldConserved /\ ItemsKept

(* What the handlers decide by, in memory, is what the tables will say when    *)
(* the queue has been worked off, although each handler saves only what it     *)
(* believes it has changed; as long as no item went astray.                    *)
MemoryIsCurrent ==
    ~astray =>
        LET final == Final
        IN  /\ \A p \in Player : Online(p) =>
                  /\ char[p].money = final.money[p]
                  /\ char[p].bag = ItemsOf(final, p)
            /\ phase = "up" =>
                  /\ DOMAIN auctions = RowsOf(final.auctionhouse)
                  /\ \A a \in DOMAIN auctions : auctions[a] = final.auctionhouse[a]

(* A mail in a mailbox is there: its gold and its item can be taken because    *)
(* nobody else will have them; as long as no item went astray.                 *)
MailboxIsCurrent ==
    ~astray =>
        LET final == Final
        IN  \A p \in Player : \A m \in DOMAIN Owned(p) :
              /\ final.mail[m] # None
              /\ final.mail[m].receiver = p
              /\ final.mail[m].money = Owned(p)[m].money
              /\ final.mail[m].cod = Owned(p)[m].cod
              /\ Owned(p)[m].item = ItemIn(final, m)
              /\ Owned(p)[m].item \in char[p].mMitems \union {None}

(* What a player owns in gold: in the purse, in mails, in bids and deposits.   *)
Wealth(d, p) ==
    d.money[p]
      + Total([m \in {m \in RowsOf(d.mail) : d.mail[m].receiver = p} |->
                  Value(d.mail[m].money)])
      + Total([a \in RowsOf(d.auctionhouse) |->
                  (IF d.auctionhouse[a].bidder = p THEN d.auctionhouse[a].bid ELSE 0)
                + (IF d.auctionhouse[a].owner = p THEN d.auctionhouse[a].deposit ELSE 0)])

MailedTo(d, i, p) == \E m \in RowsOf(d.mail) : d.mail[m].receiver = p /\ d.mail_items[i] = m

(* An auction has ended, in a step after which the tables will be d, that was  *)
(* p's own or has sent him its item.                                           *)
EndedFor(d, p) ==
    \E a \in (DOMAIN auctions) \ (DOMAIN auctions') :
        \/ auctions[a].owner = p
        \/ auctions[a].bidder = p /\ MailedTo(d, auctions[a].item, p)

(* Nobody loses gold by what others do: while the server runs, a player's gold *)
(* becomes less only by an action of his own, or by the end of an auction that *)
(* sends him its item, or whose deposit was his; as long as no item went       *)
(* astray.                                                                     *)
OnlyOwnLosses ==
    [][phase = "up" /\ Len(queue') > Len(queue) /\ ~astray' =>
          LET before == Final
              after == Final'
          IN  \A p \in Player : char'[p] = char[p] /\ ~EndedFor(after, p)
                 => Wealth(after, p) >= Wealth(before, p)]_<<queue, char, house>>

(* AuctionHouseMgr.cpp:819, of the auctions that expired before the server     *)
(* started: "Send the item to the winner and money to seller". When the row of *)
(* such an auction goes, its item is in a mail to the winner.                  *)
WinnerGetsItem ==
    [][\A a \in AuctionId :
          LET row == db.auctionhouse[a]
          IN  /\ phase = "starting"
              /\ row # None /\ db'.auctionhouse[a] = None
              /\ row.bidder # None
              => \E m \in RowsOf(db'.mail) :
                    /\ db'.mail[m].receiver = row.bidder
                    /\ db'.mail_items[row.item] = m]_vars
=============================================================================
