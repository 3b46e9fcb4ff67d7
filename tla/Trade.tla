-------------------------------- MODULE Trade --------------------------------
(* The trade of two players: what each offers and whether he has accepted, in  *)
(* the TradeData of each, and the exchange, which is saved for both in one     *)
(* transaction. While the window is open both may send mail, use the auction   *)
(* house or leave, with the gold and the items that they offer.                *)
EXTENDS Mail

CONSTANTS
    Traders,        \* bound: who opens a trade
    OfferedGold     \* bound: the sums that players offer

ASSUME TradeAssumption == Traders \subseteq Player /\ OfferedGold \subseteq Nat

VARIABLE trade      \* Player::m_trade

NoTrade == [trader |-> None, money |-> 0, items |-> {}, accepted |-> FALSE]

AllClosed == [p \in Player |-> NoTrade]
InitTrade == trade = AllClosed

Trading(p) == Online(p) /\ trade[p] # NoTrade
Partner(p) == trade[p].trader

(* The items in the slots of p that he still has: TradeData::GetItem. *)
Given(p) == trade[p].items \intersect char[p].bag

(* HandleInitiateTradeOpcode, and TradeData::TradeData, which does not set     *)
(* m_items: the slots hold what was in that memory, the items of an earlier    *)
(* trade for one.                                                              *)
InitiateTrade(p, q) ==
    /\ Online(p) /\ Online(q) /\ p # q
    /\ trade[p] = NoTrade /\ trade[q] = NoTrade
    /\ \E mine, his \in SUBSET Item :
          trade' = [trade EXCEPT ![p] = [NoTrade EXCEPT !.trader = q, !.items = mine],
                                 ![q] = [NoTrade EXCEPT !.trader = p, !.items = his]]
    /\ UNCHANGED <<store, mail>>

(* TradeData::SetMoney and SetItem: a change of an offer takes back both       *)
(* acceptances. Faulty variant, for the sensitivity of the checks, as are the  *)
(* other operators named Mutant...: it takes back only that of who changes it. *)
MutantOffer(p, money, items) ==
    trade' = [trade EXCEPT ![p] = [@ EXCEPT !.money = money, !.items = items,
                                            !.accepted = FALSE]]

Offer(p, money, items) ==
    trade' = [trade EXCEPT ![p] = [@ EXCEPT !.money = money, !.items = items,
                                            !.accepted = FALSE],
                           ![Partner(p)].accepted = FALSE]

SetTradeGold(p, gold) ==
    /\ Trading(p)
    /\ gold # trade[p].money
    /\ Offer(p, gold, trade[p].items)
    /\ UNCHANGED <<store, mail>>

(* HandleSetTradeItemOpcode, into a slot that is empty or holds the item old,  *)
(* and HandleClearTradeItemOpcode.                                             *)
SetTradeItem(p, i, old) ==
    /\ Trading(p)
    /\ i \in char[p].bag \ trade[p].items
    /\ old \in trade[p].items \union {None}
    /\ Offer(p, trade[p].money, (trade[p].items \ {old}) \union {i})
    /\ UNCHANGED <<store, mail>>

ClearTradeItem(p, i) ==
    /\ Trading(p)
    /\ i \in trade[p].items
    /\ Offer(p, trade[p].money, trade[p].items \ {i})
    /\ UNCHANGED <<store, mail>>

UnacceptTrade(p) ==
    /\ Trading(p)
    /\ trade' = [trade EXCEPT ![p].accepted = FALSE]
    /\ UNCHANGED <<store, mail>>

(* Player::TradeCancel. *)
Closed(p) ==
    IF trade[p] = NoTrade THEN trade
    ELSE [trade EXCEPT ![p] = NoTrade, ![Partner(p)] = NoTrade]

TradeCancel(p) ==
    /\ Trading(p)
    /\ trade' = Closed(p)
    /\ UNCHANGED <<store, mail>>

(* LogoutPlayer: the player is deleted, his trade is closed before. *)
MutantLeave(p) == Logout(p) /\ trade' = [trade EXCEPT ![p] = NoTrade]
Leave(p) == Logout(p) /\ trade' = Closed(p)

-----------------------------------------------------------------------------
(* HandleAcceptTradeOpcode. *)
HasEnoughMoney(p) == char[p].money >= trade[p].money

(* It returns early: p, or his partner, has not the gold any more; an item     *)
(* cannot be traded any more; the partner has not accepted; or there is no     *)
(* room for the items.                                                         *)
NotYet(p) ==
    LET q == Partner(p)
        mine == [trade EXCEPT ![p].accepted = TRUE]
    IN  /\ Trading(p)
        /\ IF ~HasEnoughMoney(p) THEN trade' = [trade EXCEPT ![p].accepted = FALSE]
           ELSE IF ~HasEnoughMoney(q) THEN trade' = [mine EXCEPT ![q].accepted = FALSE]
           ELSE \/ /\ ~trade[q].accepted \/ Given(p) \union Given(q) # {}
                   /\ trade' = mine
                \/ /\ trade[q].accepted
                   /\ Given(p) \union Given(q) # {}
                   /\ trade' = [mine EXCEPT ![p].accepted = FALSE, ![q].accepted = FALSE]
        /\ UNCHANGED <<store, mail>>

(* The partner's gold is not looked at. *)
MutantBothCanPay(p) == HasEnoughMoney(p)
BothCanPay(p) == HasEnoughMoney(p) /\ HasEnoughMoney(Partner(p))

(* One side of the exchange: the items mine leave, the items his come; gold    *)
(* over the limit is gone.                                                     *)
Exchanged(p, mine, his) ==
    [Earned(Paid(char[p], trade[p].money), trade[Partner(p)].money) EXCEPT
        !.bag = (@ \ mine) \union his]

(* That gold. *)
CutOff(p) ==
    LET sum == Paid(char[p], trade[p].money).money + trade[Partner(p)].money
    IN  IF sum > MaxMoney THEN sum - MaxMoney ELSE 0

(* Both have accepted: the exchange, saved for both. moveItems: the items that *)
(* cannot be stored after all go back, or are nobody's if that is not possible *)
(* either, and the gold changes hands all the same. The row of an item that is *)
(* nobody's stays, or goes as its slot is used again.                          *)
CompleteTrade(p) ==
    /\ Trading(p)
    /\ BothCanPay(p)
    /\ trade[Partner(p)].accepted
    /\ \E back, dropped \in SUBSET (Given(p) \union Given(Partner(p))) : \E gone \in SUBSET dropped :
          LET q == Partner(p)
              mine == Given(p) \ back
              his == Given(q) \ back
              cp == Exchanged(p, mine, his \ dropped)
              cq == Exchanged(q, his, mine \ dropped)
              stored == (mine \union his) \ dropped
              t == [NoWrites EXCEPT
                      !.inventory = [i \in stored \union gone |->
                                       IF i \in gone THEN None ELSE IF i \in mine THEN q ELSE p],
                      !.fees = CutOff(p) + CutOff(q),
                      !.lost = gone]
          IN  /\ back \intersect dropped = {}
              /\ PostAndCommit(SaveGoldToDB(SaveGoldToDB(t, p, cp), q, cq),
                               [char EXCEPT ![p] = cp, ![q] = cq], <<>>)
              /\ astray' = (astray \/ dropped # {})
    /\ trade' = Closed(p)

Bargaining ==
    \/ \E p \in Traders, q \in Player : InitiateTrade(p, q)
    \/ \E p \in Player :
          \/ \E gold \in OfferedGold : SetTradeGold(p, gold)
          \/ \E i \in Item : ClearTradeItem(p, i) \/ \E old \in Item \union {None} : SetTradeItem(p, i, old)
          \/ UnacceptTrade(p) \/ TradeCancel(p) \/ NotYet(p) \/ CompleteTrade(p)
=============================================================================
