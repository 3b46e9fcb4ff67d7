SPECIFICATION Spec
CONSTANTS
    seller = seller
    bidder = bidder
    rival = rival
    sword = sword
    None = None
    Item = {sword}
    InitialOwner <- MCOwner
    InitialGold = 2
    MaxMoney = 3
    Half = 4
    MaxAuction = 0
    Postage = 1
    Deposit = 1
    CutPercent = 50
    StartBids = {1}
    MaxCrashes = 1
    Player = {seller, bidder}
    MaxMail = 1
    MaxPending = 1
    MailedGold = {1}
    CodGold = {0}
    Writers = {seller, bidder}
    Traders = {seller}
    OfferedGold = {0, 1}
    Leavers = {seller, bidder}
    Buyouts = {0}
    Prices = {2}
CONSTRAINT NothingAstray
INVARIANTS
    GoodsConserved
    TradeIsMutual
PROPERTIES
    AcceptanceStands
