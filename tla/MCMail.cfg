SPECIFICATION Spec
CONSTANTS
    seller = seller
    bidder = bidder
    rival = rival
    sword = sword
    None = None
    Item = {sword}
    InitialOwner <- MCOwner
    InitialGold = 2
    MaxMoney = 2
    Half = 4
    MaxAuction = 1
    Postage = 1
    Deposit = 1
    CutPercent = 50
    StartBids = {1}
    MaxCrashes = 1
    Player = {seller, bidder}
    MaxMail = 2
    MaxPending = 2
    MailedGold = {1, 7}
    CodGold = {1}
    Writers = {seller}
    Traders = {}
    OfferedGold = {0, 1}
    Leavers = {bidder}
    Buyouts = {0}
    Prices = {2}
CONSTRAINT NothingAstray
INVARIANTS
    GoodsConserved
    MailboxIsCurrent
