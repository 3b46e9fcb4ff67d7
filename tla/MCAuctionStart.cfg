SPECIFICATION LateSpec
CONSTANTS
    seller = seller
    bidder = bidder
    rival = rival
    sword = sword
    None = None
    Item = {sword}
    InitialOwner <- MCOwner
    InitialGold = 2
    MaxMoney = 2
    Half = 4
    MaxAuction = 1
    Postage = 1
    Deposit = 1
    CutPercent = 50
    StartBids = {1}
    MaxCrashes = 1
    Player = {seller, bidder}
    MaxMail = 2
    MaxPending = 1
    MailedGold = {}
    CodGold = {}
    Writers = {}
    Traders = {}
    OfferedGold = {}
    Leavers = {}
    Buyouts = {2}
    Prices = {1}
PROPERTIES WinnerGetsItem
