--------------------------- MODULE CharacterStore ---------------------------
(* The tables of the character database that hold gold and items, and the      *)
(* operations of CharacterDatabase that wait for its worker thread. A          *)
(* transaction is the set of rows it writes; it takes effect as a whole, in    *)
(* the order of CommitTransaction (one worker thread: SqlWorkerPool is about   *)
(* that), while the queries of the world thread see only what has taken        *)
(* effect.                                                                     *)
EXTENDS Integers, Sequences, FiniteSets, SequencesExt

CONSTANTS
    Player,         \* characters, each of an account of its own
    Item,
    None,           \* no row, no player, no item
    InitialGold,    \* what each character has at first
    InitialOwner,   \* whose inventory each item is in at first
    Half,           \* 2^31: a sum that is a uint32 in a mail is an int32 where it is paid
    MaxMail,        \* bound: the highest mail id
    MaxAuction,     \* bound: the highest auction id
    MaxPending      \* bound: operations that wait

ASSUME StoreAssumption ==
    /\ IsFiniteSet(Player)
    /\ None \notin Player \union Item
    /\ InitialGold \in Nat
    /\ InitialOwner \in [Item -> Player]
    /\ Half \in Nat
    /\ MaxMail \in Nat /\ MaxAuction \in Nat /\ MaxPending \in Nat \ {0}

MailId == 1..MaxMail
AuctionId == 1..MaxAuction

VARIABLES
    db,             \* the tables
    queue           \* the operations that wait

store == <<db, queue>>

-----------------------------------------------------------------------------
(* Rows. Whether a mail has items is what mail_items says; times are left to   *)
(* chance; returned stands for the masks COD_PAYMENT and RETURNED.             *)
MailRow ==
    [receiver : Player, sender : Player, money : Nat, cod : Nat,
     kind : {"normal", "auction"}, returned : BOOLEAN]

AuctionRow ==
    [item : Item, owner : Player, bidder : Player \union {None}, bid : Nat,
     startbid : Nat, buyout : Nat, deposit : Nat]

(* What updates a row: the columns that a save of a mailbox, the return of an  *)
(* old mail and a bid write.                                                   *)
MailUpdate ==
    [money : Nat, cod : Nat]
      \union [receiver : Player, sender : Player, cod : Nat, returned : BOOLEAN]

AuctionUpdate == [bidder : Player, bid : Nat]

ASSUME NoneAssumption ==
    None \notin Nat \union MailRow \union MailUpdate \union AuctionRow \union AuctionUpdate

MailColumns == {"receiver", "sender", "money", "cod", "kind", "returned"}
AuctionColumns == {"item", "owner", "bidder", "bid", "startbid", "buyout", "deposit"}

InitStore ==
    /\ db = [money        |-> [p \in Player |-> InitialGold],
             instance     |-> Item,
             inventory    |-> InitialOwner,
             mail         |-> [m \in MailId |-> None],
             mail_items   |-> [i \in Item |-> None],
             auctionhouse |-> [a \in AuctionId |-> None],
             fees         |-> 0,          \* history: the gold that left the game
             lost         |-> {}]         \* history: the items left where nobody finds them
    /\ queue = <<>>

(* Functions with one key, and with the values of another where they differ:   *)
(* :> and @@ of module TLC, in a form that can be proved about.                *)
Only(k, v) == [x \in {k} |-> v]
Override(w, f) ==
    [x \in (DOMAIN w) \union (DOMAIN f) |-> IF x \in DOMAIN w THEN w[x] ELSE f[x]]

(* An operation that writes nothing. What it may write: rows of four tables;   *)
(* of mail_items the rows it deletes, by item and by mail, and those that it    *)
(* inserts; of item_instance those that are replaced and those that are         *)
(* destroyed. login names the character whose query holder it is.              *)
NoWrites ==
    [money |-> <<>>, inventory |-> <<>>, mail |-> <<>>, auctionhouse |-> <<>>,
     unlisted |-> {}, cleared |-> {}, listed |-> <<>>, created |-> {}, destroyed |-> {},
     fees |-> 0, lost |-> {}, login |-> None]

(* Each key's row after the writes w: None deletes it, all its columns insert  *)
(* it, and some of them update it, if it is there.                             *)
Written(table, w, columns) ==
    [k \in DOMAIN table |->
        IF k \notin DOMAIN w THEN table[k]
        ELSE IF w[k] = None \/ DOMAIN w[k] = columns THEN w[k]
        ELSE IF table[k] = None THEN None
        ELSE Override(w[k], table[k])]

(* What is left in mail_items when its rows are deleted.                       *)
Unlisted(d, t) ==
    [i \in DOMAIN d.mail_items |->
        IF i \in t.unlisted \/ d.mail_items[i] \in t.cleared THEN None ELSE d.mail_items[i]]

(* An item has one row there at most: the transaction that inserts another is  *)
(* rolled back.                                                                *)
Refused(d, t) == \E i \in DOMAIN t.listed : Unlisted(d, t)[i] # None

(* The tables after an operation. *)
Apply(d, t) ==
    IF Refused(d, t) THEN d
    ELSE [money        |-> Override(t.money, d.money),
          instance     |-> (d.instance \union t.created) \ t.destroyed,
          inventory    |-> Override(t.inventory, d.inventory),
          mail         |-> Written(d.mail, t.mail, MailColumns),
          mail_items   |-> Override(t.listed, Unlisted(d, t)),
          auctionhouse |-> Written(d.auctionhouse, t.auctionhouse, AuctionColumns),
          fees         |-> d.fees + t.fees,
          lost         |-> d.lost \union t.lost]

(* What the tables will be when every operation that waits has taken effect.   *)
Final ==
    LET after[k \in 0..Len(queue)] ==
          IF k = 0 THEN db ELSE Apply(after[k - 1], queue[k])
    IN  after[Len(queue)]

(* CommitTransaction and Execute. *)
CommitTransaction(t) ==
    /\ Len(queue) < MaxPending
    /\ queue' = Append(queue, t)
    /\ UNCHANGED db

-----------------------------------------------------------------------------
(* What the tables hold. A join with item_instance leaves out an item that was *)
(* destroyed.                                                                  *)
RowsOf(table) == {k \in DOMAIN table : table[k] # None}
NextKey(table) == Max(RowsOf(table) \union {0}) + 1     \* SELECT MAX(id)
ItemsOf(d, p) == {i \in d.instance : d.inventory[i] = p}
ItemIn(d, m) ==
    LET items == {i \in d.instance : d.mail_items[i] = m}
    IN  IF items = {} THEN None ELSE CHOOSE i \in items : TRUE

Total(f) == MapThenSumSet(LAMBDA k : f[k], DOMAIN f)

(* What the gold of a mail is worth: what is 2^31 and more is negative where    *)
(* it is paid out.                                                             *)
Value(money) == IF money < Half THEN money ELSE 0

GoldIn(d) ==
    Total(d.money)
      + Total([m \in RowsOf(d.mail) |-> Value(d.mail[m].money)])
      + Total([a \in RowsOf(d.auctionhouse) |->
                  d.auctionhouse[a].bid + d.auctionhouse[a].deposit])

(* Where the tables say an item is. *)
PlacesOf(d, i) ==
    {<<"inventory", p>> : p \in {p \in Player : d.inventory[i] = p}}
      \union {<<"mail", m>> : m \in {m \in RowsOf(d.mail) : d.mail_items[i] = m}}
      \union {<<"auction", a>> :
                 a \in {a \in RowsOf(d.auctionhouse) : d.auctionhouse[a].item = i}}

Tables ==
    [money : [Player -> Nat],
     instance : SUBSET Item,
     inventory : [Item -> Player \union {None}],
     mail : [MailId -> MailRow \union {None}],
     mail_items : [Item -> MailId \union {None}],
     auctionhouse : [AuctionId -> AuctionRow \union {None}],
     fees : Nat,
     lost : SUBSET Item]
=============================================================================
