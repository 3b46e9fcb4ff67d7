-------------------------------- MODULE Mail --------------------------------
(* The characters in the world, as far as gold, items and mail are concerned,  *)
(* and the mail system: drafts that become rows of mail and, for a receiver    *)
(* who has listed his mails, objects in his mailbox too. All of it runs in the *)
(* world thread; what it changes in memory it saves by a transaction that      *)
(* waits behind others.                                                        *)
EXTENDS CharacterStore

CONSTANTS
    Postage,        \* of a mail
    MaxMoney,       \* MAX_MONEY_AMOUNT
    MailedGold,     \* bound: the sums players send
    CodGold,        \* bound: the sums they ask for an item
    Writers,        \* bound: who sends mail, apart from what the server sends
    Leavers         \* bound: who logs out, apart from a crash

Word == 2 * Half        \* 2^32

ASSUME MailAssumption ==
    /\ Postage \in Nat /\ MaxMoney \in Nat /\ InitialGold <= MaxMoney
    /\ Postage < Half /\ MaxMoney < Half
    /\ MailedGold \subseteq 0..(Word - 1) /\ CodGold \subseteq 0..(Word - 1)
    /\ Writers \subseteq Player /\ Leavers \subseteq Player

VARIABLES
    char,           \* each character in memory
    mailid,         \* ObjectMgr::m_mailid
    astray          \* history: an item was taken through a mail that does not list
                    \* it, or a trade has left one with nobody

mail == <<char, mailid, astray>>

(* mails maps the id of each mail of m_mail to it, with the item it lists.     *)
Offline ==
    [state |-> "offline", money |-> 0, bag |-> {}, mails |-> <<>>, mMitems |-> {},
     mailsLoaded |-> FALSE, mailsUpdated |-> FALSE]

Online(p) == char[p].state = "online"
Owned(p) == char[p].mails

InitMail ==
    /\ char = [p \in Player |-> Offline]
    /\ mailid = 1
    /\ astray = FALSE

-----------------------------------------------------------------------------
(* MailDraft. *)

Draft(receiver, sender, kind) ==
    [receiver |-> receiver, sender |-> sender, kind |-> kind, money |-> 0,
     cod |-> 0, item |-> None, returned |-> FALSE]

RowOf(draft) == [c \in MailColumns |-> draft[c]]

InMemory(row, i) ==
    [sender |-> row.sender, money |-> row.money, cod |-> row.cod, kind |-> row.kind,
     returned |-> row.returned, item |-> i, state |-> "unchanged"]

(* GenerateMailID, for the drafts of one transaction in their order. *)
CanPost(drafts) == mailid + Len(drafts) - 1 <= MaxMail
IdsOf(drafts) == mailid..(mailid + Len(drafts) - 1)
DraftOf(drafts, m) == drafts[m - mailid + 1]

(* SendMailTo: the rows, and the mailboxes of receivers that are online and    *)
(* have loaded their mails. For any other receiver the item leaves memory.     *)
Posted(t, drafts) ==
    LET withItem == {m \in IdsOf(drafts) : DraftOf(drafts, m).item # None}
    IN  [t EXCEPT !.mail = Override([m \in IdsOf(drafts) |-> RowOf(DraftOf(drafts, m))], @),
                  !.listed =
                     Override([i \in {DraftOf(drafts, m).item : m \in withItem} |->
                                 CHOOSE m \in withItem : DraftOf(drafts, m).item = i], @)]

Received(c, drafts) ==
    [p \in Player |->
        IF c[p].state # "online" \/ ~c[p].mailsLoaded THEN c[p]
        ELSE LET new == {m \in IdsOf(drafts) : DraftOf(drafts, m).receiver = p}
                 Memory(m) == InMemory(DraftOf(drafts, m), DraftOf(drafts, m).item)
                 items == {DraftOf(drafts, m).item : m \in new} \ {None}
             IN  [c[p] EXCEPT !.mails = Override([m \in new |-> Memory(m)], @),
                              !.mMitems = @ \union items]]

(* A handler's end: its drafts are posted and its transaction committed. *)
PostAndCommit(t, c, drafts) ==
    /\ CanPost(drafts)
    /\ CommitTransaction(Posted(t, drafts))
    /\ char' = Received(c, drafts)
    /\ mailid' = mailid + Len(drafts)

Commit(t, c, drafts) == PostAndCommit(t, c, drafts) /\ UNCHANGED astray

-----------------------------------------------------------------------------
(* Player::ModifyMoney, of a negative and of a positive sum. *)
Paid(c, sum) == [c EXCEPT !.money = IF @ > sum THEN @ - sum ELSE 0]
Earned(c, sum) ==
    [c EXCEPT !.money = IF @ < MaxMoney - sum THEN @ + sum ELSE MaxMoney]

(* A faulty variant, for the sensitivity of the checks, as are the other       *)
(* operators named Mutant...: the gold stays in memory until the next save.    *)
MutantNoGoldSaved(t, p, c) == t
SaveGoldToDB(t, p, c) == [t EXCEPT !.money = Override(Only(p, c.money), @)]

(* Player::_SaveMail. A mail the player deleted goes with what it lists, which *)
(* stays in mMitems.                                                           *)
SaveMail(t, c) ==
    LET inState(s) == {m \in DOMAIN c.mails : c.mails[m].state = s}
        changed == inState("changed")
        deleted == inState("deleted")
        listed == {c.mails[m].item : m \in deleted} \ {None}
    IN  IF ~c.mailsLoaded THEN t
        ELSE [t EXCEPT
                !.mail = Override([m \in changed \union deleted |->
                                     IF m \in deleted THEN None
                                     ELSE [money |-> c.mails[m].money, cod |-> c.mails[m].cod]], @),
                !.cleared = @ \union deleted,
                !.destroyed = @ \union listed,
                !.fees = @ + Total([m \in deleted |-> Value(c.mails[m].money)])]

MailSaved(c) ==
    LET kept == {m \in DOMAIN c.mails : c.mails[m].state # "deleted"}
    IN  IF ~c.mailsLoaded THEN c
        ELSE [c EXCEPT !.mails = [m \in kept |-> [c.mails[m] EXCEPT !.state = "unchanged"]],
                       !.mailsUpdated = FALSE]

(* Player::SaveToDB. Every change of the inventory has been saved by the       *)
(* handler that made it.                                                       *)
SavedAll(p) ==
    LET t == SaveGoldToDB(NoWrites, p, char[p])
    IN  IF char[p].mailsUpdated THEN SaveMail(t, char[p]) ELSE t

-----------------------------------------------------------------------------
(* The life of a character. *)

(* HandlePlayerLoginOpcode: DelayQueryHolder. *)
Login(p) ==
    /\ char[p].state = "offline"
    /\ CommitTransaction([NoWrites EXCEPT !.login = p])
    /\ char' = [char EXCEPT ![p].state = "loading"]
    /\ UNCHANGED <<mailid, astray>>

(* The worker thread executes the oldest operation. The result of a login's    *)
(* query holder is at once what HandlePlayerLogin makes the player of; nobody  *)
(* else changes the rows it is about.                                          *)
Execute ==
    /\ queue # <<>>
    /\ LET t == Head(queue)
       IN  /\ db' = Apply(db, t)
           /\ char' = IF t.login = None THEN char
                      ELSE [char EXCEPT ![t.login] =
                              [Offline EXCEPT !.state = "online",
                                              !.money = db.money[t.login],
                                              !.bag = ItemsOf(db, t.login)]]
    /\ queue' = Tail(queue)
    /\ UNCHANGED <<mailid, astray>>

Save(p) ==
    /\ Online(p)
    /\ CommitTransaction(SavedAll(p))
    /\ char' = [char EXCEPT ![p] = IF @.mailsUpdated THEN MailSaved(@) ELSE @]
    /\ UNCHANGED <<mailid, astray>>

Logout(p) ==
    /\ Online(p)
    /\ CommitTransaction(SavedAll(p))
    /\ char' = [char EXCEPT ![p] = Offline]
    /\ UNCHANGED <<mailid, astray>>

-----------------------------------------------------------------------------
(* The handlers of MailHandler.cpp. *)

(* The mails are loaded again whenever they are listed. *)
MutantLoadMail(p) ==
    /\ Online(p)
    /\ LET rows == {m \in RowsOf(db.mail) : db.mail[m].receiver = p}
       IN  char' = [char EXCEPT
                      ![p].mailsLoaded = TRUE,
                      ![p].mails = [m \in rows |-> InMemory(db.mail[m], ItemIn(db, m))],
                      ![p].mMitems = @ \union ({ItemIn(db, m) : m \in rows} \ {None})]
    /\ UNCHANGED <<store, mailid, astray>>

(* HandleGetMailList and HandleQueryNextMailTime: Player::_LoadMail, by a      *)
(* query that does not wait for the queue.                                     *)
LoadMail(p) ==
    /\ Online(p)
    /\ ~char[p].mailsLoaded
    /\ LET rows == {m \in RowsOf(db.mail) : db.mail[m].receiver = p}
       IN  char' = [char EXCEPT
                      ![p].mailsLoaded = TRUE,
                      ![p].mails = [m \in rows |-> InMemory(db.mail[m], ItemIn(db, m))],
                      ![p].mMitems = @ \union ({ItemIn(db, m) : m \in rows} \ {None})]
    /\ UNCHANGED <<store, mailid, astray>>

(* HandleSendMail: what it costs is added up as uint32. The limit of a hundred *)
(* mails is out of the bounds.                                                 *)
Reqmoney(money) == IF Postage + money < Word THEN Postage + money ELSE Postage + money - Word

SendMail(p, r, money, cod, i) ==
    /\ Online(p)
    /\ p # r
    /\ i \in char[p].bag \union {None}
    /\ char[p].money >= Reqmoney(money)
    /\ LET c == [Paid(char[p], Reqmoney(money)) EXCEPT !.bag = @ \ {i}]
           draft == [Draft(r, p, "normal") EXCEPT !.money = money, !.cod = cod, !.item = i]
           t == [NoWrites EXCEPT !.inventory = [j \in {i} \ {None} |-> None],
                                 !.fees = Reqmoney(money) - Value(money)]
       IN  Commit(SaveGoldToDB(t, p, c), [char EXCEPT ![p] = c], <<draft>>)

(* HandleMailMarkAsRead and HandleMailDelete change the mailbox; a later save  *)
(* carries that to the tables. Reading a mail that was deleted takes that back.*)
MarkAsRead(p, m) ==
    /\ Online(p)
    /\ m \in DOMAIN Owned(p)
    /\ char' = [char EXCEPT ![p].mails[m].state = "changed", ![p].mailsUpdated = TRUE]
    /\ UNCHANGED <<store, mailid, astray>>

DeleteMail(p, m) ==
    /\ Online(p)
    /\ m \in DOMAIN Owned(p)
    /\ Owned(p)[m].cod = 0
    /\ char' = [char EXCEPT ![p].mails[m].state = "deleted", ![p].mailsUpdated = TRUE]
    /\ UNCHANGED <<store, mailid, astray>>

(* The mail is in the mailbox, and delivered, which is left to chance. *)
Usable(p, m) ==
    /\ Online(p)
    /\ m \in DOMAIN Owned(p)
    /\ Owned(p)[m].state # "deleted"

(* HandleMailReturnToSender. A mail that no player sent goes too, but what it  *)
(* holds is sent to nobody.                                                    *)
ReturnToSender(p, m) ==
    /\ Usable(p, m)
    /\ LET old == Owned(p)[m]
           draft == [Draft(old.sender, p, "normal") EXCEPT
                       !.money = old.money, !.returned = TRUE,
                       !.item = IF old.item \in char[p].mMitems THEN old.item ELSE None]
           c == [char[p] EXCEPT !.mails = [k \in (DOMAIN @) \ {m} |-> @[k]]]
           t == [NoWrites EXCEPT !.mail = Only(m, None), !.cleared = {m}]
       IN  \/ /\ old.kind = "normal"
              /\ Commit(t, [char EXCEPT ![p] = [c EXCEPT !.mMitems = @ \ {old.item}]], <<draft>>)
           \/ /\ old.kind # "normal"
              /\ Commit([t EXCEPT !.fees = Value(old.money), !.lost = {old.item} \ {None}],
                        [char EXCEPT ![p] = c], <<>>)

(* HandleMailTakeItem, of any item of mMitems: the mail m need not list it.    *)
(* The money of a mail with COD goes to the sender by mail.                    *)
TakeItem(p, m, i) ==
    /\ Usable(p, m)
    /\ i \in char[p].mMitems
    /\ char[p].money >= Owned(p)[m].cod
    /\ LET old == Owned(p)[m]
           now == [old EXCEPT !.item = IF @ = i THEN None ELSE @, !.cod = 0, !.state = "changed"]
           c == [Paid(char[p], old.cod) EXCEPT
                   !.bag = @ \union {i}, !.mMitems = @ \ {i}, !.mails[m] = now]
           payment == [Draft(old.sender, p, "normal") EXCEPT
                         !.money = old.cod, !.returned = TRUE]
           t == [NoWrites EXCEPT !.inventory = Only(i, p), !.created = {i}, !.unlisted = {i}]
       IN  PostAndCommit(SaveMail(SaveGoldToDB(t, p, c), c),
                         [char EXCEPT ![p] = MailSaved(c)],
                         IF old.cod > 0 THEN <<payment>> ELSE <<>>)
    /\ astray' = (astray \/ Owned(p)[m].item # i)

(* HandleMailTakeMoney: the money is an int32 for ModifyMoney, which takes it  *)
(* from the purse when that is negative. What exceeds the limit of gold is     *)
(* gone. Here, and in the variant after it, which does not save the mail with  *)
(* the money, what the character is then.                                      *)
WithMoney(x, money) ==
    IF money < Half THEN Earned(x, money) ELSE Paid(x, Word - money)

MutantTakeMoney(p, m) ==
    /\ Usable(p, m)
    /\ LET c == [WithMoney(char[p], Owned(p)[m].money) EXCEPT
                   !.mails[m] = [@ EXCEPT !.money = 0, !.state = "changed"],
                   !.mailsUpdated = TRUE]
           gone == char[p].money + Value(Owned(p)[m].money) - c.money
           t == [NoWrites EXCEPT !.fees = gone]
       IN  Commit(SaveGoldToDB(t, p, c), [char EXCEPT ![p] = c], <<>>)

TakeMoney(p, m) ==
    /\ Usable(p, m)
    /\ LET c == [WithMoney(char[p], Owned(p)[m].money) EXCEPT
                   !.mails[m] = [@ EXCEPT !.money = 0, !.state = "changed"]]
           gone == char[p].money + Value(Owned(p)[m].money) - c.money
           t == [NoWrites EXCEPT !.fees = gone]
       IN  Commit(SaveMail(SaveGoldToDB(t, p, c), c),
                  [char EXCEPT ![p] = MailSaved(c)], <<>>)

-----------------------------------------------------------------------------
(* ObjectMgr::ReturnOrDeleteOldMails, for one expired mail: a mail with an     *)
(* item goes back once, if a player sent it; everything else is deleted. The   *)
(* item of a mail that is deleted keeps its row in mail_items. has_items, a    *)
(* column of the mail, says so of every mail that has one, and may say so too  *)
(* of one whose item was taken through another mail.                           *)
OldMail(m, has_items) ==
    LET row == db.mail[m]
        i == ItemIn(db, m)
    IN  IF has_items /\ row.kind = "normal" /\ ~row.returned
        THEN [NoWrites EXCEPT !.mail = Only(m, [receiver |-> row.sender, sender |-> row.receiver,
                                                cod |-> 0, returned |-> TRUE])]
        ELSE [NoWrites EXCEPT !.mail = Only(m, None), !.destroyed = {i} \ {None},
                              !.fees = Value(row.money)]

Correspondence ==
    \/ \E p \in Player : Save(p) \/ LoadMail(p)
    \/ \E p \in Writers, r \in Player, money \in MailedGold, cod \in CodGold, i \in Item \union {None} :
          SendMail(p, r, money, cod, i)
    \/ \E p \in Player, m \in MailId :
          \/ MarkAsRead(p, m) \/ DeleteMail(p, m) \/ ReturnToSender(p, m) \/ TakeMoney(p, m)
          \/ \E i \in Item : TakeItem(p, m, i)
=============================================================================
