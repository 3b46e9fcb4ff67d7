---------------------------- MODULE SqlWorkerPool ----------------------------
(* The access to one database: DatabaseWorkerPool, its queue of operations,    *)
(* the DatabaseWorker threads, each with a connection of its own, and the      *)
(* connections for callers that wait. A MySQLConnection carries out one        *)
(* operation at a time, statement by statement, against a server that may      *)
(* reject a statement, roll the transaction back in a deadlock, or lose the    *)
(* connection, which then is opened again in the middle of the operation.      *)
EXTENDS Naturals, Sequences, FiniteSets

CONSTANTS
    Op,             \* every SQL operation of a behaviour
    Transaction,    \* those that are transactions; the others are statements on their own
    Direct,         \* those whose caller waits, on a connection of Synch
    Statements,     \* how many statements each has
    Async,          \* connections of the worker threads
    Synch,          \* connections of the callers
    QueueCapacity,  \* operations that fit under the queue's high water mark
    NoOp,
    MaxLosses       \* bound: lost connections in a behaviour

Conn == Async \union Synch

ASSUME OpAssumption ==
    /\ Transaction \subseteq Op
    /\ Direct \subseteq Op
    /\ Statements \in [Op -> Nat]
    /\ \A o \in Op \ Transaction : Statements[o] > 0
    /\ NoOp \notin Op
ASSUME PoolAssumption ==
    /\ Async \intersect Synch = {}
    /\ QueueCapacity \in Nat \ {0}
    /\ MaxLosses \in Nat

LoopBreaker == 5        \* attempts after the first one

VARIABLES
    queue,          \* m_queue
    closed,         \* m_queue is deactivated
    status,         \* of each operation
    conn,           \* each connection, with the operation it carries out
    db,             \* the statements of each operation that took effect, in order
    losses,         \* connections lost so far
    submitted       \* history: the operations of the queue, in the order they entered it

vars == <<queue, closed, status, conn, db, losses, submitted>>

IdleConn ==
    [task      |-> NoOp,
     pc        |-> "idle",
     next      |-> 1,           \* the statement to execute
     tries     |-> 0,           \* attempts after the first one
     lastError |-> "none",      \* mysql_errno
     up        |-> TRUE,        \* m_Mysql is not NULL
     inTx      |-> FALSE,       \* the server has a transaction open for it
     pending   |-> <<>>]        \* what it has executed in that transaction

Init ==
    /\ queue = <<>>
    /\ closed = FALSE
    /\ status = [o \in Op |-> "new"]
    /\ conn = [c \in Conn |-> IdleConn]
    /\ db = [o \in Op |-> <<>>]
    /\ losses = 0
    /\ submitted = <<>>

-----------------------------------------------------------------------------
(* A faulty variant, for the sensitivity of the checks, as are the other       *)
(* operators named Mutant...: the newest operation overtakes the others.       *)
MutantOvertakes(o) ==
    /\ o \notin Direct
    /\ status[o] = "new"
    /\ ~closed
    /\ Len(queue) < QueueCapacity
    /\ queue' = <<o>> \o queue
    /\ submitted' = Append(submitted, o)
    /\ status' = [status EXCEPT ![o] = "queued"]
    /\ UNCHANGED <<closed, conn, db, losses>>

(* DatabaseWorkerPool: Execute, AsyncQuery, DelayQueryHolder and               *)
(* CommitTransaction. enqueue has no timeout: the caller blocks on a full      *)
(* queue.                                                                      *)
Enqueue(o) ==
    /\ o \notin Direct
    /\ status[o] = "new"
    /\ ~closed
    /\ Len(queue) < QueueCapacity
    /\ queue' = Append(queue, o)
    /\ submitted' = Append(submitted, o)
    /\ status' = [status EXCEPT ![o] = "queued"]
    /\ UNCHANGED <<closed, conn, db, losses>>

(* Where the execution of an operation begins: an empty transaction fails. *)
FirstStep(o) ==
    CASE o \notin Transaction -> "statement"
      [] Statements[o] = 0    -> "failed"
      [] OTHER                -> "begin"

Take(c, o) ==
    /\ conn[c].pc = "idle"
    /\ conn' = [conn EXCEPT ![c].task = o, ![c].pc = FirstStep(o),
                            ![c].next = 1, ![c].tries = 0]
    /\ status' = [status EXCEPT ![o] = "running"]

(* DirectExecute, Query, DirectCommitTransaction: GetFreeConnection spins over *)
(* the connections until it locks a free one.                                  *)
ExecuteDirectly(c, o) ==
    /\ c \in Synch
    /\ o \in Direct
    /\ status[o] = "new"
    /\ ~closed
    /\ Take(c, o)
    /\ UNCHANGED <<queue, closed, db, losses, submitted>>

(* DatabaseWorker::svc. *)
Dequeue(c) ==
    /\ c \in Async
    /\ queue # <<>>
    /\ Take(c, Head(queue))
    /\ queue' = Tail(queue)
    /\ UNCHANGED <<closed, db, losses, submitted>>

(* Close deactivates the queue, which flushes it too: a worker ends with the   *)
(* operation in its hands. The callers of Synch have ended before.             *)
Close ==
    /\ ~closed
    /\ \A c \in Synch : conn[c].pc = "idle"
    /\ closed' = TRUE
    /\ queue' = <<>>
    /\ status' = [o \in Op |-> IF status[o] = "queued" THEN "discarded" ELSE status[o]]
    /\ UNCHANGED <<conn, db, losses, submitted>>

-----------------------------------------------------------------------------
(* MySQLConnection::Execute and ExecuteTransaction, on connection c. *)

Task(c) == conn[c].task
ErrorOf(c) == IF conn[c].up THEN "none" ELSE "other"

Begin(c) ==
    /\ conn[c].pc = "begin"
    /\ conn' = [conn EXCEPT ![c].pc = "statement", ![c].next = 1,
                            ![c].inTx = conn[c].up, ![c].lastError = ErrorOf(c)]
    /\ UNCHANGED <<queue, closed, status, db, losses, submitted>>

(* The connection after its current statement, and the operation's status: a   *)
(* statement on its own that fails does not stop the ones that follow.         *)
Finished(k, error) ==
    [k EXCEPT !.task = NoOp, !.pc = "idle", !.lastError = error]

Proceed(k, error) ==
    IF k.next < Statements[k.task]
    THEN [k EXCEPT !.next = @ + 1, !.lastError = error]
    ELSE IF k.task \in Transaction
         THEN [k EXCEPT !.pc = "commit", !.lastError = error]
         ELSE Finished(k, error)

LastOnItsOwn(c) ==
    Task(c) \notin Transaction /\ conn[c].next = Statements[Task(c)]

StatusAfter(c) ==
    IF LastOnItsOwn(c) THEN [status EXCEPT ![Task(c)] = "done"] ELSE status

StatementExecuted(c) ==
    /\ conn[c].pc = "statement"
    /\ conn[c].up
    /\ IF conn[c].inTx
       THEN /\ conn' = [conn EXCEPT ![c] =
                          Proceed([conn[c] EXCEPT !.pending = Append(@, conn[c].next)], "none")]
            /\ UNCHANGED db
       ELSE /\ conn' = [conn EXCEPT ![c] = Proceed(@, "none")]
            /\ db' = [db EXCEPT ![Task(c)] = Append(@, conn[c].next)]
    /\ status' = StatusAfter(c)
    /\ UNCHANGED <<queue, closed, losses, submitted>>

(* A transaction goes on after a statement that failed. *)
MutantGoesOn(c) ==
    /\ conn[c].pc = "statement"
    /\ \E error \in {"deadlock", "other"} :
          /\ error = "deadlock" => conn[c].up
          /\ conn' = [conn EXCEPT ![c] = Proceed(@, error)]
    /\ status' = StatusAfter(c)
    /\ UNCHANGED <<queue, closed, db, losses, submitted>>

(* The server rejects the statement, or there is no server. In a deadlock it   *)
(* has rolled the whole transaction back already.                              *)
StatementFails(c) ==
    /\ conn[c].pc = "statement"
    /\ \E error \in {"deadlock", "other"} :
          /\ error = "deadlock" => conn[c].up
          /\ LET k == IF error = "deadlock"
                      THEN [conn[c] EXCEPT !.inTx = FALSE, !.pending = <<>>]
                      ELSE conn[c]
             IN  conn' = [conn EXCEPT ![c] =
                            IF Task(c) \in Transaction
                            THEN [k EXCEPT !.pc = "rollback", !.lastError = error]
                            ELSE Proceed(k, error)]
    /\ status' = StatusAfter(c)
    /\ UNCHANGED <<queue, closed, db, losses, submitted>>

(* The transaction is left open. *)
MutantNoRollback(c) ==
    /\ conn[c].pc = "rollback"
    /\ conn' = [conn EXCEPT ![c].pc = "failed"]
    /\ UNCHANGED <<queue, closed, status, db, losses, submitted>>

(* ROLLBACK is a query like any other: it clears the error that led to it. *)
Rollback(c) ==
    /\ conn[c].pc = "rollback"
    /\ conn' = [conn EXCEPT ![c].pc = "failed", ![c].inTx = FALSE, ![c].pending = <<>>,
                            ![c].lastError = ErrorOf(c)]
    /\ UNCHANGED <<queue, closed, status, db, losses, submitted>>

(* The result of COMMIT is not looked at. *)
Commit(c) ==
    /\ conn[c].pc = "commit"
    /\ db' = [db EXCEPT ![Task(c)] = @ \o conn[c].pending]
    /\ conn' = [conn EXCEPT ![c] =
                  Finished([@ EXCEPT !.inTx = FALSE, !.pending = <<>>], ErrorOf(c))]
    /\ status' = [status EXCEPT ![Task(c)] = "done"]
    /\ UNCHANGED <<queue, closed, losses, submitted>>

(* TransactionTask::Execute and DirectCommitTransaction, after a failure. *)
TryAgain(c) ==
    IF conn[c].tries = 0 THEN conn[c].lastError = "deadlock" ELSE conn[c].tries < LoopBreaker

(* The attempts are not counted. *)
MutantForever(c) ==
    /\ conn[c].pc = "failed"
    /\ TryAgain(c)
    /\ conn' = [conn EXCEPT ![c].pc = FirstStep(Task(c))]
    /\ UNCHANGED <<queue, closed, status, db, losses, submitted>>

Retry(c) ==
    /\ conn[c].pc = "failed"
    /\ TryAgain(c)
    /\ conn' = [conn EXCEPT ![c].pc = FirstStep(Task(c)), ![c].tries = @ + 1]
    /\ UNCHANGED <<queue, closed, status, db, losses, submitted>>

GiveUp(c) ==
    /\ conn[c].pc = "failed"
    /\ ~TryAgain(c)
    /\ conn' = [conn EXCEPT ![c] = Finished(@, conn[c].lastError)]
    /\ status' = [status EXCEPT ![Task(c)] = "dropped"]
    /\ UNCHANGED <<queue, closed, db, losses, submitted>>

(* The operation is executed from its first statement again. *)
MutantFromTheTop(c) ==
    /\ conn[c].pc \in {"begin", "statement", "commit", "rollback"}
    /\ conn[c].up
    /\ losses < MaxLosses
    /\ losses' = losses + 1
    /\ \E answerLost, reconnected \in BOOLEAN :
          /\ db' = IF answerLost /\ conn[c].pc = "statement" /\ ~conn[c].inTx
                   THEN [db EXCEPT ![Task(c)] = Append(@, conn[c].next)] ELSE db
          /\ conn' = [conn EXCEPT ![c].up = reconnected, ![c].next = 1,
                                  ![c].inTx = FALSE, ![c].pending = <<>>]
    /\ UNCHANGED <<queue, closed, status, submitted>>

(* _HandleMySQLErrno for a lost connection: the server rolls back; the         *)
(* connection is opened again and the same statement executed again, on a      *)
(* connection that commits each statement by itself, or it stays NULL. The     *)
(* answer of a COMMIT, or of a statement on its own, may be what was lost.     *)
LoseConnection(c) ==
    /\ conn[c].pc \in {"begin", "statement", "commit", "rollback"}
    /\ conn[c].up
    /\ losses < MaxLosses
    /\ losses' = losses + 1
    /\ \E answerLost, reconnected \in BOOLEAN :
          /\ db' = IF ~answerLost THEN db
                   ELSE CASE conn[c].pc = "commit" ->
                               [db EXCEPT ![Task(c)] = @ \o conn[c].pending]
                          [] conn[c].pc = "statement" /\ ~conn[c].inTx ->
                               [db EXCEPT ![Task(c)] = Append(@, conn[c].next)]
                          [] OTHER -> db
          /\ conn' = [conn EXCEPT ![c].up = reconnected,
                                  ![c].inTx = FALSE, ![c].pending = <<>>]
    /\ UNCHANGED <<queue, closed, status, submitted>>

(* After Close every worker that is idle has left svc. *)
Stopped ==
    /\ closed
    /\ \A c \in Conn : conn[c].pc = "idle"
    /\ UNCHANGED vars

-----------------------------------------------------------------------------
Work(c) ==
    \/ Begin(c) \/ StatementExecuted(c) \/ StatementFails(c)
    \/ Rollback(c) \/ Commit(c) \/ Retry(c) \/ GiveUp(c)

Next ==
    \/ \E o \in Op : Enqueue(o)
    \/ \E c \in Conn : \/ Dequeue(c)
                       \/ \E o \in Op : ExecuteDirectly(c, o)
                       \/ Work(c)
                       \/ LoseConnection(c)
    \/ Close
    \/ Stopped

Spec == Init /\ [][Next]_vars

(* The worker threads run; a statement is answered in the end. *)
FairSpec == Spec /\ \A c \in Conn : WF_vars(Work(c)) /\ WF_vars(Dequeue(c))

-----------------------------------------------------------------------------
ConnState ==
    [task : Op \union {NoOp},
     pc : {"idle", "begin", "statement", "commit", "rollback", "failed"},
     next : Nat, tries : 0..LoopBreaker, lastError : {"none", "deadlock", "other"},
     up : BOOLEAN, inTx : BOOLEAN, pending : Seq(Nat)]

(* Every variable has its type. *)
TypeOK ==
    /\ queue \in Seq(Op)
    /\ closed \in BOOLEAN
    /\ status \in [Op -> {"new", "queued", "running", "done", "dropped", "discarded"}]
    /\ conn \in [Conn -> ConnState]
    /\ db \in [Op -> Seq(Nat)]
    /\ losses \in 0..MaxLosses
    /\ submitted \in Seq(Op)

(* A connection is handed back without a transaction left open on the server,  *)
(* whatever failed on it: the next operation on it, which might be statements  *)
(* that nothing commits, does not run inside the remains of this one.          *)
NoOpenTransaction ==
    \A c \in Conn : conn[c].task \notin Transaction => ~conn[c].inTx /\ conn[c].pending = <<>>

(* DatabaseWorkerPool.h: "the order in which these operations were appended to *)
(* the transaction will be respected during execution", through lost           *)
(* connections and retries too, and likewise for the queries of a holder.      *)
OrderKept ==
    /\ TypeOK
    /\ \A o \in Op : \A j, k \in DOMAIN db[o] : j < k => db[o][j] <= db[o][k]

Ended(o) == status[o] \in {"done", "dropped", "discarded"}

(* With one worker thread the operations take effect in the order they were    *)
(* enqueued: what a login reads includes every save enqueued before it.        *)
AsyncInOrder ==
    \A j, k \in DOMAIN submitted :
        j < k /\ db[submitted[k]] # <<>> => Ended(submitted[j])

(* An operation that has entered the queue comes to an end, in spite of        *)
(* failures, lost connections and retries.                                     *)
EveryOperationEnds == \A o \in Op : status[o] = "queued" ~> Ended(o)

AllOf(o) == [k \in 1..Statements[o] |-> k]

(* What became of a transaction as a whole. *)
Outcome(t) ==
    CASE status[t] = "new" -> "new"
      [] status[t] # "new" /\ db[t] = <<>> /\ ~Ended(t)         -> "waiting"
      [] status[t] # "new" /\ db[t] = <<>> /\ Ended(t)          -> "dropped"
      [] status[t] # "new" /\ db[t] # <<>> /\ db[t] = AllOf(t)  -> "applied"
      [] OTHER -> "partial"

outcomes == [t \in Transaction |-> Outcome(t)]

Atomic == INSTANCE AtomicCommit WITH outcome <- outcomes

(* Up to the first connection lost, the pool carries out transactions as       *)
(* AtomicCommit.tla promises: wholly and once, or not at all, although the     *)
(* statements of many are under way at the same time.                          *)
ImplementsAtomicCommit ==
    Atomic!AtomicInit /\ [][losses' = 0 => [Atomic!AtomicNext]_outcomes]_vars
=============================================================================
