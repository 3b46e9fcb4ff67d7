------------------------ MODULE SqlWorkerPool_proofs ------------------------
(* Theorems about SqlWorkerPool.tla, for any operations, connections, queue    *)
(* capacity and number of lost connections.                                    *)
EXTENDS SqlWorkerPool, SequenceTheorems, TLAPS

Sorted(s) == \A i, j \in DOMAIN s : i < j => s[i] <= s[j]

(* A connection by itself: what its place in the code says of its operation    *)
(* and of the transaction open on the server. Only an empty transaction is     *)
(* tried again, since ROLLBACK clears the error TryAgain looks at.             *)
Placed(k) ==
    /\ k.pc = "idle" <=> k.task = NoOp
    /\ k.task \notin Transaction => k.pc \in {"idle", "statement"} /\ ~k.inTx
    /\ k.pc \in {"idle", "begin", "failed"} => ~k.inTx
    /\ ~k.inTx => k.pending = <<>>
    /\ k.pc = "begin" => k.next = 1
    /\ k.pc = "statement" => k.next \in 1..Statements[k.task]
    /\ k.task \in Transaction /\ Statements[k.task] = 0 => k.pc = "failed"
    /\ k.task \in Transaction /\ Statements[k.task] # 0 =>
          k.tries = 0 /\ (k.pc = "failed" => k.lastError # "deadlock")

(* A connection and what has taken effect of its operation: nothing is beyond  *)
(* the statement it executes, and nothing was there before a transaction.      *)
InStep(k, done) ==
    /\ k.pc = "begin" \/ k.inTx => done = <<>>
    /\ \A i \in DOMAIN k.pending : k.pending[i] <= k.next
    /\ Sorted(k.pending)
    /\ \A i \in DOMAIN done : done[i] <= k.next

(* A transaction as long as no connection was lost: the server holds the       *)
(* statements before the one to execute, and none of them took effect.         *)
Intact(k, done) ==
    /\ k.up
    /\ k.task \in Transaction =>
          /\ done = <<>>
          /\ k.pc = "statement" =>
                k.inTx /\ Len(k.pending) = k.next - 1
          /\ k.pc = "commit" =>
                k.inTx /\ Len(k.pending) = Statements[k.task]
          /\ k.pc \in {"statement", "commit"} => \A i \in DOMAIN k.pending : k.pending[i] = i

(* An operation is carried out by one connection, of those it is for. *)
Assigned ==
    /\ \A c \in Conn : conn[c].task # NoOp =>
          status[conn[c].task] = "running" /\ (conn[c].task \in Direct <=> c \in Synch)
    /\ \A c, d \in Conn : conn[c].task = conn[d].task /\ conn[c].task # NoOp => c = d
    /\ \A o \in Op : status[o] = "running" => \E c \in Conn : conn[c].task = o

(* The queue is the end of what was submitted. *)
Taken == Len(submitted) - Len(queue)

InQueue ==
    /\ Taken >= 0
    /\ \A i \in DOMAIN queue : queue[i] = submitted[Taken + i] /\ status[queue[i]] = "queued"
    /\ \A j \in DOMAIN submitted :
          /\ submitted[j] \notin Direct
          /\ status[submitted[j]] # "new"
          /\ j <= Taken => status[submitted[j]] # "queued"
    /\ \A j, k \in DOMAIN submitted : submitted[j] = submitted[k] => j = k

Effects ==
    \A o \in Op : /\ Sorted(db[o])
                  /\ status[o] \in {"new", "queued", "discarded"} => db[o] = <<>>

Wholes ==
    losses = 0 =>
        /\ \A c \in Conn : conn[c].up
        /\ \A c \in Conn : conn[c].task \in Transaction => Intact(conn[c], db[conn[c].task])
        /\ \A t \in Transaction : db[t] # <<>> => db[t] = AllOf(t) /\ status[t] = "done"

IInv ==
    /\ TypeOK
    /\ \A c \in Conn : Placed(conn[c])
    /\ \A c \in Conn : conn[c].task # NoOp => InStep(conn[c], db[conn[c].task])
    /\ Assigned
    /\ InQueue
    /\ Effects
    /\ Wholes

(* With one worker thread: what has left the queue has ended before the next   *)
(* one is taken.                                                               *)
OneByOne ==
    \A j, k \in DOMAIN submitted :
        j < k /\ status[submitted[k]] \in {"running", "done", "dropped"} => Ended(submitted[j])

-----------------------------------------------------------------------------
(* A connection of the pool has the type of one. *)
LEMMA ConnTyped ==
    ASSUME TypeOK, NEW c \in Conn
    PROVE  /\ conn[c] \in ConnState
           /\ conn[c].task \in Op \union {NoOp}
           /\ conn[c].next \in Nat /\ conn[c].tries \in 0..LoopBreaker
           /\ conn[c].pending \in Seq(Nat)
           /\ conn[c].up \in BOOLEAN /\ conn[c].inTx \in BOOLEAN
           /\ conn[c].lastError \in {"none", "deadlock", "other"}
<1>1. conn[c] \in ConnState
    BY DEF TypeOK
<1> QED
    BY <1>1 DEF ConnState

(* At the beginning every connection is idle and nothing was done. *)
LEMMA InitInv == Init => IInv /\ OneByOne
<1> SUFFICES ASSUME Init PROVE IInv /\ OneByOne
    OBVIOUS
<1>0. <<>> \in Seq(Nat) /\ <<>> \in Seq(Op) /\ Len(<<>>) = 0 /\ DOMAIN <<>> = {}
    BY EmptySeq
<1>1. IdleConn \in ConnState
    BY <1>0 DEF IdleConn, ConnState, LoopBreaker
<1>2. TypeOK
    <2>1. conn \in [Conn -> ConnState]
        BY <1>1 DEF Init
    <2>2. db \in [Op -> Seq(Nat)] /\ queue \in Seq(Op) /\ submitted \in Seq(Op)
        BY <1>0 DEF Init
    <2>3. status \in [Op -> {"new", "queued", "running", "done", "dropped", "discarded"}]
        BY DEF Init
    <2>4. losses \in 0..MaxLosses
        BY PoolAssumption DEF Init
    <2>5. closed \in BOOLEAN
        BY DEF Init
    <2> QED
        BY <2>1, <2>2, <2>3, <2>4, <2>5 DEF TypeOK
<1>3. Placed(IdleConn) /\ IdleConn.task = NoOp /\ IdleConn.up /\ NoOp \notin Transaction
    BY OpAssumption DEF Placed, IdleConn
<1>4. \A c \in Conn : conn[c] = IdleConn
    BY DEF Init
<1>5. Assigned
    BY <1>3, <1>4 DEF Assigned, Init
<1>6. InQueue
    BY <1>0 DEF InQueue, Taken, Init
<1>7. Effects
    BY <1>0 DEF Effects, Sorted, Init
<1>8. Wholes
    BY <1>3, <1>4, OpAssumption DEF Wholes, Init
<1>9. IInv
    BY <1>2, <1>3, <1>4, <1>5, <1>6, <1>7, <1>8 DEF IInv
<1>10. OneByOne
    BY <1>0 DEF OneByOne, Init
<1> QED
    BY <1>9, <1>10

-----------------------------------------------------------------------------
(* A connection makes a step in its operation: it becomes k, done is then what *)
(* took effect of the operation, and the operation is running or at an end.    *)
Ends == {"running", "done", "dropped"}

Makes(c, o, k, done, end) ==
    /\ UNCHANGED <<queue, closed, submitted>>
    /\ losses' \in losses..MaxLosses
    /\ conn' = [conn EXCEPT ![c] = k]
    /\ db' = [db EXCEPT ![o] = done]
    /\ status' = [status EXCEPT ![o] = end]
    /\ k.task = IF end = "running" THEN o ELSE NoOp
    /\ Placed(k)
    /\ Sorted(done)
    /\ k.task # NoOp => InStep(k, done)
    /\ losses' = 0 =>
          /\ k.up
          /\ k.task \in Transaction => Intact(k, done)
          /\ o \in Transaction /\ done # <<>> => done = AllOf(o) /\ end = "done"

(* What every step of a connection preserves. *)
LEMMA StepInv ==
    ASSUME IInv, NEW c \in Conn, NEW o \in Op, o = conn[c].task,
           NEW k \in ConnState, NEW s \in Seq(Nat), NEW end \in Ends,
           Makes(c, o, k, s, end)
    PROVE  IInv'
<1> USE DEF IInv, Makes, Ends
<1>0. o # NoOp /\ NoOp \notin Op /\ Transaction \subseteq Op /\ losses \in Nat /\ losses' \in 0..MaxLosses
    BY OpAssumption, PoolAssumption DEF TypeOK
<1>1. conn'[c] = k /\ \A d \in Conn \ {c} : conn'[d] = conn[d]
    BY DEF TypeOK
<1>2. db'[o] = s /\ \A p \in Op \ {o} : db'[p] = db[p]
    BY DEF TypeOK
<1>3. status'[o] = end /\ \A p \in Op \ {o} : status'[p] = status[p]
    BY DEF TypeOK
<1>4. status[o] = "running"
    BY <1>0 DEF Assigned
<1>5. \A d \in Conn \ {c} : conn[d].task # o
    BY <1>0 DEF Assigned
<1>6. \A d \in Conn : conn[d].task \in Op \union {NoOp}
    BY ConnTyped
<1>7. TypeOK'
    BY <1>0 DEF TypeOK
<1>8. \A d \in Conn : Placed(conn'[d])
    BY <1>1
<1>9. \A d \in Conn : conn'[d].task # NoOp => InStep(conn'[d], db'[conn'[d].task])
    BY <1>0, <1>1, <1>2, <1>5, <1>6
<1>10. Assigned'
    <2>1. ASSUME NEW d \in Conn, conn'[d].task # NoOp
          PROVE  status'[conn'[d].task] = "running" /\ (conn'[d].task \in Direct <=> d \in Synch)
        BY <2>1, <1>0, <1>1, <1>3, <1>5, <1>6 DEF Assigned
    <2>2. ASSUME NEW d \in Conn, NEW e \in Conn,
                 conn'[d].task = conn'[e].task, conn'[d].task # NoOp
          PROVE  d = e
        BY <2>2, <1>0, <1>1, <1>5 DEF Assigned
    <2>3. ASSUME NEW p \in Op, status'[p] = "running" PROVE \E d \in Conn : conn'[d].task = p
        BY <2>3, <1>0, <1>1, <1>3 DEF Assigned
    <2> QED
        BY <2>1, <2>2, <2>3 DEF Assigned
<1>11. InQueue'
    <2>1. \A i \in DOMAIN queue : queue[i] # o
        BY <1>4 DEF InQueue
    <2>2. \A i \in DOMAIN queue : queue[i] \in Op
        BY DEF TypeOK
    <2>3. \A j \in DOMAIN submitted : submitted[j] \in Op
        BY DEF TypeOK
    <2>4. Taken' = Taken
        BY DEF Taken
    <2> QED
        BY <2>1, <2>2, <2>3, <2>4, <1>3 DEF InQueue
<1>12. Effects'
    BY <1>2, <1>3 DEF Effects
<1>13. Wholes'
    <2> SUFFICES ASSUME losses' = 0
                 PROVE  /\ \A d \in Conn : conn'[d].up
                        /\ \A d \in Conn : conn'[d].task \in Transaction =>
                              Intact(conn'[d], db'[conn'[d].task])
                        /\ \A t \in Transaction : db'[t] # <<>> =>
                              db'[t] = AllOf(t) /\ status'[t] = "done"
        BY DEF Wholes, AllOf, Intact
    <2>1. losses = 0
        BY <1>0
    <2>2. \A d \in Conn : conn'[d].up
        BY <2>1, <1>1 DEF Wholes
    <2>3. \A d \in Conn : conn'[d].task \in Transaction => Intact(conn'[d], db'[conn'[d].task])
        BY <2>1, <1>0, <1>1, <1>2, <1>5 DEF Wholes
    <2> QED
        BY <2>1, <2>2, <2>3, <1>0, <1>2, <1>3 DEF Wholes
<1> QED
    BY <1>7, <1>8, <1>9, <1>10, <1>11, <1>12, <1>13 DEF Placed, InStep, Sorted

-----------------------------------------------------------------------------
(* The steps of a connection at work. *)
Step(c) ==
    \E k \in ConnState, done \in Seq(Nat), end \in Ends : Makes(c, conn[c].task, k, done, end)

Error == {"none", "deadlock", "other"}

(* What is known of a connection that is not idle. *)
LEMMA AtWork ==
    ASSUME IInv, NEW c \in Conn, conn[c].pc # "idle"
    PROVE  /\ Task(c) \in Op /\ Task(c) # NoOp /\ status[Task(c)] = "running"
           /\ Statements[Task(c)] \in Nat
           /\ Placed(conn[c]) /\ InStep(conn[c], db[Task(c)])
           /\ db[Task(c)] \in Seq(Nat) /\ Sorted(db[Task(c)])
           /\ losses = 0 => /\ conn[c].up
                            /\ Task(c) \in Transaction => Intact(conn[c], db[Task(c)])
           /\ db = [db EXCEPT ![Task(c)] = db[Task(c)]]
           /\ status = [status EXCEPT ![Task(c)] = "running"]
           /\ losses \in losses..MaxLosses
           /\ ErrorOf(c) \in {"none", "other"}
<1>0. conn[c] \in ConnState /\ conn[c].task \in Op \union {NoOp} /\ Placed(conn[c])
    BY ConnTyped DEF IInv
<1>1. Task(c) \in Op /\ Task(c) # NoOp
    BY <1>0, OpAssumption DEF Task, Placed
<1>2. status[Task(c)] = "running"
    BY <1>1 DEF IInv, Assigned, Task
<1>3. Statements[Task(c)] \in Nat
    BY <1>1, OpAssumption
<1>4. InStep(conn[c], db[Task(c)])
    BY <1>1 DEF IInv, Task
<1>5. db[Task(c)] \in Seq(Nat) /\ Sorted(db[Task(c)]) /\ db = [db EXCEPT ![Task(c)] = db[Task(c)]]
    BY <1>1 DEF IInv, TypeOK, Effects
<1>6. status = [status EXCEPT ![Task(c)] = "running"]
    BY <1>2 DEF IInv, TypeOK
<1>7. losses = 0 => conn[c].up /\ (Task(c) \in Transaction => Intact(conn[c], db[Task(c)]))
    BY DEF IInv, Wholes, Task
<1>8. losses \in losses..MaxLosses
    BY PoolAssumption DEF IInv, TypeOK
<1>9. ErrorOf(c) \in {"none", "other"}
    BY DEF ErrorOf
<1> QED
    BY <1>0, <1>1, <1>2, <1>3, <1>4, <1>5, <1>6, <1>7, <1>8, <1>9

(* BEGIN. *)
LEMMA BeginStep == ASSUME IInv, NEW c \in Conn, Begin(c) PROVE Step(c)
<1> DEFINE k == [conn[c] EXCEPT !.pc = "statement", !.next = 1, !.inTx = conn[c].up,
                                !.lastError = ErrorOf(c)]
<1>0. conn[c].pc = "begin"
    BY DEF Begin
<1>1. conn' = [conn EXCEPT ![c] = k]
    BY DEF Begin, IInv, TypeOK
<1>2. conn[c] \in ConnState /\ conn[c].up \in BOOLEAN
    BY ConnTyped DEF IInv
<1>3. k \in ConnState
    BY <1>0, <1>2, AtWork DEF ConnState
<1>4. /\ k.pc = "statement" /\ k.next = 1 /\ k.inTx = conn[c].up /\ k.task = Task(c)
      /\ k.pending = conn[c].pending /\ k.tries = conn[c].tries /\ k.up = conn[c].up
    BY <1>2 DEF ConnState, Task
<1>5. Task(c) \in Transaction /\ Statements[Task(c)] # 0 /\ k.pending = <<>> /\ db[Task(c)] = <<>>
    BY <1>0, <1>4, AtWork DEF Placed, InStep, Task
<1>6. Placed(k)
    BY <1>0, <1>4, <1>5, AtWork DEF Placed, Task
<1>7. InStep(k, db[Task(c)])
    BY <1>4, <1>5, EmptySeq DEF InStep, Sorted
<1>8. losses = 0 => k.up /\ Intact(k, db[Task(c)])
    BY <1>0, <1>4, <1>5, AtWork, EmptySeq DEF Intact
<1>9. Makes(c, Task(c), k, db[Task(c)], "running")
    BY <1>0, <1>1, <1>4, <1>5, <1>6, <1>7, <1>8, AtWork DEF Makes, Begin
<1> QED
    BY <1>0, <1>3, <1>9, AtWork DEF Step, Ends, Task

(* A statement that is not before the others keeps their order. *)
LEMMA AppendSorted ==
    ASSUME NEW s \in Seq(Nat), NEW n \in Nat, Sorted(s), \A i \in DOMAIN s : s[i] <= n
    PROVE  /\ Append(s, n) \in Seq(Nat) /\ Append(s, n) # <<>>
           /\ Sorted(Append(s, n))
           /\ \A i \in DOMAIN Append(s, n) : Append(s, n)[i] <= n
<1>1. DOMAIN s = 1..Len(s) /\ Len(s) \in Nat /\ \A i \in DOMAIN s : s[i] \in Nat
    BY LenProperties, ElementOfSeq
<1>2. /\ Append(s, n) \in Seq(Nat) /\ Append(s, n) # <<>>
      /\ DOMAIN Append(s, n) = 1..(Len(s) + 1)
      /\ \A i \in 1..Len(s) : Append(s, n)[i] = s[i]
      /\ Append(s, n)[Len(s) + 1] = n
    BY AppendProperties, LenProperties
<1>3. \A i \in DOMAIN Append(s, n) : Append(s, n)[i] <= n
    BY <1>1, <1>2
<1>4. Sorted(Append(s, n))
    BY <1>1, <1>2 DEF Sorted
<1> QED
    BY <1>2, <1>3, <1>4

(* After a statement: the next one, COMMIT, or the end of the operation.       *)
LEMMA ProceedFields ==
    ASSUME NEW k \in ConnState, NEW e \in Error, k.pc = "statement",
           k.task \in Op, k.next \in 1..Statements[k.task]
    PROVE  LET r == Proceed(k, e)
               more == k.next < Statements[k.task]
           IN  /\ r \in ConnState
               /\ r.up = k.up /\ r.inTx = k.inTx /\ r.pending = k.pending /\ r.tries = k.tries
               /\ r.next = IF more THEN k.next + 1 ELSE k.next
               /\ r.pc = IF more THEN "statement"
                         ELSE IF k.task \in Transaction THEN "commit" ELSE "idle"
               /\ r.task = IF more \/ k.task \in Transaction THEN k.task ELSE NoOp
<1>1. k.next \in Nat /\ Statements[k.task] \in Nat
    BY OpAssumption DEF ConnState
<1>2. CASE k.next < Statements[k.task]
    <2>1. Proceed(k, e) = [k EXCEPT !.next = k.next + 1, !.lastError = e]
        BY <1>2 DEF Proceed
    <2>2. k.next + 1 \in Nat
        BY <1>1
    <2>3. Proceed(k, e) \in ConnState
        BY <2>1, <2>2 DEF ConnState, Error
    <2>4. /\ Proceed(k, e).next = k.next + 1 /\ Proceed(k, e).pc = k.pc
          /\ Proceed(k, e).task = k.task /\ Proceed(k, e).up = k.up
          /\ Proceed(k, e).inTx = k.inTx /\ Proceed(k, e).pending = k.pending
          /\ Proceed(k, e).tries = k.tries
        BY <2>1 DEF ConnState
    <2> QED
        BY <1>2, <2>3, <2>4
<1>3. CASE ~(k.next < Statements[k.task]) /\ k.task \in Transaction
    <2>1. Proceed(k, e) = [k EXCEPT !.pc = "commit", !.lastError = e]
        BY <1>3 DEF Proceed
    <2> QED
        BY <1>1, <1>3, <2>1 DEF ConnState, Error
<1>4. CASE ~(k.next < Statements[k.task]) /\ k.task \notin Transaction
    <2>1. Proceed(k, e) = [k EXCEPT !.task = NoOp, !.pc = "idle", !.lastError = e]
        BY <1>4 DEF Proceed, Finished
    <2> QED
        BY <1>1, <1>4, <2>1 DEF ConnState, Error
<1> QED
    BY <1>2, <1>3, <1>4

(* The state of the operation after its statement. *)
LEMMA StatusStep ==
    ASSUME IInv, NEW c \in Conn, conn[c].pc = "statement"
    PROVE  StatusAfter(c) = [status EXCEPT ![Task(c)] =
                               IF LastOnItsOwn(c) THEN "done" ELSE "running"]
BY AtWork DEF StatusAfter

(* A statement, in a transaction or committed by itself. *)
LEMMA StatementExecutedStep ==
    ASSUME IInv, NEW c \in Conn, StatementExecuted(c) PROVE Step(c)
<1> DEFINE o == Task(c)
           n == conn[c].next
           more == n < Statements[o]
           k0 == IF conn[c].inTx THEN [conn[c] EXCEPT !.pending = Append(@, n)] ELSE conn[c]
           k == Proceed(k0, "none")
           done == IF conn[c].inTx THEN db[o] ELSE Append(db[o], n)
           end == IF LastOnItsOwn(c) THEN "done" ELSE "running"
<1>0. conn[c].pc = "statement" /\ conn[c].up
    BY DEF StatementExecuted
<1>1. /\ o \in Op /\ o # NoOp /\ NoOp \notin Transaction /\ Statements[o] \in Nat
      /\ Placed(conn[c]) /\ InStep(conn[c], db[o])
      /\ db[o] \in Seq(Nat) /\ Sorted(db[o])
      /\ db = [db EXCEPT ![o] = db[o]]
      /\ losses = 0 => (o \in Transaction => Intact(conn[c], db[o]))
      /\ losses \in losses..MaxLosses
    BY <1>0, AtWork, OpAssumption
<1>2. /\ conn[c] \in ConnState /\ n \in Nat /\ conn[c].inTx \in BOOLEAN
      /\ conn[c].pending \in Seq(Nat) /\ conn[c].task = o
    BY ConnTyped DEF IInv, Task
<1>3. n \in 1..Statements[o] /\ (o \notin Transaction => ~conn[c].inTx)
    BY <1>0, <1>1, <1>2 DEF Placed
<1>4. /\ Append(conn[c].pending, n) \in Seq(Nat) /\ Sorted(Append(conn[c].pending, n))
      /\ \A i \in DOMAIN Append(conn[c].pending, n) : Append(conn[c].pending, n)[i] <= n
    BY <1>1, <1>2, AppendSorted DEF InStep
<1>5. /\ Append(db[o], n) \in Seq(Nat) /\ Sorted(Append(db[o], n))
      /\ \A i \in DOMAIN Append(db[o], n) : Append(db[o], n)[i] <= n
    BY <1>1, <1>2, AppendSorted DEF InStep
<1>6. /\ k0 \in ConnState /\ k0.pc = "statement" /\ k0.task = o /\ k0.next = n
      /\ k0.up = conn[c].up /\ k0.inTx = conn[c].inTx /\ k0.tries = conn[c].tries
      /\ k0.pending = IF conn[c].inTx THEN Append(conn[c].pending, n) ELSE conn[c].pending
    BY <1>0, <1>2, <1>4 DEF ConnState
<1>7. /\ k \in ConnState /\ k.up = conn[c].up /\ k.inTx = conn[c].inTx
      /\ k.pending = k0.pending /\ k.tries = conn[c].tries
      /\ k.next = IF more THEN n + 1 ELSE n
      /\ k.pc = IF more THEN "statement" ELSE IF o \in Transaction THEN "commit" ELSE "idle"
      /\ k.task = IF more \/ o \in Transaction THEN o ELSE NoOp
    <2>1. "none" \in Error
        BY DEF Error
    <2> HIDE DEF k0, o
    <2> QED
        BY <1>1, <1>3, <1>6, <2>1, ProceedFields
<1>8. conn' = [conn EXCEPT ![c] = k]
    <2>1. CASE conn[c].inTx
        <3>1. k0 = [conn[c] EXCEPT !.pending = Append(@, conn[c].next)]
            BY <2>1
        <3>2. conn' = [conn EXCEPT ![c] =
                         Proceed([conn[c] EXCEPT !.pending = Append(@, conn[c].next)], "none")]
            BY <2>1 DEF StatementExecuted
        <3> HIDE DEF k0
        <3> QED
            BY <3>1, <3>2
    <2>2. CASE ~conn[c].inTx
        <3>1. k0 = conn[c]
            BY <2>2
        <3>2. conn' = [conn EXCEPT ![c] = Proceed(conn[c], "none")]
            BY <2>2 DEF StatementExecuted
        <3> HIDE DEF k0
        <3> QED
            BY <3>1, <3>2
    <2> QED
        BY <2>1, <2>2
<1>9. db' = [db EXCEPT ![o] = done]
    BY <1>1 DEF StatementExecuted
<1>10. LastOnItsOwn(c) <=> k.task = NoOp
    BY <1>1, <1>2, <1>3, <1>7 DEF LastOnItsOwn
<1>11. status' = [status EXCEPT ![o] = end]
    BY <1>0, StatusStep DEF StatementExecuted
<1>12. done \in Seq(Nat) /\ Sorted(done)
    BY <1>1, <1>5
<1> HIDE DEF k, k0
<1>13. Placed(k)
    BY <1>1, <1>2, <1>3, <1>6, <1>7, <1>0 DEF Placed
<1>14. InStep(k, done)
    <2>1. \A i \in DOMAIN k.pending : k.pending[i] <= n /\ k.pending[i] \in Nat
        <3>1. k.pending \in Seq(Nat)
            BY <1>7 DEF ConnState
        <3>2. \A i \in DOMAIN k.pending : k.pending[i] \in Nat
            BY <3>1, ElementOfSeq, LenProperties
        <3> QED
            BY <3>2, <1>1, <1>4, <1>6, <1>7 DEF InStep
    <2>2. \A i \in DOMAIN done : done[i] <= n /\ done[i] \in Nat
        BY <1>1, <1>2, <1>5, <1>12, ElementOfSeq, LenProperties DEF InStep
    <2>3. Sorted(k.pending)
        BY <1>1, <1>4, <1>6, <1>7 DEF InStep
    <2>4. k.pc = "begin" \/ k.inTx => done = <<>>
        BY <1>1, <1>7 DEF InStep
    <2> QED
        BY <2>1, <2>2, <2>3, <2>4, <1>2, <1>7 DEF InStep
<1>15. ASSUME losses = 0, o \in Transaction PROVE k.task = o /\ done = <<>> /\ Intact(k, done)
    <2>1. conn[c].inTx /\ Len(conn[c].pending) = n - 1 /\ db[o] = <<>>
          /\ \A i \in DOMAIN conn[c].pending : conn[c].pending[i] = i
        BY <1>15, <1>0, <1>1, <1>2 DEF Intact
    <2>2. /\ Len(k.pending) = n
          /\ \A i \in DOMAIN k.pending : k.pending[i] = i
        <3>1. k.pending = Append(conn[c].pending, n)
            BY <2>1, <1>6, <1>7
        <3>2. /\ Len(k.pending) = n /\ k.pending \in Seq(Nat) /\ k.pending[n] = n
              /\ \A i \in 1..(n - 1) : k.pending[i] = conn[c].pending[i]
            BY <2>1, <3>1, <1>2, AppendProperties
        <3>3. DOMAIN k.pending = 1..n /\ DOMAIN conn[c].pending = 1..(n - 1)
            BY <3>2, <2>1, <1>2, LenProperties
        <3>4. \A i \in 1..n : i = n \/ i \in 1..(n - 1)
            BY <1>2
        <3> QED
            BY <2>1, <3>2, <3>3, <3>4
    <2> QED
        BY <2>1, <2>2, <1>0, <1>1, <1>3, <1>7, <1>15 DEF Intact
<1>16. Makes(c, o, k, done, end)
    BY <1>0, <1>1, <1>7, <1>8, <1>9, <1>10, <1>11, <1>12, <1>13, <1>14, <1>15, StatusStep
    DEF Makes, StatementExecuted
<1> QED
    BY <1>7, <1>12, <1>16 DEF Step, Ends, Task

(* A statement that fails: a transaction is rolled back, the others go on.     *)
LEMMA StatementFailsStep ==
    ASSUME IInv, NEW c \in Conn, StatementFails(c) PROVE Step(c)
<1> DEFINE o == Task(c)
           end == IF LastOnItsOwn(c) THEN "done" ELSE "running"
           k0(e) == IF e = "deadlock" THEN [conn[c] EXCEPT !.inTx = FALSE, !.pending = <<>>]
                                      ELSE conn[c]
           k(e) == IF o \in Transaction THEN [k0(e) EXCEPT !.pc = "rollback", !.lastError = e]
                                        ELSE Proceed(k0(e), e)
<1>0. conn[c].pc = "statement"
    BY DEF StatementFails
<1>1. /\ o \in Op /\ o # NoOp /\ NoOp \notin Transaction /\ Statements[o] \in Nat
      /\ Placed(conn[c]) /\ InStep(conn[c], db[o])
      /\ db[o] \in Seq(Nat) /\ Sorted(db[o])
      /\ db = [db EXCEPT ![o] = db[o]]
      /\ losses = 0 => conn[c].up /\ (o \in Transaction => Intact(conn[c], db[o]))
      /\ losses \in losses..MaxLosses
    BY <1>0, AtWork, OpAssumption
<1>2. /\ conn[c] \in ConnState /\ conn[c].next \in Nat /\ conn[c].inTx \in BOOLEAN
      /\ conn[c].pending \in Seq(Nat) /\ conn[c].task = o
    BY ConnTyped DEF IInv, Task
<1>3. conn[c].next \in 1..Statements[o]
    BY <1>0, <1>1, <1>2 DEF Placed
<1>4. /\ status' = [status EXCEPT ![o] = end] /\ db' = db
      /\ UNCHANGED <<queue, closed, losses, submitted>>
    BY <1>0, StatusStep DEF StatementFails
<1>5. PICK e \in {"deadlock", "other"} : conn' = [conn EXCEPT ![c] = k(e)]
    BY DEF StatementFails
<1>6. /\ k0(e) \in ConnState /\ k0(e).pc = "statement" /\ k0(e).task = o
      /\ k0(e).next = conn[c].next /\ k0(e).up = conn[c].up /\ k0(e).tries = conn[c].tries
      /\ \/ k0(e).inTx = conn[c].inTx /\ k0(e).pending = conn[c].pending
         \/ ~k0(e).inTx /\ k0(e).pending = <<>>
    <2>1. <<>> \in Seq(Nat)
        BY EmptySeq
    <2>2. CASE e = "deadlock"
        <3>1. k0(e) = [conn[c] EXCEPT !.inTx = FALSE, !.pending = <<>>]
            BY <2>2
        <3>2. k0(e) \in ConnState
            BY <1>2, <2>1, <3>1 DEF ConnState
        <3>3. /\ k0(e).pc = conn[c].pc /\ k0(e).task = conn[c].task /\ k0(e).next = conn[c].next
              /\ k0(e).up = conn[c].up /\ k0(e).tries = conn[c].tries
              /\ ~k0(e).inTx /\ k0(e).pending = <<>>
            BY <1>2, <3>1 DEF ConnState
        <3> QED
            BY <1>0, <1>2, <3>2, <3>3
    <2>3. CASE e # "deadlock"
        <3>1. k0(e) = conn[c]
            BY <2>3
        <3> HIDE DEF k0
        <3> QED
            BY <1>0, <1>2, <3>1
    <2> QED
        BY <2>2, <2>3
<1> HIDE DEF k0
<1>7. k0(e).inTx => conn[c].inTx
    BY <1>6
<1>8. InStep(k0(e), db[o]) /\ (~k0(e).inTx => k0(e).pending = <<>>)
    BY <1>0, <1>1, <1>6, EmptySeq DEF InStep, Sorted, Placed
<1>9. CASE o \in Transaction
    <2>1. /\ k(e) \in ConnState /\ k(e).pc = "rollback" /\ k(e).task = o /\ k(e).tries = conn[c].tries
          /\ k(e).up = conn[c].up /\ k(e).inTx = k0(e).inTx /\ k(e).pending = k0(e).pending
          /\ k(e).next = conn[c].next
        BY <1>6, <1>9 DEF ConnState
    <2>2. end = "running"
        BY <1>9 DEF LastOnItsOwn
    <2> HIDE DEF k, end
    <2>3. Placed(k(e))
        BY <2>1, <1>0, <1>1, <1>2, <1>8, <1>9 DEF Placed
    <2>4. InStep(k(e), db[o])
        BY <2>1, <1>0, <1>6, <1>8 DEF InStep
    <2>5. losses' = 0 => k(e).up /\ Intact(k(e), db[o]) /\ db[o] = <<>>
        BY <2>1, <1>1, <1>2, <1>4, <1>9 DEF Intact
    <2>6. Makes(c, o, k(e), db[o], "running")
        BY <2>1, <2>2, <2>3, <2>4, <2>5, <1>1, <1>4, <1>5 DEF Makes
    <2> QED
        BY <2>1, <2>6, <1>1 DEF Step, Ends, Task
<1>10. CASE o \notin Transaction
    <2> DEFINE more == conn[c].next < Statements[o]
    <2>1. k(e) = Proceed(k0(e), e) /\ e \in Error
        BY <1>10 DEF Error
    <2>2. /\ k(e) \in ConnState /\ k(e).up = conn[c].up /\ k(e).inTx = k0(e).inTx
          /\ k(e).pending = k0(e).pending
          /\ k(e).next = IF more THEN conn[c].next + 1 ELSE conn[c].next
          /\ k(e).pc = IF more THEN "statement" ELSE "idle"
          /\ k(e).task = IF more THEN o ELSE NoOp
        <3> HIDE DEF k, o
        <3> QED
            BY <1>1, <1>3, <1>6, <1>10, <2>1, ProceedFields
    <2>3. end = IF more THEN "running" ELSE "done"
        BY <1>1, <1>2, <1>3, <1>10 DEF LastOnItsOwn
    <2> HIDE DEF k, end
    <2>4. ~k(e).inTx /\ k(e).pending = <<>>
        BY <1>1, <1>2, <1>8, <1>7, <1>10, <2>2 DEF Placed
    <2>5. Placed(k(e))
        BY <2>2, <2>4, <1>1, <1>2, <1>3, <1>10 DEF Placed
    <2>6. InStep(k(e), db[o])
        <3>1. \A i \in DOMAIN db[o] : db[o][i] \in Nat /\ db[o][i] <= conn[c].next
            BY <1>1, ElementOfSeq, LenProperties DEF InStep
        <3> QED
            BY <2>2, <2>4, <3>1, <1>2, EmptySeq DEF InStep, Sorted
    <2>7. Makes(c, o, k(e), db[o], end)
        BY <2>2, <2>3, <2>5, <2>6, <1>1, <1>4, <1>5, <1>10 DEF Makes
    <2> QED
        BY <2>2, <2>3, <2>7, <1>1 DEF Step, Ends, Task
<1> QED
    BY <1>9, <1>10

(* ROLLBACK: the server has nothing left of the transaction. *)
LEMMA RollbackStep == ASSUME IInv, NEW c \in Conn, Rollback(c) PROVE Step(c)
<1> DEFINE o == Task(c)
           k == [conn[c] EXCEPT !.pc = "failed", !.inTx = FALSE, !.pending = <<>>,
                                !.lastError = ErrorOf(c)]
<1>0. conn[c].pc = "rollback"
    BY DEF Rollback
<1>1. conn' = [conn EXCEPT ![c] = k]
    BY DEF Rollback, IInv, TypeOK
<1>2. conn[c] \in ConnState /\ conn[c].task = o
    BY ConnTyped DEF IInv, Task
<1>3. k \in ConnState
    <2>1. <<>> \in Seq(Nat) /\ ErrorOf(c) \in {"none", "deadlock", "other"}
        BY <1>0, AtWork, EmptySeq
    <2> QED
        BY <1>2, <2>1 DEF ConnState
<1>4. /\ k.pc = "failed" /\ ~k.inTx /\ k.task = o /\ k.pending = <<>> /\ k.next = conn[c].next
      /\ k.tries = conn[c].tries /\ k.up = conn[c].up /\ k.lastError = ErrorOf(c)
    BY <1>2 DEF ConnState
<1> HIDE DEF k
<1>5. Placed(k)
    BY <1>0, <1>2, <1>4, AtWork DEF Placed
<1>6. InStep(k, db[o])
    BY <1>0, <1>4, AtWork, EmptySeq DEF InStep, Sorted
<1>7. losses = 0 => k.up /\ (o \in Transaction => Intact(k, db[o]) /\ db[o] = <<>>)
    BY <1>0, <1>2, <1>4, AtWork DEF Intact
<1>8. Makes(c, o, k, db[o], "running")
    BY <1>0, <1>1, <1>4, <1>5, <1>6, <1>7, AtWork DEF Makes, Rollback
<1> QED
    BY <1>0, <1>3, <1>8, AtWork DEF Step, Ends, Task

(* What is there stays in order when a transaction is committed on top of nothing. *)
LEMMA CommittedSorted ==
    ASSUME NEW s \in Seq(Nat), NEW t \in Seq(Nat), NEW n \in Nat, s = <<>> \/ t = <<>>,
           Sorted(s), Sorted(t), \A i \in DOMAIN s : s[i] <= n, \A i \in DOMAIN t : t[i] <= n
    PROVE  /\ s \o t \in Seq(Nat) /\ Sorted(s \o t) /\ \A i \in DOMAIN (s \o t) : (s \o t)[i] <= n
           /\ s = <<>> => s \o t = t
<1>1. s = <<>> => s \o t = t
    BY ConcatEmptySeq
<1>2. t = <<>> => s \o t = s
    BY ConcatEmptySeq
<1> QED
    BY <1>1, <1>2

(* A transaction carried out from its first statement to its last one. *)
LEMMA AllExecuted ==
    ASSUME NEW o \in Op, NEW s \in Seq(Nat), Len(s) = Statements[o],
           \A i \in DOMAIN s : s[i] = i
    PROVE  s = AllOf(o)
<1>1. s \in [1..Statements[o] -> Nat] /\ DOMAIN s = 1..Statements[o]
    BY LenProperties
<1> QED
    BY <1>1 DEF AllOf

(* COMMIT, the first of the transaction to take effect. *)
LEMMA CommitStep == ASSUME IInv, NEW c \in Conn, Commit(c) PROVE Step(c)
<1> DEFINE o == Task(c)
           k == [conn[c] EXCEPT !.inTx = FALSE, !.pending = <<>>, !.task = NoOp, !.pc = "idle",
                                !.lastError = ErrorOf(c)]
           done == db[o] \o conn[c].pending
<1>0. conn[c].pc = "commit"
    BY DEF Commit
<1>1. conn[c] \in ConnState /\ conn[c].task = o /\ conn[c].pending \in Seq(Nat)
      /\ conn[c].next \in Nat /\ conn[c].inTx \in BOOLEAN
    BY ConnTyped DEF IInv, Task
<1>2. conn' = [conn EXCEPT ![c] = k]
    BY <1>1 DEF Commit, Finished, ConnState
<1>3. k \in ConnState
    <2>1. <<>> \in Seq(Nat) /\ ErrorOf(c) \in {"none", "deadlock", "other"}
        BY <1>0, AtWork, EmptySeq
    <2> QED
        BY <1>1, <2>1 DEF ConnState
<1>4. k.pc = "idle" /\ ~k.inTx /\ k.task = NoOp /\ k.pending = <<>> /\ k.up = conn[c].up
    BY <1>1 DEF ConnState
<1> HIDE DEF k
<1>5. o \in Transaction /\ NoOp \notin Transaction /\ o \in Op
    BY <1>0, <1>1, AtWork, OpAssumption DEF Placed
<1>6. Placed(k)
    BY <1>4, <1>5 DEF Placed
<1>7. done \in Seq(Nat) /\ Sorted(done)
    <2>1. db[o] = <<>> \/ conn[c].pending = <<>>
        BY <1>0, <1>1, AtWork DEF Placed, InStep
    <2> QED
        BY <1>0, <1>1, <2>1, AtWork, CommittedSorted DEF InStep
<1>8. losses = 0 => k.up /\ done = AllOf(o)
    <2> SUFFICES ASSUME losses = 0 PROVE k.up /\ done = AllOf(o)
        OBVIOUS
    <2>1. conn[c].up /\ Intact(conn[c], db[o])
        BY <1>0, <1>5, AtWork
    <2>2. db[o] = <<>> /\ Len(conn[c].pending) = Statements[o]
          /\ \A i \in DOMAIN conn[c].pending : conn[c].pending[i] = i
        BY <2>1, <1>0, <1>1, <1>5 DEF Intact
    <2>3. done = conn[c].pending
        BY <2>2, <1>1, ConcatEmptySeq
    <2> QED
        BY <2>1, <2>2, <2>3, <1>1, <1>4, <1>5, AllExecuted
<1>9. Makes(c, o, k, done, "done")
    BY <1>0, <1>2, <1>4, <1>5, <1>6, <1>7, <1>8, AtWork DEF Makes, Commit
<1> QED
    BY <1>3, <1>7, <1>9 DEF Step, Ends, Task

(* Only an empty transaction is tried again. *)
LEMMA RetryStep == ASSUME IInv, NEW c \in Conn, Retry(c) PROVE Step(c)
<1> DEFINE o == Task(c)
           k == [conn[c] EXCEPT !.pc = FirstStep(o), !.tries = conn[c].tries + 1]
<1>0. conn[c].pc = "failed" /\ TryAgain(c)
    BY DEF Retry
<1>1. conn[c] \in ConnState /\ conn[c].task = o /\ conn[c].tries \in 0..LoopBreaker
    BY ConnTyped DEF IInv, Task
<1>2. conn' = [conn EXCEPT ![c] = k]
    BY <1>1 DEF Retry, IInv, TypeOK
<1>3. o \in Transaction /\ Statements[o] = 0
    BY <1>0, <1>1, AtWork DEF Placed, TryAgain
<1>4. FirstStep(o) = "failed"
    BY <1>3 DEF FirstStep
<1>5. conn[c].tries + 1 \in 0..LoopBreaker
    BY <1>0, <1>1 DEF TryAgain, LoopBreaker
<1>6. k \in ConnState
    BY <1>1, <1>4, <1>5 DEF ConnState
<1>7. /\ k.pc = "failed" /\ k.inTx = conn[c].inTx /\ k.task = o /\ k.pending = conn[c].pending
      /\ k.up = conn[c].up /\ k.next = conn[c].next
    BY <1>1, <1>4 DEF ConnState
<1> HIDE DEF k
<1>8. Placed(k)
    BY <1>0, <1>1, <1>3, <1>7, AtWork DEF Placed
<1>9. InStep(k, db[o])
    BY <1>0, <1>7, AtWork DEF InStep
<1>10. losses = 0 => k.up /\ Intact(k, db[o]) /\ db[o] = <<>>
    BY <1>0, <1>1, <1>3, <1>7, AtWork DEF Intact
<1>11. Makes(c, o, k, db[o], "running")
    BY <1>0, <1>2, <1>7, <1>8, <1>9, <1>10, AtWork DEF Makes, Retry
<1> QED
    BY <1>0, <1>6, <1>11, AtWork DEF Step, Ends, Task

(* A transaction that failed for good is dropped. *)
LEMMA GiveUpStep == ASSUME IInv, NEW c \in Conn, GiveUp(c) PROVE Step(c)
<1> DEFINE o == Task(c)
           k == [conn[c] EXCEPT !.task = NoOp, !.pc = "idle"]
<1>0. conn[c].pc = "failed"
    BY DEF GiveUp
<1>1. conn[c] \in ConnState /\ conn[c].task = o
    BY ConnTyped DEF IInv, Task
<1>2. conn' = [conn EXCEPT ![c] = k]
    <2>1. [conn[c] EXCEPT !.task = NoOp, !.pc = "idle", !.lastError = conn[c].lastError] = k
        BY <1>1 DEF ConnState
    <2> QED
        BY <2>1 DEF GiveUp, Finished
<1>3. k \in ConnState
    BY <1>1 DEF ConnState
<1>4. /\ k.pc = "idle" /\ k.inTx = conn[c].inTx /\ k.task = NoOp /\ k.pending = conn[c].pending
      /\ k.up = conn[c].up
    BY <1>1 DEF ConnState
<1> HIDE DEF k
<1>5. NoOp \notin Transaction
    BY OpAssumption
<1>6. Placed(k)
    BY <1>0, <1>1, <1>4, <1>5, AtWork DEF Placed
<1>7. losses = 0 => k.up /\ (o \in Transaction => db[o] = <<>>)
    BY <1>0, <1>1, <1>4, AtWork DEF Intact
<1>8. Makes(c, o, k, db[o], "dropped")
    BY <1>0, <1>2, <1>4, <1>5, <1>6, <1>7, AtWork DEF Makes, GiveUp
<1> QED
    BY <1>0, <1>3, <1>8, AtWork DEF Step, Ends, Task

(* A lost connection, opened again or not: nothing is pending any more, and    *)
(* what may have taken effect is the statement or the COMMIT under way.        *)
LEMMA LoseConnectionStep ==
    ASSUME IInv, NEW c \in Conn, LoseConnection(c) PROVE Step(c)
<1> DEFINE o == Task(c)
           k(up) == [conn[c] EXCEPT !.up = up, !.inTx = FALSE, !.pending = <<>>]
           done(lost) == IF ~lost THEN db[o]
                         ELSE CASE conn[c].pc = "commit" -> db[o] \o conn[c].pending
                                [] conn[c].pc = "statement" /\ ~conn[c].inTx ->
                                      Append(db[o], conn[c].next)
                                [] OTHER -> db[o]
<1>0. conn[c].pc \in {"begin", "statement", "commit", "rollback"}
    BY DEF LoseConnection
<1>1. conn[c] \in ConnState /\ conn[c].task = o /\ conn[c].pending \in Seq(Nat)
      /\ conn[c].next \in Nat /\ conn[c].inTx \in BOOLEAN
    BY ConnTyped DEF IInv, Task
<1>2. /\ o \in Op /\ o # NoOp /\ Placed(conn[c]) /\ InStep(conn[c], db[o])
      /\ db[o] \in Seq(Nat) /\ Sorted(db[o])
      /\ db = [db EXCEPT ![o] = db[o]] /\ status = [status EXCEPT ![o] = "running"]
    BY <1>0, AtWork
<1>3. PICK lost \in BOOLEAN, up \in BOOLEAN :
         /\ db' = IF ~lost THEN db
                  ELSE CASE conn[c].pc = "commit" -> [db EXCEPT ![o] = @ \o conn[c].pending]
                         [] conn[c].pc = "statement" /\ ~conn[c].inTx ->
                               [db EXCEPT ![o] = Append(@, conn[c].next)]
                         [] OTHER -> db
         /\ conn' = [conn EXCEPT ![c].up = up, ![c].inTx = FALSE, ![c].pending = <<>>]
    BY DEF LoseConnection
<1>4. conn' = [conn EXCEPT ![c] = k(up)]
    BY <1>3 DEF IInv, TypeOK
<1>5. db' = [db EXCEPT ![o] = done(lost)]
    BY <1>2, <1>3
<1>6. k(up) \in ConnState
    <2>1. <<>> \in Seq(Nat)
        BY EmptySeq
    <2> QED
        BY <1>1, <1>3, <2>1 DEF ConnState
<1>7. /\ k(up).pc = conn[c].pc /\ ~k(up).inTx /\ k(up).task = o /\ k(up).pending = <<>>
      /\ k(up).next = conn[c].next /\ k(up).tries = conn[c].tries
      /\ k(up).lastError = conn[c].lastError
    BY <1>1 DEF ConnState
<1> HIDE DEF k
<1>8. Placed(k(up))
    BY <1>0, <1>1, <1>2, <1>7 DEF Placed
<1>9. /\ db[o] \o conn[c].pending \in Seq(Nat) /\ Sorted(db[o] \o conn[c].pending)
      /\ \A i \in DOMAIN (db[o] \o conn[c].pending) : (db[o] \o conn[c].pending)[i] <= conn[c].next
    <2>1. db[o] = <<>> \/ conn[c].pending = <<>>
        BY <1>1, <1>2 DEF Placed, InStep
    <2> QED
        BY <1>1, <1>2, <2>1, CommittedSorted DEF InStep
<1>10. /\ Append(db[o], conn[c].next) \in Seq(Nat) /\ Sorted(Append(db[o], conn[c].next))
       /\ \A i \in DOMAIN Append(db[o], conn[c].next) :
             Append(db[o], conn[c].next)[i] <= conn[c].next
    BY <1>1, <1>2, AppendSorted DEF InStep
<1>11. \/ done(lost) = db[o]
       \/ conn[c].pc = "commit" /\ done(lost) = db[o] \o conn[c].pending
       \/ conn[c].pc = "statement" /\ done(lost) = Append(db[o], conn[c].next)
    OBVIOUS
<1> HIDE DEF done
<1>12. done(lost) \in Seq(Nat) /\ Sorted(done(lost))
       /\ \A i \in DOMAIN done(lost) : done(lost)[i] <= conn[c].next
    BY <1>2, <1>9, <1>10, <1>11 DEF InStep
<1>13. InStep(k(up), done(lost))
    <2>1. k(up).pc = "begin" \/ k(up).inTx => done(lost) = <<>>
        BY <1>2, <1>7, <1>11 DEF InStep
    <2>2. DOMAIN k(up).pending = {}
        BY <1>7, EmptySeq
    <2> QED
        BY <2>1, <2>2, <1>7, <1>12 DEF InStep, Sorted
<1>14. losses' = losses + 1 /\ losses' # 0 /\ losses' \in losses..MaxLosses
    <2>1. losses' = losses + 1 /\ losses < MaxLosses /\ losses \in 0..MaxLosses /\ MaxLosses \in Nat
        BY PoolAssumption DEF LoseConnection, IInv, TypeOK
    <2> QED
        BY <2>1
<1>15. Makes(c, o, k(up), done(lost), "running")
    BY <1>2, <1>4, <1>5, <1>7, <1>8, <1>12, <1>13, <1>14 DEF Makes, LoseConnection
<1> QED
    BY <1>6, <1>12, <1>15 DEF Step, Ends, Task

(* Every step of a connection that is at work. *)
LEMMA WorkStep ==
    ASSUME IInv, NEW c \in Conn, Work(c) \/ LoseConnection(c)
    PROVE  Step(c) /\ Task(c) \in Op
<1>1. Step(c)
    BY BeginStep, StatementExecutedStep, StatementFailsStep, RollbackStep, CommitStep,
       RetryStep, GiveUpStep, LoseConnectionStep DEF Work
<1>2. conn[c].pc # "idle"
    BY DEF Work, Begin, StatementExecuted, StatementFails, Rollback, Commit, Retry, GiveUp,
           LoseConnection
<1> QED
    BY <1>1, <1>2, AtWork

-----------------------------------------------------------------------------
(* An idle connection takes an operation nothing of which has taken effect.    *)
LEMMA TakeInv ==
    ASSUME IInv, NEW c \in Conn, NEW o \in Op, Take(c, o), UNCHANGED <<db, losses>>,
           status[o] \in {"new", "queued"}, o \in Direct <=> c \in Synch
    PROVE  /\ conn' \in [Conn -> ConnState]
           /\ status' = [status EXCEPT ![o] = "running"]
           /\ \A d \in Conn : Placed(conn'[d])
           /\ \A d \in Conn : conn'[d].task # NoOp => InStep(conn'[d], db'[conn'[d].task])
           /\ Assigned' /\ Effects' /\ Wholes'
<1> DEFINE k == [conn[c] EXCEPT !.task = o, !.pc = FirstStep(o), !.next = 1, !.tries = 0]
<1>0. conn[c].pc = "idle" /\ status' = [status EXCEPT ![o] = "running"]
    BY DEF Take
<1>1. conn[c] \in ConnState /\ conn[c].inTx \in BOOLEAN /\ Placed(conn[c])
    BY ConnTyped DEF IInv
<1>2. /\ conn' = [conn EXCEPT ![c] = k] /\ conn \in [Conn -> ConnState]
      /\ status \in [Op -> {"new", "queued", "running", "done", "dropped", "discarded"}]
      /\ db \in [Op -> Seq(Nat)]
    BY DEF Take, IInv, TypeOK
<1>3. /\ Statements[o] \in Nat /\ (o \notin Transaction => Statements[o] > 0)
      /\ o # NoOp /\ NoOp \notin Transaction /\ Transaction \subseteq Op
    BY OpAssumption
<1>4. FirstStep(o) = IF o \notin Transaction THEN "statement"
                     ELSE IF Statements[o] = 0 THEN "failed" ELSE "begin"
    <2>1. CASE o \notin Transaction
        BY <1>3, <2>1 DEF FirstStep
    <2>2. CASE o \in Transaction /\ Statements[o] = 0
        BY <2>2 DEF FirstStep
    <2>3. CASE o \in Transaction /\ Statements[o] # 0
        BY <2>3 DEF FirstStep
    <2> QED
        BY <2>1, <2>2, <2>3
<1>5. k \in ConnState
    <2>1. FirstStep(o) \in {"idle", "begin", "statement", "commit", "rollback", "failed"}
        BY <1>4
    <2>2. 0 \in 0..LoopBreaker /\ 1 \in Nat /\ o \in Op \union {NoOp}
        BY DEF LoopBreaker
    <2> QED
        BY <1>1, <2>1, <2>2 DEF ConnState
<1>6. /\ k.task = o /\ k.pc = FirstStep(o) /\ k.next = 1 /\ k.tries = 0
      /\ k.inTx = conn[c].inTx /\ k.pending = conn[c].pending /\ k.up = conn[c].up
    BY <1>1 DEF ConnState
<1> HIDE DEF k
<1>7. ~k.inTx /\ k.pending = <<>> /\ conn[c].task = NoOp
    BY <1>0, <1>1, <1>6 DEF Placed
<1>8. Placed(k)
    BY <1>3, <1>4, <1>6, <1>7 DEF Placed
<1>9. db[o] = <<>> /\ InStep(k, db[o])
    BY <1>6, <1>7, EmptySeq DEF IInv, Effects, InStep, Sorted
<1>10. conn'[c] = k /\ \A d \in Conn \ {c} : conn'[d] = conn[d]
    BY <1>2
<1>11. status'[o] = "running" /\ \A p \in Op \ {o} : status'[p] = status[p]
    BY <1>0, <1>2
<1>12. \A d \in Conn : conn[d].task # o /\ conn[d].task \in Op \union {NoOp}
    BY <1>3, ConnTyped DEF IInv, Assigned
<1>13. conn' \in [Conn -> ConnState]
    BY <1>2, <1>5
<1>14. \A d \in Conn : Placed(conn'[d])
    BY <1>8, <1>10 DEF IInv
<1>15. \A d \in Conn : conn'[d].task # NoOp => InStep(conn'[d], db'[conn'[d].task])
    BY <1>6, <1>9, <1>10 DEF IInv
<1>16. Assigned'
    <2>1. ASSUME NEW d \in Conn, conn'[d].task # NoOp
          PROVE  status'[conn'[d].task] = "running" /\ (conn'[d].task \in Direct <=> d \in Synch)
        BY <2>1, <1>6, <1>10, <1>11, <1>12 DEF IInv, Assigned
    <2>2. ASSUME NEW d \in Conn, NEW e \in Conn,
                 conn'[d].task = conn'[e].task, conn'[d].task # NoOp
          PROVE  d = e
        BY <2>2, <1>6, <1>10, <1>12 DEF IInv, Assigned
    <2>3. ASSUME NEW p \in Op, status'[p] = "running" PROVE \E d \in Conn : conn'[d].task = p
        BY <2>3, <1>3, <1>6, <1>7, <1>10, <1>11, OpAssumption DEF IInv, Assigned
    <2> QED
        BY <2>1, <2>2, <2>3 DEF Assigned
<1>17. Effects'
    BY <1>11 DEF IInv, Effects
<1>18. Wholes'
    <2>1. losses = 0 => k.up /\ (o \in Transaction => Intact(k, db[o]))
        BY <1>1, <1>4, <1>6, <1>9 DEF IInv, Wholes, Intact
    <2>2. \A t \in Transaction : db[t] # <<>> => t # o
        BY <1>9
    <2> QED
        BY <2>1, <2>2, <1>3, <1>6, <1>10, <1>11 DEF IInv, Wholes, AllOf, Intact
<1> QED
    BY <1>0, <1>13, <1>14, <1>15, <1>16, <1>17, <1>18

(* A caller hands over an operation for the queue. *)
LEMMA EnqueueInv == ASSUME IInv, NEW o \in Op, Enqueue(o) PROVE IInv'
<1> USE DEF IInv
<1>0. /\ o \notin Direct /\ status[o] = "new" /\ queue' = Append(queue, o)
      /\ submitted' = Append(submitted, o) /\ status' = [status EXCEPT ![o] = "queued"]
      /\ UNCHANGED <<closed, conn, db, losses>>
    BY DEF Enqueue
<1>1. status'[o] = "queued" /\ \A p \in Op \ {o} : status'[p] = status[p]
    BY <1>0 DEF TypeOK
<1>2. queue \in Seq(Op) /\ submitted \in Seq(Op)
    BY DEF TypeOK
<1>3. /\ queue' \in Seq(Op) /\ Len(queue') = Len(queue) + 1 /\ Len(queue) \in Nat
      /\ DOMAIN queue = 1..Len(queue) /\ DOMAIN queue' = 1..(Len(queue) + 1)
      /\ \A i \in 1..Len(queue) : queue'[i] = queue[i] /\ queue[i] \in Op
      /\ queue'[Len(queue) + 1] = o
    BY <1>0, <1>2, AppendProperties, LenProperties, ElementOfSeq
<1>4. /\ submitted' \in Seq(Op) /\ Len(submitted') = Len(submitted) + 1 /\ Len(submitted) \in Nat
      /\ DOMAIN submitted = 1..Len(submitted) /\ DOMAIN submitted' = 1..(Len(submitted) + 1)
      /\ \A i \in 1..Len(submitted) : submitted'[i] = submitted[i] /\ submitted[i] \in Op
      /\ submitted'[Len(submitted) + 1] = o
    BY <1>0, <1>2, AppendProperties, LenProperties, ElementOfSeq
<1>5. TypeOK'
    BY <1>0, <1>3, <1>4 DEF TypeOK
<1>6. \A c \in Conn : conn[c].task # o /\ conn[c].task \in Op \union {NoOp}
    BY <1>0, ConnTyped, OpAssumption DEF Assigned
<1>7. Assigned'
    BY <1>0, <1>1, <1>6 DEF Assigned
<1>8. InQueue'
    <2>1. Taken' = Taken /\ Taken \in Int
        BY <1>3, <1>4 DEF Taken
    <2>2. \A j \in 1..Len(submitted) : submitted[j] # o
        BY <1>0, <1>4 DEF InQueue
    <2>3. \A i \in DOMAIN queue' : queue'[i] = submitted'[Taken' + i] /\ status'[queue'[i]] = "queued"
        <3>1. ASSUME NEW i \in 1..Len(queue)
              PROVE  queue'[i] = submitted'[Taken' + i] /\ status'[queue'[i]] = "queued"
            <4>1. queue[i] = submitted[Taken + i] /\ status[queue[i]] = "queued"
                BY <1>3 DEF InQueue
            <4>2. Taken + i \in 1..Len(submitted)
                BY <1>3, <1>4 DEF InQueue, Taken
            <4> QED
                BY <4>1, <4>2, <2>1, <1>1, <1>3, <1>4
        <3>2. Taken + (Len(queue) + 1) = Len(submitted) + 1
            BY <1>3, <1>4 DEF Taken
        <3>3. queue'[Len(queue) + 1] = submitted'[Taken' + (Len(queue) + 1)]
              /\ status'[queue'[Len(queue) + 1]] = "queued"
            BY <3>2, <2>1, <1>1, <1>3, <1>4
        <3>4. \A i \in DOMAIN queue' : i \in 1..Len(queue) \/ i = Len(queue) + 1
            BY <1>3
        <3> QED
            BY <3>1, <3>3, <3>4
    <2>4. ASSUME NEW j \in DOMAIN submitted'
          PROVE  /\ submitted'[j] \notin Direct /\ status'[submitted'[j]] # "new"
                 /\ j <= Taken' => status'[submitted'[j]] # "queued"
        <3>1. CASE j \in 1..Len(submitted)
            BY <3>1, <2>1, <2>2, <1>1, <1>4 DEF InQueue
        <3>2. CASE j = Len(submitted) + 1
            BY <3>2, <2>1, <1>0, <1>1, <1>3, <1>4 DEF Taken
        <3> QED
            BY <3>1, <3>2, <1>4
    <2>5. \A j, k \in DOMAIN submitted' : submitted'[j] = submitted'[k] => j = k
        BY <2>2, <1>4 DEF InQueue
    <2> QED
        BY <2>1, <2>3, <2>4, <2>5 DEF InQueue
<1>9. Effects'
    BY <1>0, <1>1 DEF Effects
<1>10. Wholes'
    <2>1. \A t \in Transaction : db[t] # <<>> => t # o
        BY <1>0 DEF Effects
    <2> QED
        BY <2>1, <1>0, <1>1, OpAssumption DEF Wholes, AllOf, Intact
<1> QED
    BY <1>0, <1>5, <1>7, <1>8, <1>9, <1>10 DEF Placed, InStep, Sorted

(* A worker takes the head of the queue. *)
LEMMA DequeueInv == ASSUME IInv, NEW c \in Conn, Dequeue(c) PROVE IInv'
<1> USE DEF IInv
<1> DEFINE o == Head(queue)
<1>0. c \in Async /\ queue # <<>> /\ Take(c, o) /\ queue' = Tail(queue)
      /\ UNCHANGED <<closed, db, losses, submitted>>
    BY DEF Dequeue
<1>1. queue \in Seq(Op) /\ submitted \in Seq(Op)
    BY DEF TypeOK
<1>2. /\ o \in Op /\ o = queue[1] /\ queue' \in Seq(Op) /\ Len(queue') = Len(queue) - 1
      /\ Len(queue) \in Nat \ {0} /\ DOMAIN queue = 1..Len(queue)
      /\ DOMAIN queue' = 1..(Len(queue) - 1)
      /\ \A i \in 1..(Len(queue) - 1) : queue'[i] = queue[i + 1] /\ queue[i + 1] \in Op
    BY <1>0, <1>1, HeadTailProperties, LenProperties, ElementOfSeq, EmptySeq
<1>3. /\ Len(submitted) \in Nat /\ DOMAIN submitted = 1..Len(submitted)
      /\ \A j \in DOMAIN submitted : submitted[j] \in Op
    BY <1>1, LenProperties, ElementOfSeq
<1>4. Taken \in Nat /\ Taken' = Taken + 1 /\ Taken + Len(queue) = Len(submitted)
    BY <1>0, <1>2, <1>3 DEF Taken, InQueue
<1>5. o = submitted[Taken + 1] /\ status[o] = "queued" /\ Taken + 1 \in DOMAIN submitted
    BY <1>2, <1>3, <1>4 DEF InQueue
<1>6. o \notin Direct /\ c \notin Synch
    BY <1>0, <1>5, PoolAssumption DEF InQueue
<1>7. /\ conn' \in [Conn -> ConnState]
      /\ status' = [status EXCEPT ![o] = "running"]
      /\ \A d \in Conn : Placed(conn'[d])
      /\ \A d \in Conn : conn'[d].task # NoOp => InStep(conn'[d], db'[conn'[d].task])
      /\ Assigned' /\ Effects' /\ Wholes'
    BY <1>0, <1>2, <1>5, <1>6, TakeInv
<1>8. status'[o] = "running" /\ \A p \in Op \ {o} : status'[p] = status[p]
    BY <1>2, <1>7 DEF TypeOK
<1>9. TypeOK'
    BY <1>0, <1>2, <1>7 DEF TypeOK
<1>10. InQueue'
    <2>1. ASSUME NEW i \in DOMAIN queue'
          PROVE  queue'[i] = submitted'[Taken' + i] /\ status'[queue'[i]] = "queued"
        <3>0. i \in 1..(Len(queue) - 1)
            BY <1>2
        <3>1. i + 1 \in DOMAIN queue /\ Taken + (i + 1) = Taken' + i /\ Taken + (i + 1) # Taken + 1
              /\ Taken + (i + 1) \in DOMAIN submitted
            <4>1. i + 1 \in DOMAIN queue
                BY <3>0, <1>2
            <4>2. Taken + (i + 1) = Taken' + i /\ Taken + (i + 1) # Taken + 1
                BY <3>0, <1>2, <1>4
            <4>3. Taken + (i + 1) \in 1..Len(submitted)
                BY <3>0, <1>2, <1>3, <1>4
            <4> QED
                BY <4>1, <4>2, <4>3, <1>3
        <3>2. queue'[i] = submitted[Taken' + i] /\ status[queue'[i]] = "queued" /\ queue'[i] \in Op
            BY <3>1, <1>2 DEF InQueue
        <3>3. queue'[i] # o
            BY <3>1, <3>2, <1>5 DEF InQueue
        <3> QED
            BY <3>2, <3>3, <1>0, <1>8
    <2>2. ASSUME NEW j \in DOMAIN submitted
          PROVE  /\ submitted[j] \notin Direct /\ status'[submitted[j]] # "new"
                 /\ j <= Taken' => status'[submitted[j]] # "queued"
        BY <1>3, <1>4, <1>5, <1>8 DEF InQueue
    <2> QED
        BY <2>1, <2>2, <1>0, <1>4 DEF InQueue
<1> QED
    BY <1>7, <1>9, <1>10 DEF Placed, InStep, Sorted

(* A caller that waits takes a connection of its own. *)
LEMMA ExecuteDirectlyInv ==
    ASSUME IInv, NEW c \in Conn, NEW o \in Op, ExecuteDirectly(c, o) PROVE IInv'
<1> USE DEF IInv
<1>0. /\ c \in Synch /\ o \in Direct /\ status[o] = "new" /\ Take(c, o)
      /\ UNCHANGED <<queue, closed, db, losses, submitted>>
    BY DEF ExecuteDirectly
<1>1. /\ conn' \in [Conn -> ConnState]
      /\ status' = [status EXCEPT ![o] = "running"]
      /\ \A d \in Conn : Placed(conn'[d])
      /\ \A d \in Conn : conn'[d].task # NoOp => InStep(conn'[d], db'[conn'[d].task])
      /\ Assigned' /\ Effects' /\ Wholes'
    BY <1>0, TakeInv
<1>2. status'[o] = "running" /\ \A p \in Op \ {o} : status'[p] = status[p]
    BY <1>1 DEF TypeOK
<1>3. TypeOK'
    BY <1>0, <1>1 DEF TypeOK
<1>4. InQueue'
    <2>1. \A i \in DOMAIN queue : queue[i] \in Op /\ queue[i] # o
        BY <1>0 DEF TypeOK, InQueue
    <2>2. \A j \in DOMAIN submitted : submitted[j] \in Op /\ submitted[j] # o
        BY <1>0 DEF TypeOK, InQueue
    <2>3. Taken' = Taken
        BY <1>0 DEF Taken
    <2> QED
        BY <2>1, <2>2, <2>3, <1>0, <1>2 DEF InQueue
<1> QED
    BY <1>1, <1>3, <1>4 DEF Placed, InStep, Sorted

(* The shutdown: what waits in the queue is discarded. *)
LEMMA CloseInv == ASSUME IInv, Close PROVE IInv'
<1> USE DEF IInv
<1>0. /\ queue' = <<>> /\ closed' = TRUE
      /\ status' = [o \in Op |-> IF status[o] = "queued" THEN "discarded" ELSE status[o]]
      /\ UNCHANGED <<conn, db, losses, submitted>>
    BY DEF Close
<1>1. \A o \in Op : status'[o] = IF status[o] = "queued" THEN "discarded" ELSE status[o]
    BY <1>0
<1>2. <<>> \in Seq(Op) /\ Len(<<>>) = 0 /\ DOMAIN <<>> = {}
    BY EmptySeq
<1>3. TypeOK'
    <2>1. status' \in [Op -> {"new", "queued", "running", "done", "dropped", "discarded"}]
        BY <1>0 DEF TypeOK
    <2> QED
        BY <2>1, <1>0, <1>2 DEF TypeOK
<1>4. \A c \in Conn : conn[c].task \in Op \union {NoOp}
    BY ConnTyped
<1>5. Assigned'
    BY <1>0, <1>1, <1>4 DEF Assigned
<1>6. InQueue'
    <2>1. /\ Len(submitted) \in Nat /\ DOMAIN submitted = 1..Len(submitted)
          /\ \A j \in DOMAIN submitted : submitted[j] \in Op
        BY LenProperties, ElementOfSeq DEF TypeOK
    <2>2. Taken' >= 0
        BY <1>0, <1>2, <2>1 DEF Taken
    <2> QED
        BY <2>1, <2>2, <1>0, <1>1, <1>2 DEF InQueue
<1>7. Effects'
    BY <1>0, <1>1 DEF Effects
<1>8. Wholes'
    BY <1>0, <1>1, OpAssumption DEF Wholes, AllOf, Intact
<1> QED
    BY <1>0, <1>3, <1>5, <1>6, <1>7, <1>8 DEF Placed, InStep, Sorted

(* Every step preserves the invariant. *)
LEMMA NextInv == ASSUME IInv, [Next]_vars PROVE IInv'
<1>1. CASE UNCHANGED vars
    <2>1. TypeOK' /\ Assigned'
        BY <1>1 DEF IInv, vars, TypeOK, Assigned
    <2>2. (\A c \in Conn : Placed(conn[c]))'
        BY <1>1 DEF IInv, vars, Placed
    <2>3. (\A c \in Conn : conn[c].task # NoOp => InStep(conn[c], db[conn[c].task]))'
        BY <1>1 DEF IInv, vars, InStep, Sorted
    <2>4. InQueue'
        BY <1>1 DEF IInv, vars, InQueue, Taken
    <2>5. Effects' /\ Wholes'
        BY <1>1 DEF IInv, vars, Effects, Sorted, Wholes, Intact, AllOf
    <2> QED
        BY <2>1, <2>2, <2>3, <2>4, <2>5 DEF IInv
<1>2. ASSUME NEW o \in Op, Enqueue(o) PROVE IInv'
    BY <1>2, EnqueueInv
<1>3. ASSUME NEW c \in Conn, Dequeue(c) PROVE IInv'
    BY <1>3, DequeueInv
<1>4. ASSUME NEW c \in Conn, NEW o \in Op, ExecuteDirectly(c, o) PROVE IInv'
    BY <1>4, ExecuteDirectlyInv
<1>5. ASSUME NEW c \in Conn, Work(c) \/ LoseConnection(c) PROVE IInv'
    <2>1. Step(c) /\ Task(c) \in Op
        BY <1>5, WorkStep
    <2> QED
        BY <2>1, StepInv DEF Step, Task
<1>6. CASE Close
    BY <1>6, CloseInv
<1>7. CASE Stopped
    BY <1>7, <1>1 DEF Stopped
<1> QED
    BY <1>1, <1>2, <1>3, <1>4, <1>5, <1>6, <1>7 DEF Next

(* The invariant holds in every behaviour. *)
THEOREM PoolInvariant == Spec => []IInv
<1>1. Init => IInv
    BY InitInv
<1>2. IInv /\ [Next]_vars => IInv'
    BY NextInv
<1> QED
    BY <1>1, <1>2, PTL DEF Spec

(* A connection is handed back without a transaction left open on the server,  *)
(* whatever was lost, rejected or rolled back on it.                           *)
THEOREM NothingLeftOpen == Spec => []NoOpenTransaction
<1>1. IInv => NoOpenTransaction
    BY DEF IInv, Placed, NoOpenTransaction
<1> QED
    BY <1>1, PoolInvariant, PTL

(* The statements of an operation take effect in their order. *)
THEOREM StatementsInOrder == Spec => []OrderKept
<1>1. IInv => OrderKept
    BY DEF IInv, Effects, Sorted, OrderKept
<1> QED
    BY <1>1, PoolInvariant, PTL

-----------------------------------------------------------------------------
(* With one worker thread, what left the queue ends before the next is taken. *)
LEMMA OneByOneStep ==
    ASSUME NEW w, Async = {w}, IInv, IInv', OneByOne, [Next]_vars PROVE OneByOne'
<1> USE DEF IInv
<1>0. /\ Len(submitted) \in Nat /\ DOMAIN submitted = 1..Len(submitted)
      /\ \A j \in DOMAIN submitted : submitted[j] \in Op
    BY LenProperties, ElementOfSeq DEF TypeOK
<1>1. CASE UNCHANGED vars
    BY <1>1 DEF OneByOne, Ended, vars
<1>2. ASSUME NEW o \in Op, Enqueue(o) PROVE OneByOne'
    <2>1. submitted' = Append(submitted, o) /\ status' = [status EXCEPT ![o] = "queued"] /\ status[o] = "new"
        BY <1>2 DEF Enqueue
    <2>2. status'[o] = "queued" /\ \A p \in Op \ {o} : status'[p] = status[p]
        BY <2>1 DEF TypeOK
    <2>3. /\ DOMAIN submitted' = 1..(Len(submitted) + 1) /\ submitted'[Len(submitted) + 1] = o
          /\ \A i \in 1..Len(submitted) : submitted'[i] = submitted[i]
        <3>1. submitted \in Seq(Op)
            BY DEF TypeOK
        <3> QED
            BY <3>1, <2>1, AppendProperties, LenProperties
    <2>4. \A j \in DOMAIN submitted : submitted[j] # o
        BY <2>1 DEF InQueue
    <2> SUFFICES ASSUME NEW j \in DOMAIN submitted', NEW k \in DOMAIN submitted', j < k,
                        status'[submitted'[k]] \in {"running", "done", "dropped"}
                 PROVE  status'[submitted'[j]] \in {"done", "dropped", "discarded"}
        BY DEF OneByOne, Ended
    <2>5. k \in 1..Len(submitted) /\ j \in 1..Len(submitted)
        BY <2>2, <2>3, <1>0
    <2> QED
        BY <2>2, <2>3, <2>4, <2>5, <1>0 DEF OneByOne, Ended
<1>3. ASSUME NEW c \in Conn, Dequeue(c) PROVE OneByOne'
    <2> DEFINE o == Head(queue)
    <2>1. /\ queue # <<>> /\ UNCHANGED submitted /\ status' = [status EXCEPT ![o] = "running"]
          /\ c = w /\ conn[c].pc = "idle" /\ queue \in Seq(Op)
        BY <1>3 DEF Dequeue, Take, TypeOK
    <2>2. o \in Op /\ o = queue[1] /\ 1 \in DOMAIN queue /\ Len(queue) \in Nat
        BY <2>1, HeadTailProperties, LenProperties, EmptySeq
    <2>3. status'[o] = "running" /\ \A p \in Op \ {o} : status'[p] = status[p]
        BY <2>1, <2>2 DEF TypeOK
    <2>4. status[o] = "queued" /\ o = submitted[Taken + 1] /\ Taken \in Nat /\ Taken + 1 \in DOMAIN submitted
        <3>1. Taken \in Nat /\ Taken + Len(queue) = Len(submitted) /\ Len(queue) >= 1
            BY <1>0, <2>1, <2>2, EmptySeq DEF InQueue, Taken
        <3> QED
            BY <3>1, <2>2, <1>0 DEF InQueue
    <2>5. \A j \in DOMAIN submitted : status[submitted[j]] # "running"
        <3> SUFFICES ASSUME NEW j \in DOMAIN submitted, status[submitted[j]] = "running" PROVE FALSE
            OBVIOUS
        <3>1. PICK d \in Conn : conn[d].task = submitted[j]
            BY <1>0 DEF Assigned
        <3>2. conn[d].task # NoOp /\ submitted[j] \notin Direct
            BY <3>1, <1>0, OpAssumption DEF InQueue
        <3>3. d = c
            BY <3>1, <3>2, <2>1 DEF Assigned, Conn
        <3> QED
            BY <3>2, <3>3, <2>1 DEF Placed
    <2>6. \A j \in DOMAIN submitted : j < Taken + 1 => Ended(submitted[j]) /\ submitted[j] # o
        <3> SUFFICES ASSUME NEW j \in DOMAIN submitted, j < Taken + 1
                     PROVE  Ended(submitted[j]) /\ submitted[j] # o
            OBVIOUS
        <3>1. submitted[j] \in Op /\ j <= Taken
            BY <1>0, <2>4
        <3>2. status[submitted[j]] \notin {"new", "queued", "running"}
            BY <2>5, <3>1 DEF InQueue
        <3> QED
            BY <3>1, <3>2, <2>4 DEF Ended, TypeOK
    <2> SUFFICES ASSUME NEW j \in DOMAIN submitted, NEW k \in DOMAIN submitted, j < k,
                        status'[submitted[k]] \in {"running", "done", "dropped"}
                 PROVE  status'[submitted[j]] \in {"done", "dropped", "discarded"}
        BY <2>1 DEF OneByOne, Ended
    <2>7. CASE submitted[k] = o
        <3>1. k = Taken + 1
            BY <2>4, <2>7 DEF InQueue
        <3> QED
            BY <3>1, <2>3, <2>6, <1>0 DEF Ended
    <2>8. CASE submitted[k] # o
        <3>1. Ended(submitted[j])
            BY <2>3, <2>8, <1>0 DEF OneByOne
        <3> QED
            BY <3>1, <2>3, <2>4, <1>0 DEF Ended
    <2> QED
        BY <2>7, <2>8
<1>4. ASSUME NEW c \in Conn, NEW o \in Op, ExecuteDirectly(c, o) PROVE OneByOne'
    <2>1. o \in Direct /\ UNCHANGED submitted /\ status' = [status EXCEPT ![o] = "running"]
        BY <1>4 DEF ExecuteDirectly, Take
    <2>2. \A j \in DOMAIN submitted : submitted[j] # o /\ status'[submitted[j]] = status[submitted[j]]
        BY <2>1, <1>0 DEF InQueue, TypeOK
    <2> QED
        BY <2>1, <2>2 DEF OneByOne, Ended
<1>5. ASSUME NEW c \in Conn, Work(c) \/ LoseConnection(c) PROVE OneByOne'
    <2> DEFINE o == Task(c)
    <2>1. PICK k \in ConnState, done \in Seq(Nat), end \in Ends : Makes(c, o, k, done, end)
        BY <1>5, WorkStep DEF Step, Task
    <2>2. o \in Op /\ status[o] = "running"
        <3>1. conn[c].pc # "idle"
            BY <1>5 DEF Work, Begin, StatementExecuted, StatementFails, Rollback, Commit, Retry,
                        GiveUp, LoseConnection
        <3> QED
            BY <3>1, AtWork
    <2>3. /\ UNCHANGED submitted /\ status'[o] \in {"running", "done", "dropped"}
          /\ \A p \in Op \ {o} : status'[p] = status[p]
        BY <2>1, <2>2 DEF Makes, Ends, TypeOK
    <2> SUFFICES ASSUME NEW i \in DOMAIN submitted, NEW j \in DOMAIN submitted, i < j,
                        status'[submitted[j]] \in {"running", "done", "dropped"}
                 PROVE  status'[submitted[i]] \in {"done", "dropped", "discarded"}
        BY <2>3 DEF OneByOne, Ended
    <2>4. Ended(submitted[i])
        BY <2>2, <2>3, <1>0 DEF OneByOne
    <2> QED
        BY <2>2, <2>3, <2>4, <1>0 DEF Ended
<1>6. CASE Close
    <2>1. /\ UNCHANGED submitted
          /\ \A o \in Op : status'[o] = IF status[o] = "queued" THEN "discarded" ELSE status[o]
        BY <1>6 DEF Close
    <2> QED
        BY <2>1, <1>0 DEF OneByOne, Ended
<1>7. CASE Stopped
    BY <1>7, <1>1 DEF Stopped
<1> QED
    BY <1>1, <1>2, <1>3, <1>4, <1>5, <1>6, <1>7 DEF Next

(* With one worker thread the operations of the queue take effect in the order *)
(* in which they were submitted, whatever fails and whatever is lost.          *)
THEOREM AsyncOrder == ASSUME NEW w, Async = {w} PROVE Spec => []AsyncInOrder
<1>1. Init => OneByOne
    BY InitInv
<1>2. IInv /\ IInv' /\ OneByOne /\ [Next]_vars => OneByOne'
    BY OneByOneStep
<1>3. IInv /\ OneByOne => AsyncInOrder
    <2> SUFFICES ASSUME IInv, OneByOne, NEW j \in DOMAIN submitted, NEW k \in DOMAIN submitted,
                        j < k, db[submitted[k]] # <<>>
                 PROVE  Ended(submitted[j])
        BY DEF AsyncInOrder
    <2>1. submitted[k] \in Op /\ status[submitted[k]] # "new"
        BY LenProperties, ElementOfSeq DEF IInv, TypeOK, InQueue
    <2>2. status[submitted[k]] \in {"running", "done", "dropped"}
        BY <2>1 DEF IInv, TypeOK, Effects
    <2> QED
        BY <2>2 DEF OneByOne
<1> QED
    BY <1>1, <1>2, <1>3, PoolInvariant, PTL DEF Spec

-----------------------------------------------------------------------------
(* What AtomicCommit.tla sees of a transaction while no connection is lost. *)
OutcomeKnown ==
    \A t \in Transaction :
        /\ status[t] = "new" => Outcome(t) = "new"
        /\ status[t] \in {"queued", "running"} => Outcome(t) = "waiting"
        /\ status[t] \in {"dropped", "discarded"} => Outcome(t) = "dropped"
        /\ status[t] = "done" =>
              Outcome(t) = IF db[t] = <<>> THEN "dropped" ELSE "applied"

LEMMA OutcomeIs == IInv /\ losses = 0 => OutcomeKnown
<1> SUFFICES ASSUME IInv, losses = 0, NEW t \in Transaction
             PROVE  /\ status[t] = "new" => Outcome(t) = "new"
                    /\ status[t] \in {"queued", "running"} => Outcome(t) = "waiting"
                    /\ status[t] \in {"dropped", "discarded"} => Outcome(t) = "dropped"
                    /\ status[t] = "done" =>
                          Outcome(t) = IF db[t] = <<>> THEN "dropped" ELSE "applied"
    BY DEF OutcomeKnown
<1>0. db[t] # <<>> => db[t] = AllOf(t) /\ status[t] = "done"
    BY DEF IInv, Wholes
<1>1. CASE status[t] = "new"
    BY <1>1 DEF Outcome
<1>2. CASE status[t] \in {"queued", "running"}
    BY <1>0, <1>2 DEF Outcome, Ended
<1>3. CASE status[t] \in {"dropped", "discarded"}
    BY <1>0, <1>3 DEF Outcome, Ended
<1>4. CASE status[t] = "done" /\ db[t] = <<>>
    BY <1>4 DEF Outcome, Ended
<1>5. CASE status[t] = "done" /\ db[t] # <<>>
    BY <1>0, <1>5 DEF Outcome, Ended
<1> QED
    BY <1>1, <1>2, <1>3, <1>4, <1>5

(* A step that leaves every transaction as it was, or takes one to its end.    *)
LEMMA OutcomeStep ==
    ASSUME NEW t \in Transaction,
           \A u \in Transaction \ {t} : Outcome(u)' = Outcome(u),
           \/ Outcome(t)' = Outcome(t)
           \/ Outcome(t) = "new" /\ Outcome(t)' = "waiting"
           \/ Outcome(t) = "waiting" /\ Outcome(t)' \in {"applied", "dropped"}
    PROVE  [Atomic!AtomicNext]_outcomes
<1>1. outcomes' = [outcomes EXCEPT ![t] = Outcome(t)']
    BY DEF outcomes
<1>2. outcomes[t] = Outcome(t) /\ outcomes = [outcomes EXCEPT ![t] = Outcome(t)]
    BY DEF outcomes
<1>3. CASE Outcome(t)' = Outcome(t)
    BY <1>1, <1>2, <1>3
<1>4. CASE Outcome(t) = "new" /\ Outcome(t)' = "waiting"
    BY <1>1, <1>2, <1>4 DEF Atomic!AtomicNext, Atomic!HandOver, Atomic!Becomes
<1>5. CASE Outcome(t) = "waiting" /\ Outcome(t)' = "applied"
    BY <1>1, <1>2, <1>5 DEF Atomic!AtomicNext, Atomic!Apply, Atomic!Becomes
<1>6. CASE Outcome(t) = "waiting" /\ Outcome(t)' = "dropped"
    <2>1. outcomes' = [u \in Transaction |-> IF u \in {t} THEN "dropped" ELSE outcomes[u]]
        BY <1>6 DEF outcomes
    <2>2. Atomic!Drop({t})
        BY <1>2, <1>6, <2>1 DEF Atomic!Drop
    <2> QED
        BY <2>2 DEF Atomic!AtomicNext
<1> QED
    BY <1>3, <1>4, <1>5, <1>6

(* Every step of the pool up to the first connection lost is one of AtomicCommit. *)
LEMMA RefinesStep ==
    ASSUME IInv, IInv', OutcomeKnown, OutcomeKnown', losses = 0, losses' = 0, [Next]_vars
    PROVE  [Atomic!AtomicNext]_outcomes
<1> USE DEF IInv
<1>0. Transaction \subseteq Op
    BY OpAssumption
<1>1. CASE UNCHANGED vars
    <2>1. outcomes' = outcomes
        BY <1>1 DEF outcomes, Outcome, Ended, AllOf, vars
    <2> QED
        BY <2>1
<1>2. ASSUME NEW o \in Op, UNCHANGED db, status' = [status EXCEPT ![o] = status'[o]],
             o \in Transaction => \/ status[o] = "new" /\ status'[o] \in {"queued", "running"}
                                  \/ status[o] = "queued" /\ status'[o] = "running"
      PROVE  [Atomic!AtomicNext]_outcomes
    <2>1. \A p \in Op \ {o} : status'[p] = status[p]
        BY <1>2 DEF TypeOK
    <2>2. \A u \in Transaction \ {o} : Outcome(u)' = Outcome(u)
        BY <1>0, <1>2, <2>1 DEF Outcome, Ended, AllOf
    <2>3. CASE o \notin Transaction
        <3>1. outcomes' = outcomes
            BY <2>2, <2>3 DEF outcomes
        <3> QED
            BY <3>1
    <2>4. CASE o \in Transaction
        <3>1. \/ Outcome(o)' = Outcome(o)
              \/ Outcome(o) = "new" /\ Outcome(o)' = "waiting"
            BY <1>2, <2>4 DEF OutcomeKnown
        <3> QED
            BY <2>2, <2>4, <3>1, OutcomeStep
    <2> QED
        BY <2>3, <2>4
<1>3. ASSUME NEW o \in Op, Enqueue(o) PROVE [Atomic!AtomicNext]_outcomes
    BY <1>2, <1>3 DEF Enqueue, TypeOK
<1>4. ASSUME NEW c \in Conn, Dequeue(c) PROVE [Atomic!AtomicNext]_outcomes
    <2>1. queue # <<>> /\ queue \in Seq(Op) /\ UNCHANGED db
          /\ status' = [status EXCEPT ![Head(queue)] = "running"]
        BY <1>4 DEF Dequeue, Take, TypeOK
    <2>2. Head(queue) \in Op /\ Head(queue) = queue[1] /\ 1 \in DOMAIN queue
        BY <2>1, HeadTailProperties, LenProperties, EmptySeq
    <2>3. status[Head(queue)] = "queued"
        BY <2>2 DEF InQueue
    <2>4. status'[Head(queue)] = "running"
        BY <2>1, <2>2 DEF TypeOK
    <2> QED
        BY <1>2, <2>1, <2>2, <2>3, <2>4
<1>5. ASSUME NEW c \in Conn, NEW o \in Op, ExecuteDirectly(c, o)
      PROVE  [Atomic!AtomicNext]_outcomes
    <2>1. status[o] = "new" /\ status' = [status EXCEPT ![o] = "running"] /\ UNCHANGED db
        BY <1>5 DEF ExecuteDirectly, Take
    <2>2. status'[o] = "running"
        BY <2>1 DEF TypeOK
    <2> QED
        BY <1>2, <2>1, <2>2
<1>6. ASSUME NEW c \in Conn, Work(c) \/ LoseConnection(c)
      PROVE  [Atomic!AtomicNext]_outcomes
    <2>0. PICK o \in Op : o = Task(c)
        BY <1>6, WorkStep
    <2>1. PICK k \in ConnState, done \in Seq(Nat), end \in Ends : Makes(c, o, k, done, end)
        BY <1>6, <2>0, WorkStep DEF Step, Task
    <2>2. status[o] = "running"
        <3>1. conn[c].pc # "idle"
            BY <1>6 DEF Work, Begin, StatementExecuted, StatementFails, Rollback, Commit, Retry,
                        GiveUp, LoseConnection
        <3> QED
            BY <3>1, <2>0, AtWork
    <2>3. /\ status'[o] = end /\ end \in {"running", "done", "dropped"}
          /\ \A p \in Op \ {o} : status'[p] = status[p] /\ db'[p] = db[p]
        BY <2>1, <2>2 DEF Makes, Ends, TypeOK
    <2>4. \A u \in Transaction \ {o} : Outcome(u)' = Outcome(u)
        BY <1>0, <2>3 DEF Outcome, Ended, AllOf
    <2>5. CASE o \notin Transaction
        <3>1. outcomes' = outcomes
            BY <2>4, <2>5 DEF outcomes
        <3> QED
            BY <3>1
    <2>6. CASE o \in Transaction
        <3>1. Outcome(o) = "waiting" /\ Outcome(o)' \in {"waiting", "applied", "dropped"}
            BY <2>2, <2>3, <2>6 DEF OutcomeKnown
        <3> QED
            BY <2>4, <2>6, <3>1, OutcomeStep
    <2> QED
        BY <2>5, <2>6
<1>7. CASE Close
    <2> DEFINE D == {t \in Transaction : status[t] = "queued"}
    <2>1. /\ UNCHANGED db
          /\ \A o \in Op : status'[o] = IF status[o] = "queued" THEN "discarded" ELSE status[o]
        BY <1>7 DEF Close
    <2>2. \A t \in Transaction : Outcome(t)' = IF t \in D THEN "dropped" ELSE Outcome(t)
        <3>1. ASSUME NEW t \in Transaction, t \in D PROVE Outcome(t)' = "dropped"
            BY <1>0, <2>1, <3>1 DEF OutcomeKnown
        <3>2. ASSUME NEW t \in Transaction, t \notin D PROVE Outcome(t)' = Outcome(t)
            BY <1>0, <2>1, <3>2 DEF Outcome, Ended, AllOf
        <3> QED
            BY <3>1, <3>2
    <2>3. outcomes' = [t \in Transaction |-> IF t \in D THEN "dropped" ELSE outcomes[t]]
        BY <2>2 DEF outcomes
    <2>4. \A t \in D : outcomes[t] = "waiting"
        BY DEF OutcomeKnown, outcomes
    <2>5. Atomic!Drop(D)
        BY <2>3, <2>4 DEF Atomic!Drop
    <2> QED
        BY <2>5 DEF Atomic!AtomicNext
<1>8. CASE Stopped
    BY <1>8, <1>1 DEF Stopped
<1> QED
    BY <1>1, <1>3, <1>4, <1>5, <1>6, <1>7, <1>8 DEF Next

(* Up to the first connection lost, the pool implements AtomicCommit.tla: each *)
(* transaction is carried out wholly and once, or not at all.                  *)
THEOREM Refinement == Spec => ImplementsAtomicCommit
<1>1. Init => Atomic!AtomicInit
    <2>1. Init => \A t \in Transaction : Outcome(t) = "new"
        BY OpAssumption DEF Init, Outcome
    <2> QED
        BY <2>1 DEF Atomic!AtomicInit, outcomes
<1>2. IInv /\ losses = 0 => OutcomeKnown
    BY OutcomeIs
<1>3. (IInv /\ losses = 0 => OutcomeKnown)'
    BY <1>2, PTL
<1>4. IInv /\ IInv' /\ [Next]_vars => (losses' = 0 => [Atomic!AtomicNext]_outcomes)
    <2> SUFFICES ASSUME IInv, IInv', [Next]_vars, losses' = 0 PROVE [Atomic!AtomicNext]_outcomes
        OBVIOUS
    <2>1. losses = 0
        <3>1. losses \in Nat
            BY PoolAssumption DEF IInv, TypeOK
        <3>2. losses' = losses \/ losses' = losses + 1
            BY DEF Next, vars, Enqueue, Dequeue, ExecuteDirectly, Work, Begin, StatementExecuted,
                   StatementFails, Rollback, Commit, Retry, GiveUp, LoseConnection, Close, Stopped
        <3> QED
            BY <3>1, <3>2
    <2> QED
        BY <2>1, <1>2, <1>3, RefinesStep
<1> QED
    BY <1>1, <1>4, PoolInvariant, PTL DEF Spec, ImplementsAtomicCommit
=============================================================================
