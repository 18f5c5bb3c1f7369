----------------------------- MODULE BatchSync -----------------------------
(***************************************************************************)
(* POST /sync/batch of the backend: process_batch_operations and the two   *)
(* handlers of task operations, each batch in a database transaction of    *)
(* its own that the endpoint commits at the end.                           *)
(*                                                                         *)
(* An action is the code between two awaits.  The database is PostgreSQL   *)
(* at READ COMMITTED: a SELECT returns what is committed at that moment or *)
(* what the transaction itself wrote; an UPDATE or INSERT waits for the    *)
(* transaction that wrote the row, keeps the row locked until the end of   *)
(* its own, and changes only the columns it names, in the newest version   *)
(* of the row; of transactions that wait for each other one is aborted.    *)
(*                                                                         *)
(* IdempotencySnapshotMiddleware stands in front of the endpoint and lets  *)
(* every request through (nothing sets request.state.user_id before it     *)
(* runs), so a batch that is sent again is processed again.                *)
(***************************************************************************)
EXTENDS Naturals, Sequences, FiniteSets

CONSTANTS
    Sessions,      \* transactions that may be open at the same time
    ClientId,      \* task ids clients use
    Foreign,       \* those of them that belong to another user's tasks
    GeneratedId,   \* ids uuid4 may return; none of them is in use elsewhere
    Title,
    Operations,    \* the operations clients send; each is one edit
    MaxOps,        \* bound on the operations of a batch
    MaxFailures    \* bound on aborted transactions and lost answers

Null == "null"
NoId == "no id"
TaskId == ClientId \cup GeneratedId
Field == {"title", "deleted"}

\* BatchSyncOperation for entity "task".  `data' is the fields it names and
\* their values; `form' says whether data is there with a known status.
BatchSyncOperation ==
    [action : {"upsert", "delete"}, id : ClientId \cup {NoId},
     form : {"ok", "missing", "badstatus"},
     fields : SUBSET Field, title : Title \cup {Null}, deleted : BOOLEAN,
     updated_at : Nat \ {0}]

ASSUME BatchSyncAssumption ==
    /\ ClientId # {}
    /\ Operations \subseteq BatchSyncOperation
    /\ Foreign \subseteq ClientId
    /\ ClientId \cap GeneratedId = {}
    /\ NoId \notin TaskId
    /\ Null \notin Title
    /\ MaxOps \in Nat \ {0}
    /\ MaxFailures \in Nat

VARIABLES
    committed,     \* the user's task rows as committed
    pc,            \* per session: "idle", "select" or "flush"
    batch,         \* the batch it works on
    todo,          \* the operations still to be processed
    own,           \* the rows it wrote and keeps locked
    change,        \* the INSERT or UPDATE its next flush sends
    applied,       \* the operations it reports as applied
    answered,      \* operations whose batch was answered: not sent again
    failures,
    (* history *)
    stored,        \* operations of committed batches reported as applied
    raced          \* tasks committed between another session's read and write

database == <<committed, own>>
session == <<pc, batch, todo, change, applied>>
history == <<stored, raced>>
vars == <<database, session, answered, failures, history>>

---------------------------------------------------------------------------
(* Rows.  Time stamps are positive, so a row with stamp 0 does not exist.  *)

Row == [title : Title \cup {Null}, deleted : BOOLEAN, updated_at : Nat]
Absent == [title |-> Null, deleted |-> FALSE, updated_at |-> 0]
Exists(row) == row.updated_at > 0

Change == [task : TaskId, insert : BOOLEAN, fields : SUBSET Field, row : Row]

Holds(s, t) == Exists(own[s][t])
View(s, t) == IF Holds(s, t) THEN own[s][t] ELSE committed[t]

\* The SELECT by id and user.
Found(s, id) ==
    IF id \in ClientId \ Foreign THEN View(s, id) ELSE Absent

---------------------------------------------------------------------------
(* What the handlers answer without writing *)

\* Mutant of Stale: equal stamps overwrite.
StaleStrictly(row, op) == row.updated_at > op.updated_at

Stale(row, op) == row.updated_at >= op.updated_at

\* Mutant of RefusesDelete: a delete is not compared with the row.
RefusesDeleteUnknown(row, op) == op.id = NoId \/ ~ Exists(row)

RefusesDelete(row, op) == op.id = NoId \/ ~ Exists(row) \/ Stale(row, op)

RefusesUpsert(row, op) ==
    \/ op.form # "ok"
    \/ Exists(row) /\ Stale(row, op)
    \/ ~ Exists(row) /\ ("title" \notin op.fields \/ op.title = Null)

Refused(row, op) ==
    IF op.action = "delete" THEN RefusesDelete(row, op)
                            ELSE RefusesUpsert(row, op)

---------------------------------------------------------------------------
(* What they write *)

\* Mutant of InsertOf: the id is the client's even if there is none.
InsertWithoutId(op, t) ==
    [task |-> op.id, insert |-> TRUE, fields |-> Field,
     row |-> [title |-> op.title, deleted |-> op.deleted,
              updated_at |-> op.updated_at]]

\* Task(...): the client's id or a new one.
InsertOf(op, t) ==
    [task |-> t, insert |-> TRUE, fields |-> Field,
     row |-> [title |-> op.title,
              deleted |-> "deleted" \in op.fields /\ op.deleted,
              updated_at |-> op.updated_at]]

\* Mutant of UpdateOf: the stamp of the row is not moved.
UpdateKeepingStamp(op, row) ==
    [task |-> op.id, insert |-> FALSE, fields |-> op.fields,
     row |-> [title |-> op.title, deleted |-> op.deleted,
              updated_at |-> row.updated_at]]

\* The attributes set on the loaded task; only those that differ from what
\* was loaded end up in the UPDATE.
UpdateOf(op, row) ==
    LET new == [title |-> op.title,
                deleted |-> op.action = "delete" \/ op.deleted,
                updated_at |-> op.updated_at]
        named == IF op.action = "delete" THEN {"deleted"} ELSE op.fields
    IN  [task |-> op.id, insert |-> FALSE,
         fields |-> {f \in named : new[f] # row[f]}, row |-> new]

NewId(op) == IF op.id = NoId
             THEN {t \in GeneratedId : /\ ~ Exists(committed[t])
                                       /\ \A s \in Sessions : ~ Holds(s, t)}
             ELSE {op.id}

\* The row an UPDATE or INSERT leaves behind.
Patched(row, c) ==
    [title      |-> IF "title" \in c.fields THEN c.row.title ELSE row.title,
     deleted    |-> IF "deleted" \in c.fields THEN c.row.deleted ELSE row.deleted,
     updated_at |-> c.row.updated_at]

\* Flushes the database refuses: a primary key that exists, a null title.
Throws(s, c) ==
    \/ c.insert /\ (c.task \in Foreign \/ Exists(View(s, c.task)))
    \/ "title" \in c.fields /\ c.row.title = Null

---------------------------------------------------------------------------
(* Sessions *)

NoRows == [t \in TaskId |-> Absent]
NoChange(t) == [task |-> t, insert |-> FALSE, fields |-> {}, row |-> Absent]
SomeTask == CHOOSE t \in TaskId : TRUE

\* Mutant of Close: the rows stay locked.
CloseLocked(s) ==
    /\ pc' = [pc EXCEPT ![s] = "idle"]
    /\ UNCHANGED <<batch, todo, change, applied, own>>

\* The end of the request's session: what it did not commit is undone.
Close(s) ==
    /\ pc' = [pc EXCEPT ![s] = "idle"]
    /\ batch' = [batch EXCEPT ![s] = <<>>]
    /\ todo' = [todo EXCEPT ![s] = <<>>]
    /\ applied' = [applied EXCEPT ![s] = {}]
    /\ change' = [change EXCEPT ![s] = NoChange(SomeTask)]
    /\ own' = [own EXCEPT ![s] = NoRows]

Batches == UNION {[1 .. n -> Operations] : n \in 1 .. MaxOps}
Ops(ops) == {ops[i] : i \in DOMAIN ops}

\* A client sends edits it has no answer for, each once in the batch.  It may
\* have given up on an earlier request that is still being processed.
Submit(s, ops) ==
    /\ pc[s] = "idle"
    /\ Ops(ops) \cap answered = {}
    /\ \A i, j \in DOMAIN ops : i # j => ops[i] # ops[j]
    /\ pc' = [pc EXCEPT ![s] = "select"]
    /\ batch' = [batch EXCEPT ![s] = ops]
    /\ todo' = [todo EXCEPT ![s] = ops]
    /\ UNCHANGED <<database, change, applied, answered, failures, history>>

\* _process_task_operation up to the next await: an operation is refused, or
\* changes the loaded task, or adds a new one; the flush follows.
Select(s) ==
    /\ pc[s] = "select"
    /\ todo[s] # <<>>
    /\ LET op == Head(todo[s])
           row == Found(s, op.id)
       IN  \/ /\ Refused(row, op)
              /\ todo' = [todo EXCEPT ![s] = Tail(todo[s])]
              /\ UNCHANGED <<pc, change>>
           \/ /\ ~ Refused(row, op)
              /\ pc' = [pc EXCEPT ![s] = "flush"]
              /\ \/ /\ Exists(row)
                    /\ change' = [change EXCEPT ![s] = UpdateOf(op, row)]
                 \/ /\ ~ Exists(row)
                    /\ \E t \in NewId(op) :
                          change' = [change EXCEPT ![s] = InsertOf(op, t)]
              /\ UNCHANGED todo
    /\ UNCHANGED <<database, batch, applied, answered, failures, history>>

WaitsFor(s, u) == s # u /\ pc[s] = "flush" /\ Holds(u, change[s].task)

\* db.flush(): the change reaches the database.
Flush(s) ==
    /\ pc[s] = "flush"
    /\ \A u \in Sessions : ~ WaitsFor(s, u)
    /\ ~ Throws(s, change[s])
    /\ LET t == change[s].task
       IN  own' = [own EXCEPT ![s][t] = Patched(View(s, t), change[s])]
    /\ applied' = [applied EXCEPT ![s] = @ \cup {Head(todo[s])}]
    /\ todo' = [todo EXCEPT ![s] = Tail(todo[s])]
    /\ pc' = [pc EXCEPT ![s] = "select"]
    /\ change' = [change EXCEPT ![s] = NoChange(SomeTask)]
    /\ UNCHANGED <<committed, batch, answered, failures, history>>

\* db.flush() throws and with it the request.
FlushThrows(s) ==
    /\ pc[s] = "flush"
    /\ \A u \in Sessions : ~ WaitsFor(s, u)
    /\ Throws(s, change[s])
    /\ Close(s)
    /\ UNCHANGED <<committed, answered, failures, history>>

\* PostgreSQL aborts a transaction of a cycle of waiting ones.
DeadlockAborts(s) ==
    /\ \E C \in SUBSET Sessions :
          /\ s \in C
          /\ \A u \in C : \E v \in C : WaitsFor(u, v)
          /\ \A u \in C : \E v \in C : WaitsFor(v, u)
    /\ Close(s)
    /\ UNCHANGED <<committed, answered, failures, history>>

\* The process or the connection is lost before the commit.
Abort(s) ==
    /\ pc[s] # "idle"
    /\ failures < MaxFailures
    /\ failures' = failures + 1
    /\ Close(s)
    /\ UNCHANGED <<committed, answered, history>>

\* db.commit(), and the answer, which may get lost.
Commit(s) ==
    /\ pc[s] = "select"
    /\ todo[s] = <<>>
    /\ committed' = [t \in TaskId |-> View(s, t)]
    /\ stored' = stored \cup applied[s]
    /\ raced' = raced \cup {change[u].task : u \in {v \in Sessions :
                     /\ WaitsFor(v, s)
                     /\ ~ change[v].insert}}
    /\ \/ /\ answered' = answered \cup Ops(batch[s])
          /\ UNCHANGED failures
       \/ /\ failures < MaxFailures
          /\ failures' = failures + 1
          /\ UNCHANGED answered
    /\ Close(s)

Init ==
    /\ committed = NoRows
    /\ pc = [s \in Sessions |-> "idle"]
    /\ batch = [s \in Sessions |-> <<>>]
    /\ todo = [s \in Sessions |-> <<>>]
    /\ own = [s \in Sessions |-> NoRows]
    /\ change = [s \in Sessions |-> NoChange(SomeTask)]
    /\ applied = [s \in Sessions |-> {}]
    /\ answered = {}
    /\ failures = 0
    /\ stored = {}
    /\ raced = {}

Step(s) == Select(s) \/ Flush(s) \/ FlushThrows(s) \/ Commit(s)

Next == \E s \in Sessions :
    \/ \E ops \in Batches : Submit(s, ops)
    \/ Step(s)
    \/ DeadlockAborts(s)
    \/ Abort(s)

Spec == Init /\ [][Next]_vars

\* The event loop runs every request on; the database resolves deadlocks and
\* serves the transactions that wait for a row in the order they came.
Fairness ==
    \A s \in Sessions : /\ WF_vars(Step(s))
                        /\ SF_vars(Flush(s) \/ FlushThrows(s))
                        /\ WF_vars(DeadlockAborts(s))

FairSpec == Spec /\ Fairness

---------------------------------------------------------------------------
(* Properties *)

\* Every variable has its type, and a session that flushes has an operation.
TypeOK ==
    /\ \A s \in Sessions : pc[s] = "flush" => todo[s] # <<>>
    /\ committed \in [TaskId -> Row]
    /\ pc \in [Sessions -> {"idle", "select", "flush"}]
    /\ batch \in [Sessions -> Seq(Operations)]
    /\ todo \in [Sessions -> Seq(Operations)]
    /\ own \in [Sessions -> [TaskId -> Row]]
    /\ change \in [Sessions -> Change]
    /\ applied \in [Sessions -> SUBSET Operations]
    /\ answered \subseteq Operations
    /\ failures \in 0 .. MaxFailures
    /\ stored \subseteq Operations
    /\ raced \subseteq TaskId

\* A committed task goes back to an older version only if another batch
\* committed it between the SELECT and the flush of the batch that does it
\* (_apply_task_upsert and _apply_task_delete compare stamps with what they
\* loaded, not with what they overwrite).
RegressesOnlyIfRaced ==
    [][\A t \in TaskId \ raced :
          committed'[t].updated_at >= committed[t].updated_at]_vars

\* Whether a row shows what an operation wrote.
Shows(row, op) ==
    /\ row.updated_at = op.updated_at
    /\ op.action = "delete" => row.deleted
    /\ op.action = "upsert" /\ "title" \in op.fields => row.title = op.title
    /\ op.action = "upsert" /\ "deleted" \in op.fields => row.deleted = op.deleted

\* Without such a race a task shows the newest of the operations on it that
\* were reported as applied, in whatever order and batches they arrived.
NewestApplied ==
    \A t \in ClientId \ raced :
        LET ops == {op \in stored : op.id = t}
        IN  IF ops = {} THEN ~ Exists(committed[t])
            ELSE \E op \in ops : /\ Shows(committed[t], op)
                                 /\ \A o \in ops : o.updated_at <= op.updated_at

\* Every batch ends: sessions that wait for each other's rows, and a request
\* that throws, do not stay open (get_db closes the session).
BatchesEnd == \A s \in Sessions : pc[s] # "idle" ~> pc[s] = "idle"

\* The rows of the user's client-made ids as LastWriteWins keeps them.
Kept == ClientId \ Foreign
LWW == INSTANCE LastWriteWins
           WITH TaskId <- Kept, store <- [t \in Kept |-> committed[t]]

\* With one batch open at a time, every commit changes the rows as a sequence
\* of writes changes a store in which the newest write wins: although the
\* batch is read and flushed operation by operation, and whether batches
\* fail half-way, are repeated or hold operations that are refused.
LastWriteWinsSpec == LWW!Spec
============================================================================
