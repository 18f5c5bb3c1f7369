----------------------------- MODULE SyncQueue -----------------------------
(***************************************************************************)
(* The background worker's process_sync_queue: a pass selects operations   *)
(* that wait in the sync_operations table, hands each one to batch sync,   *)
(* marks it and commits everything at the end.                             *)
(*                                                                         *)
(* Passes may overlap: each runs in a process and a session of its own.    *)
(* The database is PostgreSQL at READ COMMITTED, as in BatchSync: what a   *)
(* pass flushed is invisible to others until its commit and lost if the    *)
(* pass fails, an UPDATE waits for the session that holds the row and      *)
(* names only the columns that differ from what was loaded.                *)
(*                                                                         *)
(* What batch sync does with a payload is abstracted to its outcome:       *)
(*   "applies"    it is applied, or skipped because a newer version exists *)
(*   "refused"    a result with status error or unsupported                *)
(*   "throws"     it throws in the handler (a payload that is not valid, a *)
(*                due_at, which JSON gives as text)                        *)
(*   "breaks"     a statement of it fails in the database (a primary key   *)
(*                of another user's task, a title that is too long), after *)
(*                which the session refuses everything                     *)
(***************************************************************************)
EXTENDS Naturals, Sequences, FiniteSets

CONSTANTS
    Workers,       \* passes that may run at the same time
    Operation,     \* rows of sync_operations
    Payloads,      \* what batch sync may do with the payload of each
    Later,         \* operations stored to be carried out later
    BatchSize,     \* SYNC_QUEUE_BATCH_SIZE
    MaxCount,      \* bound: attempts and executions are counted up to it
    MaxCrashes     \* bound on passes that lose their process or connection

ASSUME SyncQueueAssumption ==
    /\ IsFiniteSet(Operation)
    /\ Payloads \subseteq [Operation -> {"applies", "refused", "throws", "breaks"}]
    /\ Later \subseteq Operation
    /\ BatchSize \in Nat \ {0}
    /\ MaxCount \in Nat
    /\ MaxCrashes \in Nat

VARIABLES
    outcome,       \* what it does with them; it never changes
    queue,         \* the rows as committed
    scheduled,     \* rows whose `scheduled_at' is still to come
    pc,            \* per worker: "idle", "take" or "run"
    ops,           \* the operations of the pass still to be processed
    loaded,        \* the rows as the pass selected them
    held,          \* the rows it has updated and keeps locked
    locked,        \* those whose `locked' attribute is set
    recent,        \* those whose `updated_at' is within the retry period
    result,        \* the status it gave to each row
    crashes,
    (* history *)
    runs,          \* how often an operation was carried out and committed
    overlapped     \* operations a pass selected while another one had them

pass == <<pc, ops, loaded, held, locked, recent, result>>
history == <<runs, overlapped>>
vars == <<outcome, queue, scheduled, pass, crashes, history>>

---------------------------------------------------------------------------
SyncOperation ==
    [status : {"pending", "done", "error"}, attempts : Nat,
     locked : BOOLEAN, recent : BOOLEAN]

Fresh == [status |-> "pending", attempts |-> 0, locked |-> FALSE, recent |-> TRUE]

\* Mutant of Waiting: the retry period is compared the wrong way round.
WaitingRecent(r) ==
    /\ queue[r].status \in {"pending", "error"}
    /\ r \notin scheduled
    /\ ~ queue[r].locked
    /\ queue[r].recent

Waiting(r) ==
    /\ queue[r].status \in {"pending", "error"}
    /\ r \notin scheduled
    /\ ~ queue[r].locked
    /\ ~ queue[r].recent

\* The operations of a pass, processed or not.
Selected(w) == {ops[w][i] : i \in DOMAIN ops[w]} \cup held[w]

\* Up to BatchSize waiting rows, any of them and in any order: the query has
\* a LIMIT and no ORDER BY.  However often a row has thrown, it is selected
\* again.
Selections ==
    LET due == {r \in Operation : Waiting(r)}
        size == IF Cardinality(due) < BatchSize THEN Cardinality(due) ELSE BatchSize
    IN  {q \in [1 .. size -> due] : \A i, j \in 1 .. size : i # j => q[i] # q[j]}

NoResult == [r \in Operation |-> "none"]

\* The end of a pass and of its session.
Leave(w) ==
    /\ pc' = [pc EXCEPT ![w] = "idle"]
    /\ ops' = [ops EXCEPT ![w] = <<>>]
    /\ loaded' = [loaded EXCEPT ![w] = [r \in Operation |-> Fresh]]
    /\ held' = [held EXCEPT ![w] = {}]
    /\ locked' = [locked EXCEPT ![w] = {}]
    /\ recent' = [recent EXCEPT ![w] = {}]
    /\ result' = [result EXCEPT ![w] = NoResult]

\* The SELECT.
Begin(w) ==
    /\ pc[w] = "idle"
    /\ \E selection \in Selections :
          /\ selection # <<>>
          /\ ops' = [ops EXCEPT ![w] = selection]
          /\ overlapped' = overlapped \cup
                {r \in Operation : /\ \E i \in DOMAIN selection : selection[i] = r
                                   /\ \E u \in Workers : r \in Selected(u)}
    /\ pc' = [pc EXCEPT ![w] = "take"]
    /\ loaded' = [loaded EXCEPT ![w] = queue]
    /\ UNCHANGED <<outcome, queue, scheduled, held, locked, recent, result, crashes, runs>>

WaitsFor(w, u) ==
    w # u /\ pc[w] = "take" /\ ops[w] # <<>> /\ Head(ops[w]) \in held[u]

\* op.locked = True, op.updated_at = now and the flush.
Take(w) ==
    /\ pc[w] = "take"
    /\ ops[w] # <<>>
    /\ \A u \in Workers : ~ WaitsFor(w, u)
    /\ LET r == Head(ops[w])
       IN  /\ held' = [held EXCEPT ![w] = @ \cup {r}]
           /\ locked' = [locked EXCEPT ![w] = @ \cup {r}]
           /\ recent' = [recent EXCEPT ![w] = @ \cup {r}]
    /\ pc' = [pc EXCEPT ![w] = "run"]
    /\ UNCHANGED <<outcome, queue, scheduled, ops, loaded, result, crashes, history>>

\* Mutant of Finish: the row is only unlocked after a success.
FinishLocked(w, r, status) ==
    /\ result' = [result EXCEPT ![w][r] = status]
    /\ locked' = [locked EXCEPT ![w] =
                    IF status = "done" THEN @ \ {r} ELSE @]
    /\ recent' = [recent EXCEPT ![w] = @ \cup {r}]

\* The status and the finally block.
Finish(w, r, status) ==
    /\ result' = [result EXCEPT ![w][r] = status]
    /\ locked' = [locked EXCEPT ![w] = @ \ {r}]
    /\ recent' = [recent EXCEPT ![w] = @ \cup {r}]

\* The status of an operation that does not break the session: the results
\* of process_batch_operations are not looked at, only exceptions count.
StatusAfter(r) ==
    IF outcome[r] \in {"applies", "refused"} THEN "done" ELSE "error"

\* Mutant of Run: the loop goes on without locking the next row.
RunOn(w) ==
    /\ pc[w] = "run"
    /\ LET r == Head(ops[w])
       IN  /\ outcome[r] # "breaks"
           /\ Finish(w, r, StatusAfter(r))
    /\ ops' = [ops EXCEPT ![w] = Tail(ops[w])]
    /\ UNCHANGED <<outcome, queue, scheduled, pc, loaded, held, crashes, history>>

\* The call of process_batch_operations returns or throws.
Run(w) ==
    /\ pc[w] = "run"
    /\ LET r == Head(ops[w])
       IN  /\ outcome[r] # "breaks"
           /\ Finish(w, r, StatusAfter(r))
    /\ ops' = [ops EXCEPT ![w] = Tail(ops[w])]
    /\ pc' = [pc EXCEPT ![w] = "take"]
    /\ UNCHANGED <<outcome, queue, scheduled, loaded, held, crashes, history>>

\* Its database error is caught, but the next use of the session, still in
\* the except block, throws again and ends the pass.
Breaks(w) ==
    /\ pc[w] = "run"
    /\ outcome[Head(ops[w])] = "breaks"
    /\ Leave(w)
    /\ UNCHANGED <<outcome, queue, scheduled, crashes, history>>

\* One more, up to the bound.
OneMore(n) == IF n < MaxCount THEN n + 1 ELSE n

\* Mutant of Saved: an attempt that throws is not counted.
SavedUncounted(w, r) ==
    [status   |-> result[w][r],
     attempts |-> IF result[w][r] = "done" THEN OneMore(loaded[w][r].attempts)
                  ELSE loaded[w][r].attempts,
     locked   |-> r \in locked[w],
     recent   |-> r \in recent[w]]

\* The row the pass leaves behind.
Saved(w, r) ==
    [status   |-> IF result[w][r] # loaded[w][r].status THEN result[w][r]
                  ELSE queue[r].status,
     attempts |-> OneMore(loaded[w][r].attempts),
     locked   |-> r \in locked[w],
     recent   |-> r \in recent[w]]

\* The loop is done: db.commit().
Commit(w) ==
    /\ pc[w] = "take"
    /\ ops[w] = <<>>
    /\ queue' = [r \in Operation |-> IF r \in held[w] THEN Saved(w, r) ELSE queue[r]]
    /\ runs' = [r \in Operation |-> IF r \in held[w] THEN OneMore(runs[r]) ELSE runs[r]]
    /\ Leave(w)
    /\ UNCHANGED <<outcome, scheduled, crashes, overlapped>>

\* PostgreSQL aborts a pass of a cycle of waiting ones; the flush throws.
DeadlockAborts(w) ==
    /\ \E C \in SUBSET Workers :
          /\ w \in C
          /\ \A u \in C : \E v \in C : WaitsFor(u, v)
          /\ \A u \in C : \E v \in C : WaitsFor(v, u)
    /\ Leave(w)
    /\ UNCHANGED <<outcome, queue, scheduled, crashes, history>>

Crash(w) ==
    /\ pc[w] # "idle"
    /\ crashes < MaxCrashes
    /\ crashes' = crashes + 1
    /\ Leave(w)
    /\ UNCHANGED <<outcome, queue, scheduled, history>>

Aged(row) == [status |-> row.status, attempts |-> row.attempts,
              locked |-> row.locked, recent |-> FALSE]

\* SYNC_RETRY_MINUTES pass.
Tick ==
    /\ queue' = [r \in Operation |-> Aged(queue[r])]
    /\ recent' = [w \in Workers |-> {}]
    /\ UNCHANGED <<outcome, scheduled, pc, ops, loaded, held, locked, result, crashes, history>>

\* The time an operation is scheduled for comes.
ComesDue ==
    /\ \E r \in scheduled : scheduled' = scheduled \ {r}
    /\ UNCHANGED <<outcome, queue, pass, crashes, history>>

Init ==
    /\ outcome \in Payloads
    /\ queue = [r \in Operation |-> Fresh]
    /\ scheduled = Later
    /\ pc = [w \in Workers |-> "idle"]
    /\ ops = [w \in Workers |-> <<>>]
    /\ loaded = [w \in Workers |-> [r \in Operation |-> Fresh]]
    /\ held = [w \in Workers |-> {}]
    /\ locked = [w \in Workers |-> {}]
    /\ recent = [w \in Workers |-> {}]
    /\ result = [w \in Workers |-> NoResult]
    /\ crashes = 0
    /\ runs = [r \in Operation |-> 0]
    /\ overlapped = {}

Step(w) == Take(w) \/ Run(w) \/ Breaks(w) \/ Commit(w)

Next == \/ Tick \/ ComesDue
        \/ \E w \in Workers : Begin(w) \/ Step(w) \/ DeadlockAborts(w) \/ Crash(w)

Spec == Init /\ [][Next]_vars

\* Passes are started again and again and run on, time passes, the database
\* resolves deadlocks and serves those who wait for a row in their order.
Fairness ==
    /\ WF_vars(Tick) /\ WF_vars(ComesDue)
    /\ \A w \in Workers : /\ WF_vars(Begin(w))
                          /\ WF_vars(Step(w))
                          /\ SF_vars(Take(w))
                          /\ WF_vars(DeadlockAborts(w))

FairSpec == Spec /\ Fairness

---------------------------------------------------------------------------
(* Properties *)

\* Every variable has its type, and a pass that runs an operation has one.
TypeOK ==
    /\ outcome \in Payloads
    /\ queue \in [Operation -> SyncOperation]
    /\ scheduled \subseteq Operation
    /\ pc \in [Workers -> {"idle", "take", "run"}]
    /\ ops \in [Workers -> Seq(Operation)]
    /\ loaded \in [Workers -> [Operation -> SyncOperation]]
    /\ held \in [Workers -> SUBSET Operation]
    /\ locked \in [Workers -> SUBSET Operation]
    /\ recent \in [Workers -> SUBSET Operation]
    /\ result \in [Workers -> [Operation -> {"none", "done", "error"}]]
    /\ crashes \in 0 .. MaxCrashes
    /\ runs \in [Operation -> Nat]
    /\ overlapped \subseteq Operation
    /\ \A w \in Workers : pc[w] = "run" => ops[w] # <<>>

\* No row stays locked, whatever passes fail where: `locked' is only ever set
\* inside a transaction (and therefore keeps no other pass away).
NoRowStaysLocked == \A r \in Operation : ~ queue[r].locked

\* `attempts' counts the times an operation was carried out, one that throws
\* included, and one that does not throw is carried out once - unless two
\* passes selected the operation at the same time.
CountedAndRunOnce ==
    \A r \in Operation \ overlapped :
        /\ queue[r].attempts = runs[r]
        /\ StatusAfter(r) = "done" => runs[r] <= 1

\* An operation that batch sync can carry out is carried out eventually,
\* however often others throw and are selected again.  It may wait for ever
\* for three reasons: a row that breaks the session undoes every pass it is
\* selected in; BatchSize rows that always throw may fill every pass, because
\* the query has a LIMIT, no ORDER BY and no bound on attempts; overlapping
\* passes may deadlock again and again, because they lock rows in any order.
FineOperationsGetDone ==
    \/ []<><<\E w \in Workers : DeadlockAborts(w)>>_vars
    \/ \E r \in Operation : outcome[r] = "breaks"
    \/ Cardinality({r \in Operation : outcome[r] = "throws"}) >= BatchSize
    \/ \A r \in Operation : outcome[r] = "applies" => <>(queue[r].status = "done")
============================================================================
