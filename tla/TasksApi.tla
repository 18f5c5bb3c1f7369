------------------------------ MODULE TasksApi ------------------------------
(***************************************************************************)
(* The REST handlers of tasks and subtasks, and the walk of a client over  *)
(* a list that is served page by page.                                     *)
(*                                                                         *)
(* One table is looked at at a time.  Rows of "tasks" and "subtasks" are   *)
(* changed by the PATCH handlers (and subtasks created), and by other      *)
(* writers (batch sync, planner decisions); rows of the other tables by    *)
(* other writers only.  All their repositories page in the same way.       *)
(*                                                                         *)
(* A handler may be interleaved at every await; PostgreSQL is at READ      *)
(* COMMITTED: an UPDATE waits for the request that has written the row,    *)
(* an INSERT of a key for the request that has inserted the same one.      *)
(* updated_at is a number.  Handlers take it from the clock, so that no    *)
(* two of their writes share one; a client's batch may bring any time.     *)
(*                                                                         *)
(* A client sends back the cursor it was given (one that cannot be parsed  *)
(* would be ignored, and the first page answered again).                   *)
(***************************************************************************)
EXTENDS Integers, FiniteSets

CONSTANTS
    Row,           \* ids of rows
    IdOrder,       \* the order of ids, which the ORDER BY ends with
    AttributeOf,   \* the column a list can be filtered by (status, account...)
    Requests,      \* requests that change something, each carried out at most once
    Offsets,       \* offsets from UTC in which clients write times
    KeyChoices,    \* what keys (request_id or X-Idempotency-Key) they may have
    Stores,        \* bound: the tables and rows to begin with
    Filters,       \* bound: limits and filters of the list
    MaxNow,        \* bound on the clock, and on the clocks of clients
    MaxWrites,     \* bound on writes of others
    None

Tables == {"tasks", "subtasks", "goals", "inbox_items", "calendar_events",
           "finance_accounts", "finance_transactions", "notifications", "reminders"}

ASSUME TasksApiAssumption ==
    /\ IsFiniteSet(Row)
    /\ IdOrder \in [Row -> Nat]
    /\ \A q, r \in Row : IdOrder[q] = IdOrder[r] => q = r
    /\ DOMAIN AttributeOf = Row
    /\ Offsets \subseteq Int
    /\ \A k \in KeyChoices : DOMAIN k = Requests
    /\ \A s \in Stores : /\ s.table \in Tables
                         /\ s.rows \in [Row -> [state : {"absent", "live", "deleted"},
                                                stamp : 0 .. MaxNow]]
    /\ \A f \in Filters : f.limit \in Nat \ {0} /\ f.since \in Nat
    /\ MaxNow \in Nat /\ MaxNow >= 2 /\ MaxWrites \in Nat
    /\ None \notin Nat \cup Row \cup Requests

VARIABLES
    table, filter, keyOf,      \* fixed
    rows,          \* the table, as committed
    parent,        \* whether the task of the subtasks is live, as committed
    now,
    keys,          \* requests whose key is committed
    pc, local,     \* of each request
    cursor,        \* next_cursor: None at first, then the stamp it names
    walk,          \* "on", "done" or "failed"
    writes,        \* how often others have written
    (* history *)
    returned,      \* how often the walk was shown a row, counted up to twice
    unmoved,       \* rows that were not written since the walk began
    tied,          \* rows that have had the stamp of another row
    lowered,       \* rows that a write has given an older stamp
    overwrote,     \* request -> the row its UPDATE replaced
    raced          \* requests whose row was written between their SELECT and UPDATE

fixed == <<table, filter, keyOf>>
walking == <<cursor, walk, returned>>
history == <<unmoved, tied, lowered, overwrote, raced>>
vars == <<fixed, rows, parent, now, keys, pc, local, walking, writes, history>>

---------------------------------------------------------------------------
Blank == [kind |-> "none", target |-> None, expected |-> None, offset |-> 0, stamp |-> 0]

Claimed(r) == pc[r] \in {"load", "update", "post", "parent", "insert", "commit"}
Live(r) == pc[r] = "claim" \/ Claimed(r)

\* Keys are unique per method and path: a PATCH names its row, a POST does not.
SameKey(r, u) ==
    /\ keyOf[r] = keyOf[u]
    /\ local[r].kind = local[u].kind
    /\ local[r].kind = "patch" => local[r].target = local[u].target

Locked(t) == \E u \in Requests : pc[u] = "commit" /\ local[u].target = t

Ties(new) == {r \in Row : \E q \in Row \ {r} : new[q].stamp = new[r].stamp}

\* A committed write of row t, and who loses by it.
Written(t, row) ==
    /\ rows' = [rows EXCEPT ![t] = row]
    /\ unmoved' = unmoved \ {t}
    /\ tied' = tied \cup Ties(rows')
    /\ lowered' = IF row.stamp < rows[t].stamp THEN lowered \cup {t} ELSE lowered

Leave(r) ==
    /\ pc' = [pc EXCEPT ![r] = "done"]
    /\ UNCHANGED <<fixed, rows, parent, now, keys, local, walking, writes, history>>

Begin(r, kind, t, expected, offset) ==
    /\ pc[r] = "idle"
    /\ pc' = [pc EXCEPT ![r] = "claim"]
    /\ local' = [local EXCEPT ![r] = [kind |-> kind, target |-> t, expected |-> expected,
                                      offset |-> offset, stamp |-> 0]]
    /\ UNCHANGED <<fixed, rows, parent, now, keys, walking, writes, history>>

\* A client patches a row as it knows it, with the updated_at it has been shown,
\* written in some time zone, or with none: the field is optional.
BeginPatch(r) ==
    /\ table \in {"tasks", "subtasks"}
    /\ \E t \in Row :
          /\ rows[t].state # "absent"
          /\ \/ Begin(r, "patch", t, None, 0)
             \/ \E offset \in Offsets : Begin(r, "patch", t, rows[t].stamp, offset)

BeginCreate(r) == table = "subtasks" /\ Begin(r, "create", None, None, 0)

BeginPost(r) == table \in {"tasks", "reminders"} /\ Begin(r, "post", None, None, 0)

\* Mutant of EnforceIdempotency: only requests in flight count.
EnforceInFlight(r) == \A u \in Requests \ {r} : Claimed(u) => ~ SameKey(r, u)

EnforceIdempotency(r) ==
    /\ \A u \in Requests \ {r} : Claimed(u) => ~ SameKey(r, u)
    /\ \A u \in keys : ~ SameKey(r, u)

Claim(r) ==
    /\ pc[r] = "claim"
    /\ EnforceIdempotency(r)
    /\ pc' = [pc EXCEPT ![r] = CASE local[r].kind = "patch" -> "load"
                                 [] local[r].kind = "create" -> "parent"
                                 [] local[r].kind = "post" -> "post"]
    /\ UNCHANGED <<fixed, rows, parent, now, keys, local, walking, writes, history>>

\* 409: the key was committed before.
Duplicate(r) ==
    /\ pc[r] = "claim"
    /\ \E u \in keys : SameKey(r, u)
    /\ Leave(r)

---------------------------------------------------------------------------
(* PATCH *)

\* Mutant of Expected: the expectation is not compared.
ExpectedAny(r) == TRUE

\* The row is the one the client expects, if it says which.  replace(tzinfo=utc)
\* relabels its time instead of converting it: the offset stays in.
Expected(r) ==
    local[r].expected # None =>
        rows[local[r].target].stamp = local[r].expected + local[r].offset

\* The SELECT of the row, the 404, and the 409 of an unexpected updated_at;
\* both roll the key back.
Load(r) ==
    /\ pc[r] = "load"
    /\ IF rows[local[r].target].state = "live" /\ Expected(r)
       THEN /\ pc' = [pc EXCEPT ![r] = "update"]
            /\ UNCHANGED <<fixed, rows, parent, now, keys, local, walking, writes, history>>
       ELSE Leave(r)

PatchTask(r) == table = "tasks" /\ Load(r)
PatchSubtask(r) == table = "subtasks" /\ Load(r)

\* The UPDATE: it names the row by its id only.
Update(r) ==
    /\ pc[r] = "update"
    /\ ~ Locked(local[r].target)
    /\ now < MaxNow
    /\ now' = now + 1
    /\ local' = [local EXCEPT ![r].stamp = now + 1]
    /\ overwrote' = [overwrote EXCEPT ![r] = rows[local[r].target]]
    /\ pc' = [pc EXCEPT ![r] = "commit"]
    /\ UNCHANGED <<fixed, rows, parent, keys, walking, writes, unmoved, tied, lowered, raced>>

UpdateTask(r) == table = "tasks" /\ Update(r)
UpdateSubtask(r) == table = "subtasks" /\ Update(r)

\* What others have done to the row of those that have read it and not written.
Races(r, t) == {u \in Requests \ {r} : pc[u] = "update" /\ local[u].target = t}

CommitPatch(r) ==
    /\ pc[r] = "commit"
    /\ local[r].kind = "patch"
    /\ LET t == local[r].target
       IN  /\ Written(t, [state |-> rows[t].state, stamp |-> local[r].stamp])
           /\ raced' = raced \cup Races(r, t)
    /\ keys' = keys \cup {r}
    /\ pc' = [pc EXCEPT ![r] = "committed"]
    /\ UNCHANGED <<fixed, parent, now, local, walking, writes, overwrote>>

---------------------------------------------------------------------------
(* POST *)

\* create_for_task: the parent task is looked up.
CreateForTask(r) ==
    /\ pc[r] = "parent"
    /\ IF parent
       THEN /\ pc' = [pc EXCEPT ![r] = "insert"]
            /\ UNCHANGED <<fixed, rows, parent, now, keys, local, walking, writes, history>>
       ELSE Leave(r)

\* create_subtask: the INSERT of a new id.
CreateSubtask(r) ==
    /\ pc[r] = "insert"
    /\ now < MaxNow
    /\ \E t \in Row :
          /\ rows[t].state = "absent"
          /\ ~ Locked(t)
          /\ local' = [local EXCEPT ![r].target = t, ![r].stamp = now + 1]
    /\ now' = now + 1
    /\ pc' = [pc EXCEPT ![r] = "commit"]
    /\ UNCHANGED <<fixed, rows, parent, keys, walking, writes, history>>

CommitCreate(r) ==
    /\ pc[r] = "commit"
    /\ local[r].kind = "create"
    /\ Written(local[r].target, [state |-> "live", stamp |-> local[r].stamp])
    /\ keys' = keys \cup {r}
    /\ pc' = [pc EXCEPT ![r] = "committed"]
    /\ UNCHANGED <<fixed, parent, now, local, walking, writes, overwrote, raced>>

\* post_task ends with 500 and rolls its key back: SQLTaskRepository.save calls
\* tasks_repo.create, which does not exist.
PostTask(r) == table = "tasks" /\ pc[r] = "post" /\ Leave(r)

\* So do these: they use names that tasks.py does not import (select, Task).
DeleteTask(r) == pc[r] = "idle" /\ table = "tasks" /\ Leave(r)

\* Its key, too, is claimed and rolled back.
CreateTaskReminder(r) == table = "reminders" /\ pc[r] = "post" /\ Leave(r)

---------------------------------------------------------------------------
(* Lists *)

Later(q, r) ==
    \/ rows[q].stamp > rows[r].stamp
    \/ rows[q].stamp = rows[r].stamp /\ IdOrder[q] > IdOrder[r]

Found == {r \in Row : rows[r].state = "live"}
FoundSince == {r \in Found : rows[r].stamp >= filter.since}
Matching(S) == {r \in S : filter.attribute \in {None, AttributeOf[r]}}

\* Mutant of Beyond: the row of the cursor is included.
BeyondIncluded(S) == {r \in S : cursor = None \/ rows[r].stamp <= cursor}

\* `(updated_at, id) < (ts, cid)' is a comparison of Python tuples; their first
\* elements differ, so it comes to `updated_at < ts' and the id is not used.
Beyond(S) == {r \in S : cursor = None \/ rows[r].stamp < cursor}

\* The page that is answered, and the cursor that goes with it.
Answer(S) ==
    LET rest == Beyond(S)
        page == {r \in rest : Cardinality({q \in rest : Later(q, r)}) < filter.limit}
        last == CHOOSE r \in page : \A q \in page \ {r} : Later(q, r)
    IN  /\ returned' = [r \in Row |-> returned[r] + (IF r \in page /\ returned[r] < 2 THEN 1 ELSE 0)]
        /\ IF page # rest THEN cursor' = rows[last].stamp /\ UNCHANGED walk
           ELSE walk' = "done" /\ UNCHANGED cursor

ListTasks == Answer(Matching(Found))
ListSubtasks == Answer(Found)

Fails == walk' = "failed" /\ UNCHANGED <<cursor, returned>>

Asking(t) ==
    /\ walk = "on"
    /\ table = t
    /\ UNCHANGED <<fixed, rows, parent, now, keys, pc, local, writes, history>>

GetTasks == Asking("tasks") /\ ListTasks

GetSubtasks == Asking("subtasks") /\ (IF parent THEN ListSubtasks ELSE Fails)

\* The models of notifications and digests have no `deleted' column:
\* get_task_reminders fails before it lists anything.
ListForEntity == Fails
GetTaskReminders == Asking("reminders") /\ ListForEntity

\* The repositories that no handler calls yet.
ListGoals == Asking("goals") /\ Answer(FoundSince)
ListInbox == Asking("inbox_items") /\ Answer(FoundSince)
ListEvents == Asking("calendar_events") /\ Answer(Matching(FoundSince))
ListAccounts == Asking("finance_accounts") /\ Answer(FoundSince)
ListTransactions == Asking("finance_transactions") /\ Answer(Matching(FoundSince))
ListTriggers == Asking("notifications") /\ Fails

---------------------------------------------------------------------------
\* A batch of a client (or another writer) changes, deletes or inserts a row.  It
\* brings a time of its own, ahead of the clock where the client's is, and not
\* always newer than the row's: the rows it compared with may have changed since.
OthersWrite ==
    /\ writes < MaxWrites
    /\ writes' = writes + 1
    /\ \E t \in Row, state \in {"live", "deleted"}, stamp \in 0 .. MaxNow :
          /\ ~ Locked(t)
          /\ rows[t].state = "absent" => state = "live"
          /\ Written(t, [state |-> state, stamp |-> stamp])
          /\ raced' = raced \cup Races(None, t)
    /\ UNCHANGED <<fixed, parent, now, keys, pc, local, walking, overwrote>>

\* A batch deletes the task of the subtasks.
DeleteParent ==
    /\ table = "subtasks"
    /\ parent
    /\ parent' = FALSE
    /\ UNCHANGED <<fixed, rows, now, keys, pc, local, walking, writes, history>>

Init ==
    /\ \E s \in Stores : table = s.table /\ rows = s.rows
    /\ filter \in Filters
    /\ keyOf \in KeyChoices
    /\ parent = TRUE
    /\ now = MaxNow - 2
    /\ keys = {}
    /\ pc = [r \in Requests |-> "idle"]
    /\ local = [r \in Requests |-> Blank]
    /\ cursor = None /\ walk = "on"
    /\ writes = 0
    /\ returned = [r \in Row |-> 0]
    /\ unmoved = {r \in Row : rows[r].state = "live"}
    /\ tied = Ties(rows)
    /\ overwrote = [r \in Requests |-> [state |-> "absent", stamp |-> 0]]
    /\ lowered = {} /\ raced = {}

Step(r) ==
    \/ Claim(r) \/ Duplicate(r)
    \/ PatchTask(r) \/ PatchSubtask(r) \/ UpdateTask(r) \/ UpdateSubtask(r)
    \/ CommitPatch(r) \/ CreateForTask(r) \/ CreateSubtask(r) \/ CommitCreate(r)
    \/ PostTask(r) \/ CreateTaskReminder(r)

AskPage ==
    \/ GetTasks \/ GetSubtasks \/ GetTaskReminders
    \/ ListGoals \/ ListInbox \/ ListEvents \/ ListAccounts \/ ListTransactions
    \/ ListTriggers

Next ==
    \/ \E r \in Requests : \/ BeginPatch(r) \/ BeginCreate(r) \/ BeginPost(r)
                           \/ DeleteTask(r) \/ Step(r)
    \/ AskPage \/ OthersWrite \/ DeleteParent

Spec == Init /\ [][Next]_vars

---------------------------------------------------------------------------
(* Properties *)

RowVersion == [state : {"absent", "live", "deleted"}, stamp : 0 .. MaxNow]

\* Every variable has its type, a request is where one of its kind can be, and
\* no two requests hold one row.
TypeOK ==
    /\ table \in Tables /\ filter \in Filters /\ keyOf \in KeyChoices
    /\ rows \in [Row -> RowVersion]
    /\ parent \in BOOLEAN
    /\ now \in 0 .. MaxNow
    /\ keys \subseteq Requests
    /\ pc \in [Requests -> {"idle", "claim", "load", "update", "post", "parent", "insert",
                            "commit", "committed", "done"}]
    /\ local \in [Requests -> [kind : {"none", "patch", "create", "post"},
                               target : Row \cup {None},
                               expected : 0 .. MaxNow \cup {None},
                               offset : Offsets \cup {0}, stamp : 0 .. MaxNow]]
    /\ cursor \in 0 .. MaxNow \cup {None}
    /\ walk \in {"on", "done", "failed"}
    /\ writes \in 0 .. MaxWrites
    /\ returned \in [Row -> 0 .. 2]
    /\ unmoved \subseteq Row /\ tied \subseteq Row /\ lowered \subseteq Row
    /\ overwrote \in [Requests -> RowVersion]
    /\ raced \subseteq Requests
    /\ \A r \in Requests :
          /\ pc[r] \in {"load", "update"} => local[r].kind = "patch"
          /\ pc[r] \in {"parent", "insert"} => local[r].kind = "create"
          /\ pc[r] \in {"commit", "committed"} =>
                local[r].kind \in {"patch", "create"} /\ local[r].target \in Row
          /\ IF pc[r] = "idle" THEN local[r] = Blank
             ELSE local[r].kind = "patch" => local[r].target \in Row
          /\ pc[r] \notin {"idle", "done"} => local[r].kind # "none"
    /\ \A r, u \in Requests : /\ r # u /\ pc[r] = "commit" /\ pc[u] = "commit"
                              => local[r].target # local[u].target

\* Optimistic locking: a patch replaces a live row, and the very version its
\* client has seen - unless the client did not say which, or wrote its time with
\* an offset from UTC (which the code drops), or another write came between its
\* SELECT and UPDATE (the UPDATE does not repeat the comparison).
OverwritesTheExpected ==
    \A r \in Requests \ raced :
        pc[r] = "committed" /\ local[r].kind = "patch" =>
            /\ overwrote[r].state = "live"
            /\ local[r].expected # None /\ local[r].offset = 0 =>
                  overwrote[r].stamp = local[r].expected

\* A request is carried out once: of two with one key for the same method and
\* path one is committed, also when they run at the same time.
CarriedOutOnce ==
    \A r, u \in keys : r # u => ~ SameKey(r, u)

Wanted ==
    CASE table = "tasks" -> Matching(Found)
      [] table = "subtasks" -> Found
      [] table \in {"calendar_events", "finance_transactions"} -> Matching(FoundSince)
      [] OTHER -> FoundSince

\* A walk is shown no row twice, whatever is written meanwhile - unless the write
\* gave it an older updated_at (one that was ahead of the clock, or a batch whose
\* time is behind) -, and one that was finished has been shown every row that
\* matches and was not written since it began - unless the row shared its
\* updated_at with another.
WalkIsExact ==
    /\ \A r \in Row \ lowered : returned[r] <= 1
    /\ walk = "done" => \A r \in (unmoved \cap Wanted) \ tied : returned[r] = 1
============================================================================
