---------------------------- MODULE Productivity ----------------------------
(***************************************************************************)
(* The handlers of /productivity, of the AI rules and of the subscription, *)
(* for the rows of one user in one table at a time, and a client that      *)
(* keeps a copy of a list by asking for what was updated since it asked    *)
(* last.                                                                   *)
(*                                                                         *)
(* Unlike the handlers of tasks these change loaded objects of the ORM:    *)
(* at the commit the session writes the columns whose values differ from   *)
(* the loaded ones, whatever the row holds by then.  PostgreSQL is at READ *)
(* COMMITTED: an UPDATE waits for the session that has written the row, an *)
(* INSERT for the one that has inserted the same unique value.             *)
(*                                                                         *)
(* A row has two columns x and y that matter:                              *)
(*   goals                 title and target_date                           *)
(*   calendar_events       start_at and end_at                             *)
(*   inbox_items           converted_to (y is not used)                    *)
(*   finance_transactions  amount and category                             *)
(*   ai_user_rules         quiet_hours and breaks                          *)
(*   budgets               amount (y is not used)                          *)
(* What a db.refresh selects after a commit only feeds the answer, and is  *)
(* left out.                                                               *)
(***************************************************************************)
EXTENDS Naturals, FiniteSets

CONSTANTS
    Row,           \* ids of rows
    OwnRow,        \* the row of the user in ai_user_rules, where user_id is unique
    Requests,      \* requests that change something
    Bodies,        \* bound: the columns they bring
    Stores,        \* bound: the tables and rows to begin with
    Users,         \* bound: the rows of the user to begin with
    TrialPeriod,   \* TRIAL_PERIOD_DAYS
    FreeLimit,     \* FREE_BUDGET_LIMIT
    MaxValue,      \* bound on the values of columns
    MaxNow,        \* bound on the clock
    Null, Unset, None

Tables == {"goals", "calendar_events", "inbox_items", "finance_transactions",
           "ai_user_rules", "users", "budgets", "notification_triggers"}

Value == 0 .. MaxValue
Columns == [x : Value \cup {Null}, y : Value \cup {Null}]
Body == [x : Value \cup {Null, Unset}, y : Value \cup {Null, Unset}]
Version == [state : {"absent", "live", "deleted"}, cols : Columns, stamp : 0 .. MaxNow]

NullableIn(tab, c) == tab = "inbox_items" \/ (tab = "goals" /\ c = "y")

ASSUME ProductivityAssumption ==
    /\ OwnRow \in Row
    /\ Bodies \subseteq Body
    /\ \A s \in Stores : /\ s.table \in Tables
                         /\ s.rows \in [Row -> [state : {"absent", "live", "deleted"},
                                                cols : Columns, stamp : {0}]]
                         /\ \A t \in Row, c \in {"x", "y"} :
                               s.rows[t].cols[c] = Null => NullableIn(s.table, c)
                         /\ s.table = "calendar_events" =>
                               \A t \in Row : \/ s.rows[t].state = "absent"
                                              \/ s.rows[t].cols.x < s.rows[t].cols.y
    /\ TrialPeriod \in Nat /\ MaxValue \in Nat /\ MaxNow \in Nat /\ FreeLimit \in Value
    /\ Users \subseteq [is_pro : BOOLEAN, trial_started_at : Nat \cup {None},
                        trial_ends_at : Nat \cup {None}, created_at : {0}]
    /\ {Null, Unset, None} \cap Nat = {} /\ Null # Unset

VARIABLES
    table,         \* fixed
    rows,          \* the table, as committed
    user,          \* the row of the user, as committed
    now,
    pc, local,     \* of each request
    copy, since,   \* what the client keeps, and when it asked last, by its clock
    (* history *)
    raced,         \* requests whose row was written between their SELECT and UPDATE
    unseen         \* rows being written, with an older updated_at, when the client asked

history == <<raced, unseen>>
client == <<copy, since>>
vars == <<table, rows, user, now, pc, local, client, history>>

---------------------------------------------------------------------------
Nothing == [x |-> Unset, y |-> Unset]

Blank == [op |-> "none", target |-> None, body |-> Nothing, loaded |-> None,
          written |-> Nothing, stamp |-> 0]

Live(r) == pc[r] \in {"select", "flush", "commit"}

Locked(r, t) == \E u \in Requests \ {r} : pc[u] = "commit" /\ local[u].target = t

Nullable(c) == NullableIn(table, c)

\* The columns of a row after those of a body were set.
Set(cols, body) ==
    [c \in {"x", "y"} |-> IF body[c] = Unset THEN cols[c] ELSE body[c]]

Fail(r) ==
    /\ pc' = [pc EXCEPT ![r] = "failed"]
    /\ local' = [local EXCEPT ![r] = Blank]
    /\ UNCHANGED <<table, rows, user, now, client, history>>

Begin(r, op, t, body) ==
    /\ pc[r] = "idle"
    /\ pc' = [pc EXCEPT ![r] = "select"]
    /\ local' = [local EXCEPT ![r] = [Blank EXCEPT !.op = op, !.target = t, !.body = body]]
    /\ UNCHANGED <<table, rows, user, now, client, history>>

---------------------------------------------------------------------------
(* The subscription *)

\* _resolve_trial_dates
TrialStart(u) == IF u.trial_started_at # None THEN u.trial_started_at ELSE u.created_at
TrialEnd(u) == IF u.trial_ends_at # None THEN u.trial_ends_at ELSE TrialStart(u) + TrialPeriod

SubscriptionStatus(u) ==
    CASE u.is_pro -> "pro"
      [] ~ u.is_pro /\ TrialStart(u) <= now /\ now < TrialEnd(u) -> "trial"
      [] OTHER -> "free"

\* What set_budget makes of an amount.
Allowed(amount) ==
    IF SubscriptionStatus(user) = "free" /\ amount > FreeLimit THEN FreeLimit ELSE amount

---------------------------------------------------------------------------
(* Requests begin *)

Full == {b \in Bodies : b.x \in Value /\ b.y \in Value}

BeginCreate(r) ==
    /\ table \in {"goals", "calendar_events", "inbox_items", "finance_transactions"}
    /\ \E t \in Row, b \in Full :
          /\ rows[t].state = "absent"
          /\ \A u \in Requests : local[u].target # t     \* a new id
          /\ Begin(r, "create", t, b)

BeginUpdate(r) ==
    /\ table \in {"goals", "calendar_events", "finance_transactions"}
    /\ \E t \in Row, b \in Bodies :
          rows[t].state # "absent" /\ Begin(r, "update", t, b)

BeginConvert(r) ==
    /\ table = "inbox_items"
    /\ \E t \in Row, target \in Value :
          /\ rows[t].state # "absent"
          /\ Begin(r, "update", t, [x |-> target, y |-> Unset])

BeginDelete(r) ==
    /\ table = "finance_transactions"
    /\ \E t \in Row : rows[t].state # "absent" /\ Begin(r, "delete", t, Nothing)

BeginUpsert(r) ==
    /\ table = "ai_user_rules"
    /\ \E b \in Full : Begin(r, "upsert", OwnRow, b)

\* A budget of the month there is, or the INSERT of one: it gives the model a
\* column `deleted' that it has not (TypeError).
SetBudget(r) ==
    /\ table = "budgets"
    /\ \/ \E t \in Row, amount \in Value :
             /\ rows[t].state = "live"
             /\ Begin(r, "update", t, [x |-> Allowed(amount), y |-> Unset])
       \/ pc[r] = "idle" /\ Fail(r)

---------------------------------------------------------------------------
(* SELECT: the object is loaded, checked and changed in memory *)

\* The object in memory, its updated_at the time of now.
Change(r) ==
    /\ local' = [local EXCEPT ![r].loaded = rows[local[r].target], ![r].stamp = now]
    /\ pc' = [pc EXCEPT ![r] = "flush"]
    /\ UNCHANGED <<table, rows, user, now, client, history>>

\* Mutant of EndsAfterStart: only what the body brings is compared.
EndsAfterBodyStart(cols, body) ==
    body.x \in Value /\ body.y \in Value => body.x < body.y

\* `if start_at and end_at and end_at <= start_at', of the merged columns.
EndsAfterStart(cols, body) ==
    LET new == Set(cols, body)
    IN  new.x \in Value /\ new.y \in Value => new.x < new.y

Found(r) == rows[local[r].target].state = "live"

UpdateGoal(r) == table = "goals" /\ (IF Found(r) THEN Change(r) ELSE Fail(r))

UpdateEvent(r) ==
    /\ table = "calendar_events"
    /\ IF Found(r) /\ EndsAfterStart(rows[local[r].target].cols, local[r].body)
       THEN Change(r) ELSE Fail(r)

\* Nothing looks whether the note was converted before.
ConvertInboxNote(r) == table = "inbox_items" /\ (IF Found(r) THEN Change(r) ELSE Fail(r))

UpdateTransaction(r) ==
    table = "finance_transactions" /\ (IF Found(r) THEN Change(r) ELSE Fail(r))

UpdateBudget(r) == table = "budgets" /\ (IF Found(r) THEN Change(r) ELSE Fail(r))

Update(r) ==
    /\ pc[r] = "select"
    /\ local[r].op = "update"
    /\ \/ UpdateGoal(r) \/ UpdateEvent(r) \/ ConvertInboxNote(r) \/ UpdateTransaction(r)
       \/ UpdateBudget(r)

\* A deleted transaction can be deleted again.
DeleteTransaction(r) ==
    /\ pc[r] = "select"
    /\ local[r].op = "delete"
    /\ Change(r)

\* get_by_user_id: the rules are there or not; both is well.
UpsertAiRules(r) ==
    /\ pc[r] = "select"
    /\ local[r].op = "upsert"
    /\ Change(r)

CreateGoal(r) == table = "goals" /\ Change(r)

CreateEvent(r) ==
    /\ table = "calendar_events"
    /\ IF local[r].body.x < local[r].body.y THEN Change(r) ELSE Fail(r)

AddInboxNote(r) == table = "inbox_items" /\ Change(r)

\* account_id has to be there and is never set.
CreateTransaction(r) == table = "finance_transactions" /\ Fail(r)

\* Nothing is selected.
Create(r) ==
    /\ pc[r] = "select"
    /\ local[r].op = "create"
    /\ CreateGoal(r) \/ CreateEvent(r) \/ AddInboxNote(r) \/ CreateTransaction(r)

---------------------------------------------------------------------------
(* UPDATE or INSERT, and COMMIT *)

\* Mutant of Written: the whole object is written.
WrittenWhole(r) == Set(local[r].loaded.cols, local[r].body)

\* The columns the UPDATE names: those that differ from what was loaded.
Written(r) ==
    [c \in {"x", "y"} |->
        IF local[r].op = "update" /\ local[r].body[c] = local[r].loaded.cols[c]
          THEN Unset ELSE local[r].body[c]]

Violates(r) == \E c \in {"x", "y"} : local[r].body[c] = Null /\ ~ Nullable(c)

\* get_by_user_id looks past rules that are marked deleted.
FoundRules(r) == local[r].loaded.state = "live"

\* Mutant of Refused: the rules are inserted without a look.
RefusedOften(r) == Violates(r) \/ (local[r].op = "upsert" /\ rows[OwnRow].state # "absent")

\* A NOT NULL column is null, or rules are inserted where the user has a row: one
\* that another request has stored first, or that the lookup has looked past.
Refused(r) ==
    \/ Violates(r)
    \/ local[r].op = "upsert" /\ ~ FoundRules(r) /\ rows[OwnRow].state # "absent"

Flush(r) ==
    /\ pc[r] = "flush"
    /\ ~ Locked(r, local[r].target)
    /\ IF Refused(r) THEN Fail(r)
       ELSE /\ local' = [local EXCEPT ![r].written = Written(r)]
            /\ pc' = [pc EXCEPT ![r] = "commit"]
            /\ UNCHANGED <<table, rows, user, now, client, history>>

StateAfter(r) ==
    CASE local[r].op = "delete" -> "deleted"
      [] local[r].op = "update" -> rows[local[r].target].state
      [] OTHER -> "live"

Commit(r) ==
    LET t == local[r].target
    IN  /\ pc[r] = "commit"
        /\ rows' = [rows EXCEPT ![t] = [state |-> StateAfter(r),
                                        cols |-> Set(rows[t].cols, local[r].written),
                                        stamp |-> local[r].stamp]]
        /\ raced' = raced \cup {u \in Requests \ {r} : /\ pc[u] = "flush"
                                                       /\ local[u].target = t}
        /\ pc' = [pc EXCEPT ![r] = "committed"]
        /\ UNCHANGED <<table, user, now, local, client, unseen>>

---------------------------------------------------------------------------
(* What is answered without a row being stored *)

\* 400 for a Pro user; else the dates change in memory and are answered, and the
\* session is closed without a commit.
ActivateTrialPlan(r) ==
    /\ table = "users" /\ pc[r] = "idle"
    /\ pc' = [pc EXCEPT ![r] = IF SubscriptionStatus(user) = "pro" THEN "failed" ELSE "committed"]
    /\ UNCHANGED <<table, rows, user, now, local, client, history>>

\* Its model is given a column `deleted' that it has not (TypeError).
CreateNotificationTrigger(r) ==
    table = "notification_triggers" /\ pc[r] = "idle" /\ Fail(r)

---------------------------------------------------------------------------
(* Lists *)

\* Mutant of UpdatedSince: only what is newer.
UpdatedAfter == {t \in Row : rows[t].state = "live" /\ (since = None \/ rows[t].stamp > since)}

UpdatedSince == {t \in Row : rows[t].state = "live" /\ (since = None \/ rows[t].stamp >= since)}

ListGoals == table = "goals"
ListEvents == table = "calendar_events"
ListTransactions == table = "finance_transactions"

\* The client asks for what was updated since it asked last.  The answers carry no
\* time: it notes its own, which may be behind the server's and is assumed not to
\* be ahead of it.  Deleted rows are not answered and stay in the copy.
Pull ==
    /\ ListGoals \/ ListEvents \/ ListTransactions
    /\ copy' = [t \in Row |-> IF t \in UpdatedSince THEN rows[t] ELSE copy[t]]
    /\ \E time \in 0 .. now :
          /\ since' = time
          /\ unseen' = unseen \cup {local[r].target : r \in
                {u \in Requests : pc[u] \in {"flush", "commit"} /\ local[u].stamp < time}}
    /\ UNCHANGED <<table, rows, user, now, pc, local, raced>>

---------------------------------------------------------------------------
Tick ==
    /\ now < MaxNow
    /\ now' = now + 1
    /\ UNCHANGED <<table, rows, user, pc, local, client, history>>

Init ==
    /\ \E s \in Stores : table = s.table /\ rows = s.rows
    /\ user \in Users
    /\ now = 0
    /\ pc = [r \in Requests |-> "idle"]
    /\ local = [r \in Requests |-> Blank]
    /\ copy = [t \in Row |-> None]
    /\ since = None
    /\ raced = {}
    /\ unseen = {}

Step(r) ==
    \/ Create(r) \/ Update(r) \/ DeleteTransaction(r) \/ UpsertAiRules(r)
    \/ Flush(r) \/ Commit(r)

Next ==
    \/ \E r \in Requests :
          \/ BeginCreate(r) \/ BeginUpdate(r) \/ BeginConvert(r) \/ BeginDelete(r)
          \/ BeginUpsert(r) \/ Step(r)
          \/ ActivateTrialPlan(r) \/ SetBudget(r) \/ CreateNotificationTrigger(r)
    \/ Pull \/ Tick

Spec == Init /\ [][Next]_vars

---------------------------------------------------------------------------
(* Properties *)

Local == [op : {"none", "create", "update", "delete", "upsert"}, target : Row \cup {None},
          body : Body, loaded : Version \cup {None}, written : Body, stamp : 0 .. MaxNow]

\* Every variable has its type, no two requests hold one row, no column that
\* must not be null is, and no time is ahead of the clock.
TypeOK ==
    /\ table \in Tables /\ user \in Users
    /\ rows \in [Row -> Version]
    /\ \A t \in Row, c \in {"x", "y"} : rows[t].cols[c] = Null => Nullable(c)
    /\ now \in 0 .. MaxNow
    /\ pc \in [Requests -> {"idle", "select", "flush", "commit", "committed", "failed"}]
    /\ local \in [Requests -> Local]
    /\ \A r \in Requests :
          /\ local[r].stamp <= now
          /\ pc[r] = "idle" => local[r] = Blank
          /\ Live(r) => local[r].target \in Row /\ local[r].op # "none"
          /\ pc[r] \in {"flush", "commit"} => local[r].loaded \in Version
    /\ \A r, u \in Requests : /\ r # u /\ pc[r] = "commit" /\ pc[u] = "commit"
                              => local[r].target # local[u].target
    /\ copy \in [Row -> Version \cup {None}]
    /\ since \in 0 .. now \cup {None}
    /\ raced \subseteq Requests /\ unseen \subseteq Row

\* A stored event ends after it starts, also when one of the two times is
\* patched - unless two patches of it overlapped: each checks its time against
\* the other one as it has loaded it.
EventEndsAfterStart ==
    table = "calendar_events" =>
        \A t \in Row :
            \/ rows[t].state = "absent"
            \/ rows[t].cols.x < rows[t].cols.y
            \/ \E r \in raced : local[r].target = t

\* A patch leaves alone what its body does not name: what another request has
\* stored there since the patch has loaded the row stays, a deletion too.
OthersColumnsStay ==
    [][\A r \in Requests :
          pc[r] = "commit" /\ local[r].op = "update" /\ pc'[r] = "committed" =>
              LET t == local[r].target
              IN  /\ rows'[t].state = rows[t].state
                  /\ \A c \in {"x", "y"} : local[r].body[c] = Unset
                                             => rows'[t].cols[c] = rows[t].cols[c]]_vars

\* Rules are refused only to a request that ran while the first ones of the user
\* were stored by another - or to a user whose rules are marked deleted (which
\* nothing in the application does), because the lookup looks past them.
RulesRefusedOnlyAtFirst ==
    table = "ai_user_rules" =>
        \A r \in Requests : pc[r] = "failed" => r \in raced \/ rows[OwnRow].state = "deleted"

\* A client that asks for what was updated since it asked last has every live
\* row as it is, or will be given it next - unless a request that was to store
\* the row with an older time was under way when the client asked.  Nothing is
\* said of deleted rows, which the client is never told of.
CopyIsCurrent ==
    \A t \in Row \ unseen :
        since # None /\ rows[t].state = "live" =>
            copy[t] = rows[t] \/ rows[t].stamp >= since
=============================================================================
