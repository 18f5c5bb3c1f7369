------------------------ MODULE Productivity_proofs ------------------------
(***************************************************************************)
(* What TLAPS proves about Productivity, for any number of rows and of     *)
(* requests, any values of the columns and any table to begin with.        *)
(***************************************************************************)
EXTENDS Productivity, TLAPS

Places == {"idle", "select", "flush", "commit", "committed", "failed"}

\* What TypeOK says of one request.
Placed(r) ==
    /\ local[r].stamp <= now
    /\ pc[r] = "idle" => local[r] = Blank
    /\ Live(r) => local[r].target \in Row /\ local[r].op # "none"
    /\ pc[r] \in {"flush", "commit"} => local[r].loaded \in Version

\* A request that has written its row writes what differs from what it has
\* loaded, and no null where none may be.
WrittenInv ==
    \A r \in Requests : pc[r] = "commit" => ~ Violates(r) /\ local[r].written = Written(r)

TInv == TypeOK /\ WrittenInv

---------------------------------------------------------------------------
(* The steps of a request *)

ActionOf(r) ==
    \/ BeginCreate(r) \/ BeginUpdate(r) \/ BeginConvert(r) \/ BeginDelete(r)
    \/ BeginUpsert(r) \/ Step(r)
    \/ ActivateTrialPlan(r) \/ SetBudget(r) \/ CreateNotificationTrigger(r)

LEMMA NextIsOfOne ==
    ASSUME [Next]_vars
    PROVE  (\E r \in Requests : ActionOf(r)) \/ Pull \/ Tick \/ UNCHANGED vars
  BY DEF Next, ActionOf

\* Requests are begun for what their table has handlers for.
Begins(r) ==
    \E op \in {"create", "update", "delete", "upsert"}, t \in Row, body \in Body :
        /\ Begin(r, op, t, body)
        /\ op = "create" => body \in Full
        /\ table = "calendar_events" => op \in {"create", "update"}
        /\ table = "ai_user_rules" => op = "upsert" /\ t = OwnRow /\ body \in Full

\* A request whose handler has loaded and accepted what it is to change.
Changes(r) ==
    /\ pc[r] = "select"
    /\ Change(r)
    /\ table = "calendar_events" =>
          /\ local[r].op = "update" => EndsAfterStart(rows[local[r].target].cols, local[r].body)
          /\ local[r].op = "create" => local[r].body.x < local[r].body.y

\* The UPDATE or INSERT is carried out, ...
Writes(r) ==
    /\ pc[r] = "flush"
    /\ ~ Locked(r, local[r].target)
    /\ ~ Refused(r)
    /\ local' = [local EXCEPT ![r].written = Written(r)]
    /\ pc' = [pc EXCEPT ![r] = "commit"]
    /\ UNCHANGED <<table, rows, user, now, client, history>>

\* ... or the request ends before it.
Fails(r) ==
    /\ Fail(r)
    /\ \/ pc[r] \in {"idle", "select"} /\ table # "ai_user_rules"
       \/ pc[r] = "flush" /\ Refused(r)

\* A request that is answered without anything having been stored.
Answered(r) ==
    /\ table = "users" /\ pc[r] = "idle"
    /\ \E to \in {"failed", "committed"} : pc' = [pc EXCEPT ![r] = to]
    /\ UNCHANGED <<table, rows, user, now, local, client, history>>

LEMMA ActionCases ==
    ASSUME NEW r \in Requests, ActionOf(r)
    PROVE  Begins(r) \/ Changes(r) \/ Writes(r) \/ Fails(r) \/ Answered(r) \/ Commit(r)
<1>1. Full \subseteq Body /\ Bodies \subseteq Body
  BY ProductivityAssumption DEF Full
<1>2. CASE BeginCreate(r)
  <2>1. PICK t \in Row, b \in Full : Begin(r, "create", t, b)
    BY <1>2 DEF BeginCreate
  <2>2. table # "ai_user_rules"
    BY <1>2 DEF BeginCreate
  <2> QED
    BY <1>1, <2>1, <2>2 DEF Begins
<1>3. CASE BeginUpdate(r)
  <2>1. PICK t \in Row, b \in Bodies : Begin(r, "update", t, b)
    BY <1>3 DEF BeginUpdate
  <2> QED
    BY <1>1, <1>3, <2>1 DEF BeginUpdate, Begins
<1>4. CASE BeginConvert(r)
  <2>1. PICK t \in Row, v \in Value : Begin(r, "update", t, [x |-> v, y |-> Unset])
    BY <1>4 DEF BeginConvert
  <2>2. [x |-> v, y |-> Unset] \in Body
    BY DEF Body
  <2>3. table = "inbox_items"
    BY <1>4 DEF BeginConvert
  <2> QED
    BY <2>1, <2>2, <2>3 DEF Begins
<1>5. CASE BeginDelete(r)
  <2>1. PICK t \in Row : Begin(r, "delete", t, Nothing)
    BY <1>5 DEF BeginDelete
  <2>2. Nothing \in Body
    BY DEF Nothing, Body
  <2>3. table = "finance_transactions"
    BY <1>5 DEF BeginDelete
  <2> QED
    BY <2>1, <2>2, <2>3 DEF Begins
<1>6. CASE BeginUpsert(r)
  <2>1. PICK b \in Full : Begin(r, "upsert", OwnRow, b)
    BY <1>6 DEF BeginUpsert
  <2>2. table = "ai_user_rules" /\ OwnRow \in Row
    BY <1>6, ProductivityAssumption DEF BeginUpsert
  <2> QED
    BY <1>1, <2>1, <2>2 DEF Begins
<1>7. CASE Update(r)
  BY <1>7 DEF Update, UpdateGoal, UpdateEvent, ConvertInboxNote, UpdateTransaction, UpdateBudget,
              Changes, Fails
<1>8. CASE Create(r)
  BY <1>8 DEF Create, CreateGoal, CreateEvent, AddInboxNote, CreateTransaction, Changes, Fails
<1>9. CASE DeleteTransaction(r) \/ UpsertAiRules(r)
  BY <1>9 DEF DeleteTransaction, UpsertAiRules, Changes
<1>10. CASE Flush(r)
  BY <1>10 DEF Flush, Writes, Fails
<1>11. CASE SetBudget(r) \/ CreateNotificationTrigger(r)
  <2>1. CASE Fail(r) /\ pc[r] = "idle" /\ table # "ai_user_rules"
    BY <2>1 DEF Fails
  <2>2. ASSUME NEW t \in Row, NEW amount \in Value, table = "budgets",
               Begin(r, "update", t, [x |-> Allowed(amount), y |-> Unset])
        PROVE  Begins(r)
    <3>1. [x |-> Allowed(amount), y |-> Unset] \in Body
      BY ProductivityAssumption DEF Allowed, Body
    <3> QED
      BY <2>2, <3>1 DEF Begins
  <2> QED
    BY <1>11, <2>1, <2>2 DEF SetBudget, CreateNotificationTrigger
<1>12. CASE ActivateTrialPlan(r)
  BY <1>12 DEF ActivateTrialPlan, Answered
<1> QED
  BY <1>2, <1>3, <1>4, <1>5, <1>6, <1>7, <1>8, <1>9, <1>10, <1>11, <1>12 DEF ActionOf, Step

\* A step of one request leaves the others where they are.
LEMMA OthersStay ==
    ASSUME TInv, NEW r \in Requests, ActionOf(r), NEW u \in Requests \ {r}
    PROVE  pc'[u] = pc[u] /\ local'[u] = local[u]
<1>1. pc \in [Requests -> Places] /\ local \in [Requests -> Local]
  BY DEF TInv, TypeOK, Places
<1>2. CASE Begins(r)
  BY <1>1, <1>2 DEF Begins, Begin
<1>3. CASE Changes(r)
  BY <1>1, <1>3 DEF Changes, Change
<1>4. CASE Writes(r) \/ Answered(r)
  BY <1>1, <1>4 DEF Writes, Answered
<1>5. CASE Fails(r)
  BY <1>1, <1>5 DEF Fails, Fail
<1>6. CASE Commit(r)
  BY <1>1, <1>6 DEF Commit
<1> QED
  BY <1>2, <1>3, <1>4, <1>5, <1>6, ActionCases

---------------------------------------------------------------------------
(* The type invariant *)

\* The columns of a row after a body was written to it.
LEMMA SetFacts ==
    ASSUME NEW cols \in Columns, NEW body \in Body
    PROVE  /\ Set(cols, body) \in Columns
           /\ \A c \in {"x", "y"} : Set(cols, body)[c] = IF body[c] = Unset THEN cols[c] ELSE body[c]
  BY DEF Set, Columns, Body

LEMMA WrittenType ==
    ASSUME TypeOK, NEW r \in Requests, pc[r] = "flush"
    PROVE  Written(r) \in Body
<1>1. local[r].body \in Body
  BY DEF TypeOK, Local
<1> QED
  BY <1>1 DEF Written, Body

LEMMA TypeInit == Init => TInv
<1> SUFFICES ASSUME Init PROVE TInv
  OBVIOUS
<1>1. PICK s \in Stores : table = s.table /\ rows = s.rows
  BY DEF Init
<1>2. /\ table \in Tables /\ rows \in [Row -> Version] /\ now \in 0 .. MaxNow
      /\ \A t \in Row, c \in {"x", "y"} : rows[t].cols[c] = Null => Nullable(c)
  <2>1. MaxNow \in Nat /\ now = 0
    BY ProductivityAssumption DEF Init
  <2>2. [state : {"absent", "live", "deleted"}, cols : Columns, stamp : {0}] \subseteq Version
    BY <2>1 DEF Version
  <2> QED
    BY <1>1, <2>1, <2>2, ProductivityAssumption DEF Nullable
<1>3. Blank \in Local
  BY <1>2 DEF Blank, Nothing, Local, Body, Init
<1>4. Blank.stamp = 0
  BY DEF Blank
<1> QED
  BY <1>2, <1>3, <1>4 DEF Init, TInv, TypeOK, WrittenInv, Live

\* A step of one request that leaves the table alone.
LEMMA TypeMove ==
    ASSUME TInv, NEW r \in Requests, NEW to \in Places, NEW v \in Local,
           pc' = [pc EXCEPT ![r] = to], local' = [local EXCEPT ![r] = v],
           v.stamp <= now, to # "idle",
           to \in {"select", "flush", "commit"} => v.target \in Row /\ v.op # "none",
           to \in {"flush", "commit"} => v.loaded \in Version,
           to = "commit" => ~ Locked(r, v.target) /\ ~ Violates(r)' /\ v.written = Written(r)',
           UNCHANGED <<table, rows, user, now, client, history>>
    PROVE  TInv'
<1>1. /\ local' \in [Requests -> Local] /\ local'[r] = v
      /\ \A u \in Requests \ {r} : local'[u] = local[u]
  BY DEF TInv, TypeOK
<1>2. /\ pc' \in [Requests -> Places] /\ pc'[r] = to
      /\ \A u \in Requests \ {r} : pc'[u] = pc[u]
  BY DEF TInv, TypeOK, Places
<1>3. UNCHANGED <<table, rows, user, now, copy, since, raced, unseen>>
  BY DEF client, history
<1>4. \A u \in Requests : Placed(u)'
  BY <1>1, <1>2, <1>3 DEF Placed, TInv, TypeOK, Live
<1>5. \A q, u \in Requests : q # u /\ pc'[q] = "commit" /\ pc'[u] = "commit"
                               => local'[q].target # local'[u].target
  BY <1>1, <1>2 DEF TInv, TypeOK, Locked
<1>6. TypeOK'
  BY <1>1, <1>2, <1>3, <1>4, <1>5 DEF TInv, TypeOK, Placed, Places, Nullable
<1>7. \A u \in Requests \ {r} : pc'[u] = "commit" =>
          ~ Violates(u)' /\ local'[u].written = Written(u)'
  BY <1>1, <1>2, <1>3 DEF TInv, WrittenInv, Violates, Written, Nullable
<1>8. pc'[r] = "commit" => ~ Violates(r)' /\ local'[r].written = Written(r)'
  BY <1>1, <1>2
<1> QED
  BY <1>6, <1>7, <1>8 DEF TInv, WrittenInv

LEMMA TypeAction ==
    ASSUME TInv, NEW r \in Requests, ActionOf(r), ~ Commit(r)
    PROVE  TInv'
<1>1. local[r] \in Local /\ local[r].stamp <= now /\ now \in 0 .. MaxNow
      /\ 0 <= now /\ now <= now
  BY ProductivityAssumption DEF TInv, TypeOK
<1>2. Blank \in Local /\ Blank.stamp = 0
  <2>1. 0 \in 0 .. MaxNow
    BY ProductivityAssumption
  <2> QED
    BY <2>1 DEF Blank, Nothing, Local, Body
<1>3. CASE Begins(r)
  <2>1. PICK op \in {"create", "update", "delete", "upsert"}, t \in Row, body \in Body :
            Begin(r, op, t, body)
    BY <1>3 DEF Begins
  <2> DEFINE v == [Blank EXCEPT !.op = op, !.target = t, !.body = body]
  <2>2. v \in Local /\ v.stamp = 0 /\ v.target = t /\ v.op = op
    BY <1>2 DEF Local, Blank
  <2>3. /\ pc' = [pc EXCEPT ![r] = "select"] /\ local' = [local EXCEPT ![r] = v]
        /\ UNCHANGED <<table, rows, user, now, client, history>>
    BY <2>1 DEF Begin
  <2> HIDE DEF v
  <2> QED
    BY <1>1, <2>2, <2>3, TypeMove DEF Places
<1>4. CASE Changes(r)
  <2>1. /\ pc[r] = "select" /\ local[r].target \in Row /\ local[r].op # "none"
        /\ rows[local[r].target] \in Version
    BY <1>4 DEF Changes, TInv, TypeOK, Live
  <2> DEFINE v == [local[r] EXCEPT !.loaded = rows[local[r].target], !.stamp = now]
  <2>2. /\ v \in Local /\ v.stamp = now /\ v.target = local[r].target /\ v.op = local[r].op
        /\ v.loaded \in Version
    BY <1>1, <2>1 DEF Local
  <2>3. /\ pc' = [pc EXCEPT ![r] = "flush"] /\ local' = [local EXCEPT ![r] = v]
        /\ UNCHANGED <<table, rows, user, now, client, history>>
    BY <1>4 DEF Changes, Change
  <2> HIDE DEF v
  <2> QED
    BY <1>1, <2>1, <2>2, <2>3, TypeMove DEF Places
<1>5. CASE Writes(r)
  <2>1. /\ pc[r] = "flush" /\ local[r].target \in Row /\ local[r].op # "none"
        /\ local[r].loaded \in Version /\ ~ Violates(r) /\ ~ Locked(r, local[r].target)
    BY <1>5 DEF Writes, TInv, TypeOK, Live, Refused
  <2>2. Written(r) \in Body
    BY <2>1, WrittenType DEF TInv
  <2> DEFINE v == [local[r] EXCEPT !.written = Written(r)]
  <2>3. /\ v \in Local /\ v.stamp = local[r].stamp /\ v.target = local[r].target
        /\ v.op = local[r].op /\ v.loaded = local[r].loaded /\ v.body = local[r].body
        /\ v.written = Written(r)
    BY <1>1, <2>2 DEF Local
  <2>4. /\ pc' = [pc EXCEPT ![r] = "commit"] /\ local' = [local EXCEPT ![r] = v]
        /\ UNCHANGED <<table, rows, user, now, client, history>>
    BY <1>5 DEF Writes
  <2> HIDE DEF v
  <2>5. local'[r] = v
    BY <2>4 DEF TInv, TypeOK
  <2>6. ~ Violates(r)' /\ v.written = Written(r)'
    BY <2>1, <2>3, <2>4, <2>5 DEF Violates, Nullable, Written
  <2> QED
    BY <1>1, <2>1, <2>3, <2>4, <2>6, TypeMove DEF Places
<1>6. CASE Fails(r)
  BY <1>1, <1>2, <1>6, TypeMove DEF Fails, Fail, Places
<1>7. CASE Answered(r)
  <2>1. PICK to \in {"failed", "committed"} : pc' = [pc EXCEPT ![r] = to]
    BY <1>7 DEF Answered
  <2>2. local' = [local EXCEPT ![r] = local[r]]
    BY <1>7 DEF Answered, TInv, TypeOK
  <2> QED
    BY <1>1, <1>7, <2>1, <2>2, TypeMove DEF Answered, Places
<1> QED
  BY <1>3, <1>4, <1>5, <1>6, <1>7, ActionCases

\* What a commit does to its row, and to the others.
LEMMA CommitFacts ==
    ASSUME TInv, NEW r \in Requests, Commit(r)
    PROVE  /\ pc[r] = "commit" /\ local[r].target \in Row
           /\ local[r].written = Written(r) /\ ~ Violates(r)
           /\ rows'[local[r].target].state = StateAfter(r)
           /\ rows'[local[r].target].cols = Set(rows[local[r].target].cols, Written(r))
           /\ rows'[local[r].target].stamp = local[r].stamp
           /\ rows'[local[r].target] \in Version
           /\ \A t \in Row \ {local[r].target} : rows'[t] = rows[t]
           /\ rows' \in [Row -> Version]
           /\ pc'[r] = "committed" /\ \A u \in Requests \ {r} : pc'[u] = pc[u]
           /\ raced' = raced \cup {u \in Requests \ {r} : /\ pc[u] = "flush"
                                                          /\ local[u].target = local[r].target}
           /\ UNCHANGED <<table, user, now, local, copy, since, unseen>>
<1> DEFINE t == local[r].target
           row == [state |-> StateAfter(r), cols |-> Set(rows[t].cols, local[r].written),
                   stamp |-> local[r].stamp]
<1>1. /\ pc[r] = "commit" /\ t \in Row /\ local[r] \in Local
      /\ local[r].written = Written(r) /\ ~ Violates(r)
  BY DEF TInv, TypeOK, WrittenInv, Commit, Live
<1>2. rows' = [rows EXCEPT ![t] = row]
  BY DEF Commit
<1>3. row \in Version
  <2>1. rows[t] \in Version
    BY <1>1 DEF TInv, TypeOK
  <2>2. Set(rows[t].cols, local[r].written) \in Columns
    BY <1>1, <2>1, SetFacts DEF Local, Version
  <2>3. StateAfter(r) \in {"absent", "live", "deleted"}
    BY <2>1 DEF StateAfter, Version
  <2> QED
    BY <1>1, <2>2, <2>3 DEF Version, Local
<1>4. /\ row.state = StateAfter(r) /\ row.cols = Set(rows[t].cols, Written(r))
      /\ row.stamp = local[r].stamp
  BY <1>1
<1> HIDE DEF row
<1>5. /\ rows'[t] = row /\ \A q \in Row \ {t} : rows'[q] = rows[q] /\ rows' \in [Row -> Version]
  BY <1>1, <1>2, <1>3 DEF TInv, TypeOK
<1>6. rows' \in [Row -> Version]
  BY <1>1, <1>2, <1>3 DEF TInv, TypeOK
<1>7. /\ pc'[r] = "committed" /\ \A u \in Requests \ {r} : pc'[u] = pc[u]
      /\ raced' = raced \cup {u \in Requests \ {r} : /\ pc[u] = "flush" /\ local[u].target = t}
      /\ UNCHANGED <<table, user, now, local, copy, since, unseen>>
  BY DEF Commit, TInv, TypeOK, client
<1> QED
  BY <1>1, <1>3, <1>4, <1>5, <1>6, <1>7

LEMMA TypeCommit ==
    ASSUME TInv, NEW r \in Requests, Commit(r)
    PROVE  TInv'
<1> DEFINE t == local[r].target
<1>1. /\ pc[r] = "commit" /\ t \in Row /\ ~ Violates(r)
      /\ rows'[t].cols = Set(rows[t].cols, Written(r))
      /\ \A q \in Row \ {t} : rows'[q] = rows[q]
      /\ rows' \in [Row -> Version]
      /\ pc'[r] = "committed" /\ \A u \in Requests \ {r} : pc'[u] = pc[u]
      /\ raced' \subseteq Requests
      /\ UNCHANGED <<table, user, now, local, copy, since, unseen>>
  <2>1. raced' = raced \cup {u \in Requests \ {r} : pc[u] = "flush" /\ local[u].target = t}
    BY CommitFacts
  <2>2. raced' \subseteq Requests
    BY <2>1 DEF TInv, TypeOK
  <2> QED
    BY <2>2, CommitFacts
<1>2. \A q \in Row, c \in {"x", "y"} : rows'[q].cols[c] = Null => Nullable(c)
  <2>1. ASSUME NEW c \in {"x", "y"}, rows'[t].cols[c] = Null PROVE Nullable(c)
    <3>1. rows[t].cols \in Columns /\ Written(r) \in Body
      <4>1. local[r].written = Written(r)
        BY CommitFacts
      <4> QED
        BY <1>1, <4>1 DEF TInv, TypeOK, Version, Local
    <3>2. rows[t].cols[c] = Null \/ Written(r)[c] = Null
      BY <1>1, <2>1, <3>1, SetFacts
    <3>3. rows[t].cols[c] = Null => Nullable(c)
      BY <1>1 DEF TInv, TypeOK
    <3>4. Written(r)[c] = Null => Unset = Null \/ local[r].body[c] = Null
      BY DEF Written
    <3> QED
      BY <1>1, <3>2, <3>3, <3>4, ProductivityAssumption DEF Violates
  <2> QED
    BY <1>1, <2>1 DEF TInv, TypeOK
<1>3. pc' \in [Requests -> Places]
  BY DEF Commit, TInv, TypeOK, Places
<1>4. TypeOK'
  BY <1>1, <1>2, <1>3 DEF TInv, TypeOK, Nullable, Live, Places
<1>5. WrittenInv'
  BY <1>1 DEF TInv, WrittenInv, Violates, Written, Nullable
<1> QED
  BY <1>4, <1>5 DEF TInv

\* A pull changes what the client has, and nothing else; the clock only itself.
LEMMA TypeOthers ==
    ASSUME TInv, Pull \/ Tick
    PROVE  TInv'
<1>1. WrittenInv'
  BY DEF Pull, Tick, TInv, WrittenInv, Violates, Written, Nullable
<1>2. CASE Pull
  <2>1. copy' \in [Row -> Version \cup {None}]
    BY <1>2 DEF Pull, TInv, TypeOK
  <2>2. unseen' \subseteq Row
    BY <1>2 DEF Pull, TInv, TypeOK, Live
  <2>3. since' \in 0 .. now \cup {None}
    BY <1>2, ProductivityAssumption DEF Pull, TInv, TypeOK
  <2> QED
    BY <1>1, <1>2, <2>1, <2>2, <2>3 DEF Pull, TInv, TypeOK, Live, Nullable
<1>3. CASE Tick
  <2>1. now' \in 0 .. MaxNow /\ now' >= now /\ now \in Nat
    BY <1>3, ProductivityAssumption DEF Tick, TInv, TypeOK
  <2>2. UNCHANGED <<table, rows, user, pc, local, copy, since, raced, unseen>>
    BY <1>3 DEF Tick, client, history
  <2>3. \A r \in Requests : local[r].stamp \in Nat /\ local[r].stamp <= now
    BY ProductivityAssumption DEF TInv, TypeOK, Local
  <2>4. \A r \in Requests : local'[r].stamp <= now'
    BY <2>1, <2>2, <2>3
  <2>5. since' \in 0 .. now' \cup {None}
    BY <2>1, <2>2 DEF TInv, TypeOK
  <2> QED
    BY <1>1, <2>1, <2>2, <2>4, <2>5 DEF TInv, TypeOK, Live, Nullable
<1> QED
  BY <1>2, <1>3

LEMMA TypeNext == TInv /\ [Next]_vars => TInv'
<1> SUFFICES ASSUME TInv, [Next]_vars PROVE TInv'
  OBVIOUS
<1>1. CASE UNCHANGED vars
  BY <1>1 DEF vars, client, history, TInv, TypeOK, WrittenInv, Live, Nullable, Violates, Written
<1> QED
  BY <1>1, TypeAction, TypeCommit, TypeOthers, NextIsOfOne

\* Every variable keeps its type, ...
THEOREM TypeCorrect == Spec => []TypeOK
<1>1. TInv => TypeOK
  BY DEF TInv
<1> QED
  BY <1>1, TypeInit, TypeNext, PTL DEF Spec

---------------------------------------------------------------------------
(* Patches *)

\* ... a patch leaves the columns alone that its body does not name, and a deletion,
\* too, ...
THEOREM PatchesKeepToTheirColumns == Spec => OthersColumnsStay
<1> DEFINE Stay == \A r \in Requests :
              pc[r] = "commit" /\ local[r].op = "update" /\ pc'[r] = "committed" =>
                  LET t == local[r].target
                  IN  /\ rows'[t].state = rows[t].state
                      /\ \A c \in {"x", "y"} : local[r].body[c] = Unset
                                                 => rows'[t].cols[c] = rows[t].cols[c]
<1>1. ASSUME TInv, [Next]_vars, NEW r \in Requests, pc[r] = "commit", local[r].op = "update",
             pc'[r] = "committed"
      PROVE  LET t == local[r].target
             IN  /\ rows'[t].state = rows[t].state
                 /\ \A c \in {"x", "y"} : local[r].body[c] = Unset
                                            => rows'[t].cols[c] = rows[t].cols[c]
  <2>1. Commit(r)
    <3>1. ASSUME NEW u \in Requests, ActionOf(u), u # r PROVE FALSE
      <4>1. pc'[r] = pc[r]
        BY <1>1, <3>1, OthersStay
      <4> QED
        BY <1>1, <4>1
    <3>2. ASSUME ActionOf(r) PROVE Commit(r)
      BY <1>1, <3>2, ActionCases DEF Begins, Begin, Changes, Writes, Fails, Answered
    <3> QED
      BY <1>1, <3>1, <3>2, NextIsOfOne DEF Pull, Tick, vars
  <2> DEFINE t == local[r].target
  <2>2. /\ t \in Row /\ rows'[t].state = StateAfter(r)
        /\ rows'[t].cols = Set(rows[t].cols, Written(r)) /\ local[r].written = Written(r)
    BY <1>1, <2>1, CommitFacts
  <2>3. rows[t].cols \in Columns /\ Written(r) \in Body
    BY <1>1, <2>2 DEF TInv, TypeOK, Version, Local
  <2>4. StateAfter(r) = rows[t].state
    BY <1>1 DEF StateAfter
  <2>5. ASSUME NEW c \in {"x", "y"}, local[r].body[c] = Unset
        PROVE  rows'[t].cols[c] = rows[t].cols[c]
    <3>1. Written(r)[c] = Unset
      BY <2>5 DEF Written
    <3> QED
      BY <2>2, <2>3, <3>1, SetFacts
  <2> QED
    BY <2>2, <2>4, <2>5
<1>2. TInv /\ [Next]_vars => [Stay]_vars
  BY <1>1
<1> QED
  BY <1>2, TypeInit, TypeNext, PTL DEF Spec, OthersColumnsStay

---------------------------------------------------------------------------
(* Objects in memory *)

\* The object of a request is the row as it is, unless another request has written
\* the row since; it was checked by the handler of its table.
Object(r) ==
    /\ pc[r] \in {"flush", "commit"} /\ r \notin raced => rows[local[r].target] = local[r].loaded
    /\ Live(r) /\ local[r].op = "create" => local[r].body \in Full
    /\ table = "calendar_events" /\ Live(r) => local[r].op \in {"create", "update"}
    /\ table = "calendar_events" /\ pc[r] \in {"flush", "commit"} =>
          /\ local[r].op = "update" => EndsAfterStart(local[r].loaded.cols, local[r].body)
          /\ local[r].op = "create" => local[r].body.x < local[r].body.y
    /\ table = "ai_user_rules" /\ Live(r) =>
          local[r].op = "upsert" /\ local[r].target = OwnRow /\ local[r].body \in Full

ObjectsInv == \A r \in Requests : Object(r)

\* An event that does not end after it starts was left by a request that had raced.
Proper(t) ==
    \/ rows[t].state = "absent"
    \/ rows[t].cols.x < rows[t].cols.y
    \/ \E r \in raced : pc[r] = "committed" /\ local[r].target = t

EventsInv == table = "calendar_events" => \A t \in Row : Proper(t)

\* What is being written with an older time than that of the last pull is known.
PulledInv ==
    \A r \in Requests :
        since # None /\ pc[r] \in {"flush", "commit"} /\ local[r].stamp < since
            => local[r].target \in unseen

LEMMA InvInit == Init => ObjectsInv /\ EventsInv /\ PulledInv
<1> SUFFICES ASSUME Init PROVE ObjectsInv /\ EventsInv /\ PulledInv
  OBVIOUS
<1>1. \A r \in Requests : pc[r] = "idle"
  BY DEF Init
<1>2. ObjectsInv /\ PulledInv
  BY <1>1 DEF ObjectsInv, PulledInv, Object, Live
<1>3. EventsInv
  <2>1. PICK s \in Stores : table = s.table /\ rows = s.rows
    BY DEF Init
  <2> QED
    BY <2>1, ProductivityAssumption DEF EventsInv, Proper
<1> QED
  BY <1>2, <1>3

\* An object is not disturbed while its request stays where it is and its row stays,
\* or the request has raced.
LEMMA ObjectStays ==
    ASSUME NEW r \in Requests, Object(r), pc'[r] = pc[r], local'[r] = local[r],
           table' = table, raced \subseteq raced',
           \/ pc[r] \notin {"flush", "commit"}
           \/ rows'[local[r].target] = rows[local[r].target]
           \/ r \in raced'
    PROVE  Object(r)'
  BY DEF Object, Live, EndsAfterStart, Set

\* A step that writes nothing to the table.
LEMMA QuietFacts ==
    ASSUME TInv, NEW r \in Requests, ActionOf(r), ~ Commit(r)
    PROVE  /\ Begins(r) \/ Changes(r) \/ Writes(r) \/ Fails(r) \/ Answered(r)
           /\ UNCHANGED <<table, rows, user, now, copy, since, raced, unseen>>
<1>1. Begins(r) \/ Changes(r) \/ Writes(r) \/ Fails(r) \/ Answered(r)
  BY ActionCases
<1>2. UNCHANGED <<table, rows, user, now, client, history>>
  BY <1>1 DEF Begins, Begin, Changes, Change, Writes, Fails, Fail, Answered
<1> QED
  BY <1>1, <1>2 DEF client, history

LEMMA ObjectsQuiet ==
    ASSUME TInv, ObjectsInv, NEW r \in Requests, ActionOf(r), ~ Commit(r)
    PROVE  ObjectsInv'
<1>1. UNCHANGED <<table, rows, raced>>
  BY QuietFacts
<1>2. \A u \in Requests \ {r} : Object(u)'
  BY <1>1, OthersStay, ObjectStays DEF ObjectsInv
<1>3. pc \in [Requests -> Places] /\ local \in [Requests -> Local] /\ Object(r)
  BY DEF TInv, TypeOK, Places, ObjectsInv
<1>4. Object(r)'
  <2>1. CASE Begins(r)
    <3>1. PICK op \in {"create", "update", "delete", "upsert"}, t \in Row, body \in Body :
            /\ Begin(r, op, t, body)
            /\ op = "create" => body \in Full
            /\ table = "calendar_events" => op \in {"create", "update"}
            /\ table = "ai_user_rules" => op = "upsert" /\ t = OwnRow /\ body \in Full
      BY <2>1 DEF Begins
    <3>2. /\ pc'[r] = "select" /\ local'[r].op = op /\ local'[r].target = t
          /\ local'[r].body = body
      BY <1>3, <3>1 DEF Begin, Blank
    <3> QED
      BY <1>1, <3>1, <3>2 DEF Object, Full
  <2>2. CASE Changes(r)
    <3>1. /\ pc[r] = "select" /\ pc'[r] = "flush"
          /\ local'[r].loaded = rows[local[r].target]
          /\ local'[r].op = local[r].op /\ local'[r].target = local[r].target
          /\ local'[r].body = local[r].body
      BY <1>3, <2>2 DEF Changes, Change, Local
    <3>2. table = "calendar_events" =>
            /\ local[r].op = "update" => EndsAfterStart(rows[local[r].target].cols, local[r].body)
            /\ local[r].op = "create" => local[r].body.x < local[r].body.y
      BY <2>2 DEF Changes
    <3> QED
      BY <1>1, <1>3, <3>1, <3>2 DEF Object, Live, Full, EndsAfterStart, Set
  <2>3. CASE Writes(r)
    <3>1. /\ pc[r] = "flush" /\ pc'[r] = "commit"
          /\ local'[r].loaded = local[r].loaded
          /\ local'[r].op = local[r].op /\ local'[r].target = local[r].target
          /\ local'[r].body = local[r].body
      BY <1>3, <2>3 DEF Writes, Local
    <3> QED
      BY <1>1, <1>3, <3>1 DEF Object, Live, Full, EndsAfterStart, Set
  <2>4. CASE Fails(r) \/ Answered(r)
    <3>1. pc'[r] \in {"failed", "committed"}
      BY <1>3, <2>4 DEF Fails, Fail, Answered
    <3> QED
      BY <3>1 DEF Object, Live
  <2> QED
    BY <2>1, <2>2, <2>3, <2>4, QuietFacts
<1> QED
  BY <1>2, <1>4 DEF ObjectsInv

LEMMA ObjectsCommit ==
    ASSUME TInv, ObjectsInv, NEW r \in Requests, Commit(r)
    PROVE  ObjectsInv'
<1> DEFINE t == local[r].target
<1>1. /\ pc[r] = "commit" /\ t \in Row /\ pc'[r] = "committed"
      /\ \A q \in Row \ {t} : rows'[q] = rows[q]
      /\ \A u \in Requests \ {r} : pc'[u] = pc[u]
      /\ raced' = raced \cup {u \in Requests \ {r} : pc[u] = "flush" /\ local[u].target = t}
      /\ UNCHANGED <<table, local>>
  BY CommitFacts
<1>2. ASSUME NEW u \in Requests \ {r} PROVE Object(u)'
  <2>1. \/ pc[u] \notin {"flush", "commit"}
        \/ rows'[local[u].target] = rows[local[u].target]
        \/ u \in raced'
    <3>1. pc[u] \in {"flush", "commit"} => local[u].target \in Row
      BY DEF TInv, TypeOK, Live
    <3>2. pc[u] = "commit" => local[u].target # t
      BY <1>1 DEF TInv, TypeOK
    <3> QED
      BY <1>1, <3>1, <3>2
  <2> QED
    BY <1>1, <2>1, ObjectStays DEF ObjectsInv
<1>3. Object(r)'
  BY <1>1 DEF Object, Live
<1> QED
  BY <1>2, <1>3 DEF ObjectsInv

LEMMA ObjectsNext == TInv /\ ObjectsInv /\ [Next]_vars => ObjectsInv'
<1> SUFFICES ASSUME TInv, ObjectsInv, [Next]_vars PROVE ObjectsInv'
  OBVIOUS
<1>1. ASSUME UNCHANGED <<table, rows, pc, local, raced>> PROVE ObjectsInv'
  BY <1>1, ObjectStays DEF ObjectsInv
<1> QED
  BY <1>1, ObjectsQuiet, ObjectsCommit, NextIsOfOne DEF Pull, Tick, vars, history

---------------------------------------------------------------------------
(* Events *)

\* An event ends after it starts when a request has written it that has not raced.
LEMMA CommittedIsProper ==
    ASSUME TInv, ObjectsInv, table = "calendar_events", NEW r \in Requests, Commit(r),
           r \notin raced
    PROVE  rows'[local[r].target].cols.x < rows'[local[r].target].cols.y
<1> DEFINE t == local[r].target
<1>1. /\ pc[r] = "commit" /\ t \in Row /\ ~ Violates(r)
      /\ rows'[t].cols = Set(rows[t].cols, Written(r)) /\ local[r].written = Written(r)
  BY CommitFacts
<1>2. rows[t] = local[r].loaded /\ local[r].op \in {"create", "update"}
  BY <1>1 DEF ObjectsInv, Object, Live
<1>3. /\ rows[t].cols \in Columns /\ local[r].body \in Body /\ Written(r) \in Body
  BY <1>1 DEF TInv, TypeOK, Version, Local
<1>4. \A c \in {"x", "y"} : rows[t].cols[c] # Null /\ local[r].body[c] # Null
  BY <1>1 DEF TInv, TypeOK, Violates, Nullable, NullableIn
<1>5. CASE local[r].op = "create"
  <2>1. /\ local[r].body.x \in Value /\ local[r].body.y \in Value
        /\ local[r].body.x < local[r].body.y
    BY <1>1, <1>5 DEF ObjectsInv, Object, Live, Full
  <2>2. Written(r)["x"] = local[r].body.x /\ Written(r)["y"] = local[r].body.y
    BY <1>5 DEF Written
  <2>3. Unset \notin Value
    BY ProductivityAssumption DEF Value
  <2> QED
    BY <1>1, <1>3, <2>1, <2>2, <2>3, SetFacts
<1>6. CASE local[r].op = "update"
  <2>1. EndsAfterStart(rows[t].cols, local[r].body)
    BY <1>1, <1>2, <1>6 DEF ObjectsInv, Object
  <2>2. \A c \in {"x", "y"} : /\ Set(rows[t].cols, local[r].body)[c] \in Value
                              /\ Set(rows[t].cols, Written(r))[c] = Set(rows[t].cols, local[r].body)[c]
    <3> SUFFICES ASSUME NEW c \in {"x", "y"}
                 PROVE  /\ Set(rows[t].cols, local[r].body)[c] \in Value
                        /\ Set(rows[t].cols, Written(r))[c] = Set(rows[t].cols, local[r].body)[c]
      OBVIOUS
    <3>1. /\ rows[t].cols[c] \in Value
          /\ local[r].body[c] = Unset \/ local[r].body[c] \in Value
      BY <1>3, <1>4 DEF Columns, Body
    <3>2. Written(r)[c] = IF local[r].body[c] = rows[t].cols[c] THEN Unset ELSE local[r].body[c]
      BY <1>2, <1>6 DEF Written
    <3>3. /\ Set(rows[t].cols, local[r].body)[c] = IF local[r].body[c] = Unset THEN rows[t].cols[c]
                                                   ELSE local[r].body[c]
          /\ Set(rows[t].cols, Written(r))[c] = IF Written(r)[c] = Unset THEN rows[t].cols[c]
                                                ELSE Written(r)[c]
      BY <1>3, SetFacts
    <3> QED
      BY <3>1, <3>2, <3>3
  <2> QED
    BY <1>1, <2>1, <2>2 DEF EndsAfterStart
<1> QED
  BY <1>2, <1>5, <1>6

LEMMA EventsNext == TInv /\ ObjectsInv /\ EventsInv /\ [Next]_vars => EventsInv'
<1> SUFFICES ASSUME TInv, ObjectsInv, EventsInv, [Next]_vars, table' = "calendar_events",
                    NEW t \in Row
             PROVE  Proper(t)'
  BY DEF EventsInv
<1>1. table = "calendar_events" /\ Proper(t)
  <2>1. UNCHANGED table
    <3>1. ASSUME NEW r \in Requests, ActionOf(r) PROVE UNCHANGED table
      BY <3>1, QuietFacts, CommitFacts
    <3> QED
      BY <3>1, NextIsOfOne DEF Pull, Tick, vars
  <2> QED
    BY <2>1 DEF EventsInv
<1>2. ASSUME UNCHANGED <<rows, pc, local, raced>> PROVE Proper(t)'
  BY <1>1, <1>2 DEF Proper
<1>3. ASSUME NEW r \in Requests, ActionOf(r), ~ Commit(r) PROVE Proper(t)'
  <2>1. rows' = rows /\ raced' = raced
    BY <1>3, QuietFacts
  <2>2. ASSUME NEW u \in raced, pc[u] = "committed", local[u].target = t
        PROVE  pc'[u] = "committed" /\ local'[u].target = t
    <3>1. u \in Requests
      BY DEF TInv, TypeOK
    <3>2. u # r
      BY <1>3, <2>2, QuietFacts
      DEF Begins, Begin, Changes, Writes, Fails, Answered
    <3> QED
      BY <1>3, <2>2, <3>1, <3>2, OthersStay
  <2> QED
    BY <1>1, <2>1, <2>2 DEF Proper
<1>4. ASSUME NEW r \in Requests, Commit(r) PROVE Proper(t)'
  <2>1. /\ \A q \in Row \ {local[r].target} : rows'[q] = rows[q]
        /\ raced \subseteq raced' /\ local' = local
        /\ pc'[r] = "committed" /\ \A u \in Requests \ {r} : pc'[u] = pc[u]
        /\ raced \subseteq Requests
    BY <1>4, CommitFacts DEF TInv, TypeOK
  <2>2. CASE local[r].target # t
    BY <1>1, <2>1, <2>2 DEF Proper
  <2>3. CASE local[r].target = t /\ r \in raced
    BY <2>1, <2>3 DEF Proper
  <2>4. CASE local[r].target = t /\ r \notin raced
    BY <1>1, <1>4, <2>4, CommittedIsProper DEF Proper
  <2> QED
    BY <2>2, <2>3, <2>4
<1> QED
  BY <1>2, <1>3, <1>4, NextIsOfOne DEF Pull, Tick, vars, history

\* ... an event ends after it starts, unless patches of it have raced, ...
THEOREM EventsEndAfterTheyStart == Spec => []EventEndsAfterStart
<1>1. EventsInv => EventEndsAfterStart
  BY DEF EventsInv, Proper, EventEndsAfterStart
<1> QED
  BY <1>1, TypeInit, TypeNext, InvInit, ObjectsNext, EventsNext, PTL DEF Spec

---------------------------------------------------------------------------
(* AI rules *)

\* Rules that a request has found are there, and none are stored over deleted ones.
RulesInv ==
    table = "ai_user_rules" =>
        \A r \in Requests :
            /\ pc[r] \in {"flush", "commit"} /\ FoundRules(r) => rows[OwnRow].state = "live"
            /\ pc[r] = "commit" => rows[OwnRow].state # "deleted"

\* What RulesInv says of one request.
Rules(r) ==
    /\ pc[r] \in {"flush", "commit"} /\ FoundRules(r) => rows[OwnRow].state = "live"
    /\ pc[r] = "commit" => rows[OwnRow].state # "deleted"

\* The commit of rules leaves rules that are there.
LEMMA RulesCommit ==
    ASSUME TInv, ObjectsInv, RulesInv, table = "ai_user_rules", NEW r \in Requests, Commit(r)
    PROVE  rows'[OwnRow].state = "live" /\ rows[OwnRow].state # "deleted"
<1>1. pc[r] = "commit" /\ rows'[local[r].target].state = StateAfter(r)
  BY CommitFacts
<1>2. local[r].op = "upsert" /\ local[r].target = OwnRow
  BY <1>1 DEF ObjectsInv, Object, Live
<1>3. StateAfter(r) = "live"
  BY <1>2 DEF StateAfter
<1> QED
  BY <1>1, <1>2, <1>3 DEF RulesInv

LEMMA RulesQuiet ==
    ASSUME TInv, ObjectsInv, RulesInv, NEW r \in Requests, ActionOf(r), ~ Commit(r)
    PROVE  RulesInv'
<1> SUFFICES ASSUME table = "ai_user_rules" PROVE \A u \in Requests : Rules(u)'
  BY QuietFacts DEF RulesInv, Rules
<1>1. rows' = rows
  BY QuietFacts
<1>2. \A u \in Requests : Rules(u)
  BY DEF RulesInv, Rules
<1>3. \A u \in Requests \ {r} : Rules(u)'
  BY <1>1, <1>2, OthersStay DEF Rules, FoundRules
<1>4. pc \in [Requests -> Places] /\ local \in [Requests -> Local]
  BY DEF TInv, TypeOK, Places
<1>5. Rules(r)'
  <2>1. CASE Changes(r)
    <3>1. /\ pc[r] = "select" /\ pc'[r] = "flush"
          /\ local'[r].loaded = rows[local[r].target]
      BY <1>4, <2>1 DEF Changes, Change, Local
    <3>2. local[r].target = OwnRow
      BY <3>1 DEF ObjectsInv, Object, Live
    <3> QED
      BY <1>1, <3>1, <3>2 DEF Rules, FoundRules
  <2>2. CASE Writes(r)
    <3>1. /\ pc[r] = "flush" /\ pc'[r] = "commit" /\ ~ Refused(r)
          /\ local'[r].loaded = local[r].loaded
      BY <1>4, <2>2 DEF Writes, Local
    <3>2. local[r].op = "upsert"
      BY <3>1 DEF ObjectsInv, Object, Live
    <3>3. FoundRules(r) \/ rows[OwnRow].state = "absent"
      BY <3>1, <3>2 DEF Refused
    <3> QED
      BY <1>1, <1>2, <3>1, <3>3 DEF Rules, FoundRules
  <2>3. CASE Begins(r) \/ Fails(r) \/ Answered(r)
    <3>1. pc'[r] \in {"select", "failed", "committed"}
      BY <1>4, <2>3 DEF Begins, Begin, Fails, Fail, Answered
    <3> QED
      BY <3>1 DEF Rules
  <2> QED
    BY <2>1, <2>2, <2>3, QuietFacts
<1> QED
  BY <1>3, <1>5

LEMMA RulesInvNext == TInv /\ ObjectsInv /\ RulesInv /\ [Next]_vars => RulesInv'
<1> SUFFICES ASSUME TInv, ObjectsInv, RulesInv, [Next]_vars PROVE RulesInv'
  OBVIOUS
<1>1. ASSUME UNCHANGED <<table, rows, pc, local>> PROVE RulesInv'
  BY <1>1 DEF RulesInv, FoundRules
<1>2. ASSUME NEW r \in Requests, Commit(r) PROVE RulesInv'
  BY <1>2, RulesCommit, CommitFacts DEF RulesInv
<1> QED
  BY <1>1, <1>2, RulesQuiet, NextIsOfOne DEF Pull, Tick, vars

LEMMA RulesNext ==
    TInv /\ ObjectsInv /\ RulesInv /\ RulesRefusedOnlyAtFirst /\ [Next]_vars
        => RulesRefusedOnlyAtFirst'
<1> SUFFICES ASSUME TInv, ObjectsInv, RulesInv, RulesRefusedOnlyAtFirst, [Next]_vars
             PROVE  RulesRefusedOnlyAtFirst'
  OBVIOUS
<1>1. ASSUME UNCHANGED <<table, rows, pc, raced>> PROVE RulesRefusedOnlyAtFirst'
  BY <1>1 DEF RulesRefusedOnlyAtFirst
<1>2. ASSUME NEW r \in Requests, Commit(r) PROVE RulesRefusedOnlyAtFirst'
  BY <1>2, CommitFacts, RulesCommit DEF RulesRefusedOnlyAtFirst
<1>3. ASSUME NEW r \in Requests, ActionOf(r), ~ Commit(r) PROVE RulesRefusedOnlyAtFirst'
  <2>1. UNCHANGED <<table, rows, raced>>
    BY <1>3, QuietFacts
  <2>2. ASSUME table = "ai_user_rules", pc'[r] = "failed"
        PROVE  r \in raced \/ rows[OwnRow].state = "deleted"
    <3>1. pc \in [Requests -> Places] /\ rows[OwnRow] \in Version
      BY ProductivityAssumption DEF TInv, TypeOK, Places
    <3>2. CASE pc[r] = "failed"
      BY <2>2, <3>2 DEF RulesRefusedOnlyAtFirst
    <3>3. CASE pc[r] # "failed"
      <4>1. pc[r] = "flush" /\ Refused(r)
        BY <1>3, <2>2, <3>1, <3>3, QuietFacts
        DEF Begins, Begin, Changes, Change, Writes, Fails, Answered
      <4>2. local[r].target = OwnRow /\ local[r].body \in Full
        BY <2>2, <4>1 DEF ObjectsInv, Object, Live
      <4>3. ~ Violates(r)
        <5>1. local[r].body["x"] \in Value /\ local[r].body["y"] \in Value
          BY <4>2 DEF Full
        <5>2. Null \notin Value
          BY ProductivityAssumption DEF Value
        <5> QED
          BY <5>1, <5>2 DEF Violates
      <4>4. ~ FoundRules(r) /\ rows[OwnRow].state # "absent"
        BY <4>1, <4>3 DEF Refused
      <4>5. r \notin raced => rows[OwnRow].state # "live"
        BY <4>1, <4>2, <4>4 DEF ObjectsInv, Object, FoundRules
      <4> QED
        BY <3>1, <4>4, <4>5 DEF Version
    <3> QED
      BY <3>2, <3>3
  <2> QED
    BY <1>3, <2>1, <2>2, OthersStay DEF RulesRefusedOnlyAtFirst
<1> QED
  BY <1>1, <1>2, <1>3, NextIsOfOne DEF Pull, Tick, vars, history

\* ... rules are refused only to a request that ran while the first were stored, or
\* where rules marked deleted are in the way (which no request stores over), ...
THEOREM RulesAreRefusedOnlyAtFirst == Spec => []RulesRefusedOnlyAtFirst
<1>1. Init => RulesRefusedOnlyAtFirst /\ RulesInv
  BY DEF Init, RulesRefusedOnlyAtFirst, RulesInv
<1> QED
  BY <1>1, TypeInit, TypeNext, InvInit, ObjectsNext, RulesInvNext, RulesNext, PTL DEF Spec

---------------------------------------------------------------------------
(* The client's copy *)

\* What the client has of a row is the row, or the row will come with the next pull.
Current(t) ==
    since # None /\ rows[t].state = "live" => copy[t] = rows[t] \/ rows[t].stamp >= since

LEMMA PulledNext == TInv /\ PulledInv /\ [Next]_vars => PulledInv'
<1> SUFFICES ASSUME TInv, PulledInv, [Next]_vars PROVE PulledInv'
  OBVIOUS
<1>1. ASSUME UNCHANGED <<since, pc, local, unseen>> PROVE PulledInv'
  BY <1>1 DEF PulledInv
<1>2. CASE Pull
  BY <1>2 DEF Pull, PulledInv
<1>3. ASSUME NEW r \in Requests, Commit(r) PROVE PulledInv'
  BY <1>3, CommitFacts DEF PulledInv
<1>4. ASSUME NEW r \in Requests, ActionOf(r), ~ Commit(r) PROVE PulledInv'
  <2>1. UNCHANGED <<since, unseen>>
    BY <1>4, QuietFacts
  <2>2. pc \in [Requests -> Places] /\ local \in [Requests -> Local]
    BY DEF TInv, TypeOK, Places
  <2>3. pc'[r] \in {"flush", "commit"} =>
            /\ local'[r].target = local[r].target
            /\ \/ pc[r] = "flush" /\ local'[r].stamp = local[r].stamp
               \/ local'[r].stamp = now
    <3>1. CASE Changes(r)
      BY <2>2, <3>1 DEF Changes, Change, Local
    <3>2. CASE Writes(r)
      BY <2>2, <3>2 DEF Writes, Local
    <3>3. CASE Begins(r) \/ Fails(r) \/ Answered(r)
      BY <2>2, <3>3 DEF Begins, Begin, Fails, Fail, Answered
    <3> QED
      BY <1>4, <3>1, <3>2, <3>3, QuietFacts
  <2>4. since # None => ~ (now < since)
    BY ProductivityAssumption DEF TInv, TypeOK
  <2> QED
    BY <1>4, <2>1, <2>3, <2>4, OthersStay DEF PulledInv
<1> QED
  BY <1>1, <1>2, <1>3, <1>4, NextIsOfOne DEF Tick, vars, client, history

LEMMA CopyNext == TInv /\ PulledInv /\ CopyIsCurrent /\ [Next]_vars => CopyIsCurrent'
<1> SUFFICES ASSUME TInv, PulledInv, CopyIsCurrent, [Next]_vars, NEW t \in Row, t \notin unseen'
             PROVE  Current(t)'
  BY DEF CopyIsCurrent, Current
<1>1. t \notin unseen => Current(t)
  BY DEF CopyIsCurrent, Current
<1>2. ASSUME UNCHANGED <<rows, copy, since, unseen>> PROVE Current(t)'
  BY <1>1, <1>2 DEF Current
<1>3. rows[t].stamp \in Nat /\ (since # None => since \in Nat) /\ now \in Nat
  BY ProductivityAssumption DEF TInv, TypeOK, Version
<1>4. CASE Pull
  <2>1. t \notin unseen /\ rows' = rows
        /\ copy'[t] = IF t \in UpdatedSince THEN rows[t] ELSE copy[t]
    BY <1>4 DEF Pull
  <2>2. t \in UpdatedSince <=> rows[t].state = "live" /\ (since = None \/ rows[t].stamp >= since)
    BY DEF UpdatedSince
  <2> QED
    BY <1>1, <2>1, <2>2 DEF Current
<1>5. ASSUME NEW r \in Requests, Commit(r) PROVE Current(t)'
  <2>1. /\ UNCHANGED <<copy, since, unseen>> /\ pc[r] = "commit"
        /\ \A q \in Row \ {local[r].target} : rows'[q] = rows[q]
        /\ rows'[local[r].target].stamp = local[r].stamp
    BY <1>5, CommitFacts
  <2>2. local[r].stamp \in Nat
    BY ProductivityAssumption DEF TInv, TypeOK, Local
  <2>3. CASE local[r].target # t
    BY <1>1, <2>1, <2>3 DEF Current
  <2>4. CASE local[r].target = t
    <3>1. since # None => ~ (local[r].stamp < since)
      BY <2>1, <2>4 DEF PulledInv
    <3>2. since # None => local[r].stamp >= since
      BY <1>3, <2>2, <3>1
    <3>3. rows'[t].stamp = local[r].stamp /\ since' = since
      BY <2>1, <2>4
    <3> QED
      BY <3>2, <3>3 DEF Current
  <2> QED
    BY <2>3, <2>4
<1>6. ASSUME NEW r \in Requests, ActionOf(r), ~ Commit(r) PROVE Current(t)'
  BY <1>2, <1>6, QuietFacts
<1> QED
  BY <1>2, <1>4, <1>5, <1>6, NextIsOfOne DEF Tick, vars, client, history

\* ... and a client that pulls has every live row as it is, or is given it next, unless
\* it asked while an older write of the row was under way.
THEOREM CopiesAreCurrent == Spec => []CopyIsCurrent
<1>1. Init => CopyIsCurrent
  BY DEF Init, CopyIsCurrent
<1> QED
  BY <1>1, TypeInit, TypeNext, InvInit, PulledNext, CopyNext, PTL DEF Spec
=============================================================================
