---------------------------- MODULE Tasks_proofs ----------------------------
(***************************************************************************)
(* What TLAPS proves about tasks: about TasksApi, the server's side, for   *)
(* any number of rows, requests and keys, any contents of the tables and   *)
(* any limit of a page; and about TasksController, the client's side, for  *)
(* any number of requests in flight, tasks, requests and faults.  The two  *)
(* modules share no name, and the theorems about one do not depend on the  *)
(* other.                                                                  *)
(***************************************************************************)
EXTENDS TasksApi, TasksController, FiniteSetTheorems, WellFoundedInduction, TLAPS

Kinds == {"none", "patch", "create", "post"}

Places == {"idle", "claim", "load", "update", "post", "parent", "insert", "commit",
           "committed", "done"}

Locals == [kind : Kinds, target : Row \cup {None}, expected : 0 .. MaxNow \cup {None},
           offset : Offsets \cup {0}, stamp : 0 .. MaxNow]

\* What TypeOK says of one request.
Placed(r) ==
    /\ pc[r] \in {"load", "update"} => local[r].kind = "patch"
    /\ pc[r] \in {"parent", "insert"} => local[r].kind = "create"
    /\ pc[r] \in {"commit", "committed"} =>
          local[r].kind \in {"patch", "create"} /\ local[r].target \in Row
    /\ IF pc[r] = "idle" THEN local[r] = Blank
       ELSE local[r].kind = "patch" => local[r].target \in Row
    /\ pc[r] \notin {"idle", "done"} => local[r].kind # "none"

---------------------------------------------------------------------------
(* The type invariant *)

LEMMA TypeInit == Init => TypeOK
<1> SUFFICES ASSUME Init PROVE TypeOK
  OBVIOUS
<1>1. PICK s \in Stores : table = s.table /\ rows = s.rows
  BY DEF Init
<1>2. table \in Tables /\ rows \in [Row -> RowVersion]
  BY <1>1, TasksApiAssumption DEF RowVersion
<1>3. now \in 0 .. MaxNow /\ 0 \in 0 .. MaxNow /\ 0 \in 0 .. MaxWrites
  BY TasksApiAssumption DEF Init
<1>4. Blank \in Locals
  BY <1>3 DEF Blank, Kinds, Locals
<1>5. [state |-> "absent", stamp |-> 0] \in RowVersion
  BY <1>3 DEF RowVersion
<1>6. \A r \in Requests : pc[r] = "idle"
  BY DEF Init
<1>7. returned \in [Row -> 0 .. 2]
  BY DEF Init
<1>8. unmoved \subseteq Row /\ tied \subseteq Row
  BY DEF Init, Ties
<1>9. /\ local \in [Requests -> Locals]
      /\ overwrote \in [Requests -> RowVersion]
      /\ pc \in [Requests -> Places]
  BY <1>4, <1>5 DEF Init, Places
<1> QED
  BY <1>2, <1>3, <1>6, <1>7, <1>8, <1>9 DEF Init, TypeOK, Kinds, Places, Locals

\* A step of one request.
LEMMA TypeMove ==
    ASSUME TypeOK, NEW r \in Requests, NEW to \in Places, NEW v \in Locals,
           local' = [local EXCEPT ![r] = v], pc' = [pc EXCEPT ![r] = to],
           to \in {"load", "update"} => v.kind = "patch",
           to \in {"parent", "insert"} => v.kind = "create",
           to \in {"commit", "committed"} => v.kind \in {"patch", "create"} /\ v.target \in Row,
           to # "idle", to # "done" => v.kind # "none", v.kind = "patch" => v.target \in Row,
           to = "commit" => ~ Locked(v.target),
           now' \in 0 .. MaxNow, keys' \subseteq Requests, rows' \in [Row -> RowVersion],
           unmoved' \subseteq Row, tied' \subseteq Row, lowered' \subseteq Row,
           overwrote' \in [Requests -> RowVersion], raced' \subseteq Requests,
           UNCHANGED <<fixed, parent, walking, writes>>
    PROVE  TypeOK'
<1>1. /\ local' \in [Requests -> Locals] /\ local'[r] = v
      /\ \A u \in Requests \ {r} : local'[u] = local[u]
  BY DEF TypeOK, Locals, Kinds
<1>2. /\ pc' \in [Requests -> Places] /\ pc'[r] = to
      /\ \A u \in Requests \ {r} : pc'[u] = pc[u]
  BY DEF TypeOK, Places
<1>3. \A u \in Requests : Placed(u)
  BY DEF TypeOK, Placed
<1>4. \A u \in Requests : Placed(u)'
  BY <1>1, <1>2, <1>3 DEF Placed
<1>5. \A q, u \in Requests : q # u /\ pc'[q] = "commit" /\ pc'[u] = "commit"
                               => local'[q].target # local'[u].target
  BY <1>1, <1>2 DEF TypeOK, Locked
<1>6. UNCHANGED <<table, filter, keyOf, parent, cursor, walk, returned, writes>>
  BY DEF fixed, walking
<1> QED
  BY <1>1, <1>2, <1>4, <1>5, <1>6 DEF TypeOK, Placed, Locals, Kinds, Places

\* A step that changes nothing but how far the request is.
LEMMA TypeGoto ==
    ASSUME TypeOK, NEW r \in Requests, NEW to \in Places, to \notin {"idle", "commit"},
           pc' = [pc EXCEPT ![r] = to],
           to \in {"load", "update"} => local[r].kind = "patch",
           to \in {"parent", "insert"} => local[r].kind = "create",
           to = "committed" => pc[r] = "commit",
           to # "done" => pc[r] \notin {"idle", "done"},
           keys' \subseteq Requests, rows' \in [Row -> RowVersion],
           unmoved' \subseteq Row, tied' \subseteq Row, lowered' \subseteq Row,
           raced' \subseteq Requests,
           UNCHANGED <<fixed, parent, walking, writes, now, local, overwrote>>
    PROVE  TypeOK'
<1>1. local[r] \in Locals /\ local' = [local EXCEPT ![r] = local[r]]
  BY DEF TypeOK, Locals, Kinds
<1>2. /\ to = "committed" => local[r].kind \in {"patch", "create"} /\ local[r].target \in Row
      /\ local[r].kind = "patch" => local[r].target \in Row
      /\ to # "done" => local[r].kind # "none"
  BY DEF TypeOK, Blank
<1>3. now \in 0 .. MaxNow /\ overwrote \in [Requests -> RowVersion]
  BY DEF TypeOK
<1> QED
  BY <1>1, <1>2, <1>3, TypeMove

LEMMA TypeLeave ==
    ASSUME TypeOK, NEW r \in Requests, Leave(r)
    PROVE  TypeOK'
  BY TypeGoto DEF TypeOK, Leave, history, Places

LEMMA TypeBegin ==
    ASSUME TypeOK, NEW r \in Requests, BeginPatch(r) \/ BeginCreate(r) \/ BeginPost(r)
    PROVE  TypeOK'
<1>1. ASSUME NEW kind \in {"patch", "create", "post"}, NEW t \in Row \cup {None},
             NEW expected \in 0 .. MaxNow \cup {None}, NEW offset \in Offsets \cup {0},
             Begin(r, kind, t, expected, offset),
             kind = "patch" => t \in Row
      PROVE  TypeOK'
  <2> DEFINE v == [kind |-> kind, target |-> t, expected |-> expected, offset |-> offset,
                   stamp |-> 0]
  <2>1. v \in Locals /\ v.kind = kind /\ v.target = t
    BY TasksApiAssumption DEF Locals, Kinds
  <2>2. local' = [local EXCEPT ![r] = v] /\ pc' = [pc EXCEPT ![r] = "claim"]
    BY <1>1 DEF Begin
  <2>3. /\ UNCHANGED <<fixed, parent, walking, writes>>
        /\ now' \in 0 .. MaxNow /\ keys' \subseteq Requests /\ rows' \in [Row -> RowVersion]
        /\ unmoved' \subseteq Row /\ tied' \subseteq Row /\ lowered' \subseteq Row
        /\ overwrote' \in [Requests -> RowVersion] /\ raced' \subseteq Requests
    BY <1>1 DEF TypeOK, Begin, history
  <2>4. "claim" \in Places
    BY DEF Places
  <2> HIDE DEF v
  <2> QED
    BY <1>1, <2>1, <2>2, <2>3, <2>4, TypeMove
<1>2. CASE BeginPatch(r)
  <2>1. PICK t \in Row :
          \/ Begin(r, "patch", t, None, 0)
          \/ \E offset \in Offsets : Begin(r, "patch", t, rows[t].stamp, offset)
    BY <1>2 DEF BeginPatch
  <2>2. rows[t].stamp \in 0 .. MaxNow
    BY DEF TypeOK, RowVersion
  <2>3. CASE Begin(r, "patch", t, None, 0)
    BY <1>1, <2>3
  <2>4. CASE \E offset \in Offsets : Begin(r, "patch", t, rows[t].stamp, offset)
    BY <1>1, <2>2, <2>4
  <2> QED
    BY <2>1, <2>3, <2>4
<1>3. CASE BeginCreate(r) \/ BeginPost(r)
  BY <1>1, <1>3 DEF BeginCreate, BeginPost
<1> QED
  BY <1>2, <1>3

LEMMA TypeClaim ==
    ASSUME TypeOK, NEW r \in Requests, Claim(r)
    PROVE  TypeOK'
<1> DEFINE to == CASE local[r].kind = "patch" -> "load"
                   [] local[r].kind = "create" -> "parent"
                   [] local[r].kind = "post" -> "post"
<1>1. pc[r] = "claim" /\ pc' = [pc EXCEPT ![r] = to]
      /\ UNCHANGED <<fixed, rows, parent, now, keys, local, walking, writes, history>>
  BY DEF Claim
<1>2. local[r].kind \in {"patch", "create", "post"}
  BY <1>1 DEF TypeOK
<1>3. /\ to \in {"load", "parent", "post"}
      /\ to = "load" => local[r].kind = "patch"
      /\ to = "parent" => local[r].kind = "create"
  BY <1>2
<1> HIDE DEF to
<1> QED
  BY <1>1, <1>3, TypeGoto DEF TypeOK, history, Places

\* A committed write of a row.
LEMMA TypeWritten ==
    ASSUME TypeOK, NEW t \in Row, NEW row \in RowVersion, Written(t, row)
    PROVE  /\ rows' \in [Row -> RowVersion]
           /\ rows'[t] = row
           /\ \A q \in Row \ {t} : rows'[q] = rows[q]
           /\ unmoved' = unmoved \ {t}
           /\ unmoved' \subseteq Row /\ tied' \subseteq Row /\ lowered' \subseteq Row
  BY DEF TypeOK, Written, Ties

LEMMA TypePatch ==
    ASSUME TypeOK, NEW r \in Requests, Load(r) \/ Update(r) \/ CommitPatch(r)
    PROVE  TypeOK'
<1>1. CASE Load(r)
  <2>1. CASE Leave(r)
    BY <2>1, TypeLeave
  <2>2. CASE /\ pc[r] = "load" /\ pc' = [pc EXCEPT ![r] = "update"]
             /\ UNCHANGED <<fixed, rows, parent, now, keys, local, walking, writes, history>>
    BY <2>2, TypeGoto DEF TypeOK, history, Places
  <2> QED
    BY <1>1, <2>1, <2>2 DEF Load
<1>2. CASE Update(r)
  <2>1. /\ local[r] \in Locals /\ local[r].kind = "patch" /\ local[r].target \in Row
        /\ now + 1 \in 0 .. MaxNow
    BY <1>2, TasksApiAssumption DEF TypeOK, Update, Locals, Kinds
  <2> DEFINE v == [local[r] EXCEPT !.stamp = now + 1]
  <2>2. v \in Locals /\ v.kind = "patch" /\ v.target = local[r].target
    BY <2>1 DEF Locals
  <2>3. /\ local' = [local EXCEPT ![r] = v]
        /\ pc' = [pc EXCEPT ![r] = "commit"] /\ "commit" \in Places
        /\ ~ Locked(local[r].target)
        /\ UNCHANGED <<fixed, parent, walking, writes>>
    BY <1>2 DEF Update, Places
  <2>4. /\ now' \in 0 .. MaxNow /\ keys' \subseteq Requests /\ rows' \in [Row -> RowVersion]
        /\ unmoved' \subseteq Row /\ tied' \subseteq Row /\ lowered' \subseteq Row
        /\ overwrote' \in [Requests -> RowVersion] /\ raced' \subseteq Requests
    BY <1>2, <2>1 DEF TypeOK, Update
  <2> HIDE DEF v
  <2> QED
    BY <2>1, <2>2, <2>3, <2>4, TypeMove
<1>3. CASE CommitPatch(r)
  <2>1. /\ pc[r] = "commit" /\ local[r].target \in Row
        /\ [state |-> rows[local[r].target].state, stamp |-> local[r].stamp] \in RowVersion
    BY <1>3 DEF TypeOK, CommitPatch, RowVersion
  <2>2. /\ rows' \in [Row -> RowVersion] /\ unmoved' \subseteq Row /\ tied' \subseteq Row
        /\ lowered' \subseteq Row
    BY <1>3, <2>1, TypeWritten DEF CommitPatch
  <2>3. keys' \subseteq Requests /\ raced' \subseteq Requests
    BY <1>3 DEF TypeOK, CommitPatch, Races
  <2> QED
    BY <1>3, <2>1, <2>2, <2>3, TypeGoto DEF CommitPatch, Places
<1> QED
  BY <1>1, <1>2, <1>3

LEMMA TypeCreate ==
    ASSUME TypeOK, NEW r \in Requests, CreateForTask(r) \/ CreateSubtask(r) \/ CommitCreate(r)
    PROVE  TypeOK'
<1>1. CASE CreateForTask(r)
  <2>1. CASE Leave(r)
    BY <2>1, TypeLeave
  <2>2. CASE /\ pc[r] = "parent" /\ pc' = [pc EXCEPT ![r] = "insert"]
             /\ UNCHANGED <<fixed, rows, parent, now, keys, local, walking, writes, history>>
    BY <2>2, TypeGoto DEF TypeOK, history, Places
  <2> QED
    BY <1>1, <2>1, <2>2 DEF CreateForTask
<1>2. CASE CreateSubtask(r)
  <2>0. pc[r] = "insert" /\ now < MaxNow
    BY <1>2 DEF CreateSubtask
  <2>1. /\ local[r] \in Locals /\ local[r].kind = "create" /\ now + 1 \in 0 .. MaxNow
    BY <2>0, TasksApiAssumption DEF TypeOK, Locals, Kinds
  <2>2. PICK t \in Row : /\ rows[t].state = "absent" /\ ~ Locked(t)
                         /\ local' = [local EXCEPT ![r].target = t, ![r].stamp = now + 1]
    BY <1>2 DEF CreateSubtask
  <2> DEFINE n == now + 1
             v == [local[r] EXCEPT !.target = t, !.stamp = n]
  <2>3. n \in 0 .. MaxNow
    BY <2>1
  <2>4. local' = [local EXCEPT ![r] = v]
    BY <2>2
  <2>5. v \in Locals /\ v.kind = "create" /\ v.target = t
    <3> HIDE DEF n
    <3> QED
      BY <2>1, <2>3 DEF Locals
  <2>6. /\ pc' = [pc EXCEPT ![r] = "commit"] /\ "commit" \in Places
        /\ UNCHANGED <<fixed, parent, walking, writes>>
    BY <1>2 DEF CreateSubtask, Places
  <2>7. /\ now' \in 0 .. MaxNow /\ keys' \subseteq Requests /\ rows' \in [Row -> RowVersion]
        /\ unmoved' \subseteq Row /\ tied' \subseteq Row /\ lowered' \subseteq Row
        /\ overwrote' \in [Requests -> RowVersion] /\ raced' \subseteq Requests
    BY <1>2, <2>1 DEF TypeOK, CreateSubtask, history
  <2> HIDE DEF v
  <2> QED
    BY <2>2, <2>4, <2>5, <2>6, <2>7, TypeMove
<1>3. CASE CommitCreate(r)
  <2>1. /\ pc[r] = "commit" /\ local[r].target \in Row
        /\ [state |-> "live", stamp |-> local[r].stamp] \in RowVersion
    BY <1>3 DEF TypeOK, CommitCreate, RowVersion
  <2>2. /\ rows' \in [Row -> RowVersion] /\ unmoved' \subseteq Row /\ tied' \subseteq Row
        /\ lowered' \subseteq Row
    BY <1>3, <2>1, TypeWritten DEF CommitCreate
  <2>3. keys' \subseteq Requests /\ raced' \subseteq Requests
    BY <1>3 DEF TypeOK, CommitCreate
  <2> QED
    BY <1>3, <2>1, <2>2, <2>3, TypeGoto DEF CommitCreate, Places
<1> QED
  BY <1>1, <1>2, <1>3

\* A page changes nothing but the walk.
LEMMA AskPageFacts ==
    ASSUME AskPage
    PROVE  /\ walk = "on"
           /\ UNCHANGED <<fixed, rows, parent, now, keys, pc, local, writes, history>>
           /\ Fails \/ Answer(Wanted)
<1>1. CASE GetTasks
  BY <1>1 DEF GetTasks, Asking, ListTasks, Wanted
<1>2. CASE GetSubtasks
  BY <1>2 DEF GetSubtasks, Asking, ListSubtasks, Wanted
<1>3. CASE GetTaskReminders
  BY <1>3 DEF GetTaskReminders, Asking, ListForEntity
<1>4. CASE ListGoals \/ ListInbox \/ ListEvents \/ ListAccounts \/ ListTransactions
  BY <1>4 DEF Asking, ListGoals, ListInbox, ListEvents, ListAccounts, ListTransactions, Wanted
<1>5. CASE ListTriggers
  BY <1>5 DEF Asking, ListTriggers
<1> QED
  BY <1>1, <1>2, <1>3, <1>4, <1>5 DEF AskPage
---------------------------------------------------------------------------
(* Pages *)

\* Every set of numbers has a least one.
LEMMA LeastNumber ==
    ASSUME NEW S \in SUBSET Nat, S # {}
    PROVE  \E n \in S : \A m \in S : n <= m
<1>1. PICK n \in S : \A m \in S : ~ (<<m, n>> \in OpToRel(<, Nat))
  BY WFMin, NatLessThanWellFounded
<1>2. \A m \in S : ~ (m < n)
  BY <1>1 DEF OpToRel
<1> QED
  BY <1>2

\* How many rows of a set are listed before a row.
Rank(rest, r) == Cardinality({q \in rest : Later(q, r)})

\* Lists are in a strict total order.
LEMMA LaterIsOrder ==
    ASSUME TypeOK, NEW q \in Row, NEW r \in Row, NEW s \in Row
    PROVE  /\ ~ Later(r, r)
           /\ q # r => Later(q, r) \/ Later(r, q)
           /\ Later(q, r) /\ Later(r, s) => Later(q, s)
           /\ Later(q, r) => rows[q].stamp >= rows[r].stamp
<1>1. /\ rows[q].stamp \in Nat /\ rows[r].stamp \in Nat /\ rows[s].stamp \in Nat
      /\ IdOrder[q] \in Nat /\ IdOrder[r] \in Nat /\ IdOrder[s] \in Nat
      /\ IdOrder[q] = IdOrder[r] => q = r
  BY TasksApiAssumption DEF TypeOK, RowVersion
<1> QED
  BY <1>1 DEF Later

LEMMA RankType ==
    ASSUME NEW rest \in SUBSET Row, NEW r \in Row
    PROVE  IsFiniteSet({q \in rest : Later(q, r)}) /\ Rank(rest, r) \in Nat
<1>1. IsFiniteSet({q \in rest : Later(q, r)})
  BY TasksApiAssumption, FS_Subset
<1> QED
  BY <1>1, FS_CardinalityType DEF Rank

\* A row that is listed before another has fewer before it.
LEMMA RankDecreases ==
    ASSUME TypeOK, NEW rest \in SUBSET Row, NEW q \in rest, NEW r \in rest, Later(q, r)
    PROVE  Rank(rest, q) < Rank(rest, r)
<1> DEFINE Before(x) == {y \in rest : Later(y, x)}
<1>1. Before(q) \subseteq Before(r)
  BY LaterIsOrder
<1>2. q \in Before(r) /\ q \notin Before(q)
  BY LaterIsOrder
<1>3. IsFiniteSet(Before(r))
  BY RankType
<1>4. /\ Cardinality(Before(q)) <= Cardinality(Before(r))
      /\ Cardinality(Before(r)) = Cardinality(Before(q)) => Before(r) = Before(q)
  BY <1>1, <1>3, FS_Subset
<1>5. Rank(rest, q) \in Nat /\ Rank(rest, r) \in Nat
  BY RankType
<1> QED
  BY <1>2, <1>4, <1>5 DEF Rank

\* The page of a list and the row it ends with.
Page(rest) == {r \in rest : Rank(rest, r) < filter.limit}
LastRow(rest) == CHOOSE r \in Page(rest) : \A q \in Page(rest) \ {r} : Later(q, r)

\* A page that leaves out rows is not empty, and ends with a row that is listed
\* after all others of the page and before all that are left out.
LEMMA LastOfPage ==
    ASSUME TypeOK, NEW rest \in SUBSET Row, Page(rest) # rest
    PROVE  /\ LastRow(rest) \in Page(rest)
           /\ \A q \in Page(rest) \ {LastRow(rest)} : Later(q, LastRow(rest))
           /\ \A r \in rest \ Page(rest) : Later(LastRow(rest), r)
<1>1. filter.limit \in Nat \ {0}
  BY TasksApiAssumption DEF TypeOK
<1>2. \A r \in rest : Rank(rest, r) \in Nat
  BY RankType
<1>3. PICK f \in rest : \A r \in rest : Rank(rest, f) <= Rank(rest, r)
  <2> DEFINE R == {Rank(rest, r) : r \in rest}
  <2>1. R \in SUBSET Nat
    BY <1>2
  <2>2. R # {}
    BY DEF Page
  <2>3. PICK n \in R : \A m \in R : n <= m
    BY <2>1, <2>2, LeastNumber
  <2> QED
    BY <2>3
<1>4. Rank(rest, f) = 0
  <2>1. ASSUME NEW q \in rest, Later(q, f) PROVE FALSE
    BY <1>2, <1>3, <2>1, RankDecreases
  <2>2. {q \in rest : Later(q, f)} = {}
    BY <2>1
  <2> QED
    BY <2>2, FS_EmptySet DEF Rank
<1>5. f \in Page(rest)
  BY <1>1, <1>4 DEF Page
<1>6. PICK l \in Page(rest) : \A q \in Page(rest) : Rank(rest, q) <= Rank(rest, l)
  <2> DEFINE R == {filter.limit - Rank(rest, q) : q \in Page(rest)}
  <2>1. R \in SUBSET Nat
    BY <1>1, <1>2 DEF Page
  <2>2. R # {}
    BY <1>5
  <2>3. PICK n \in R : \A m \in R : n <= m
    BY <2>1, <2>2, LeastNumber
  <2>4. PICK l \in Page(rest) : n = filter.limit - Rank(rest, l)
    BY <2>3
  <2>5. \A q \in Page(rest) : filter.limit - Rank(rest, l) <= filter.limit - Rank(rest, q)
    BY <2>3, <2>4
  <2>6. \A q \in Page(rest) : Rank(rest, q) <= Rank(rest, l)
    BY <1>1, <1>2, <2>5 DEF Page
  <2> QED
    BY <2>6
<1>7. \A q \in Page(rest) \ {l} : Later(q, l)
  <2> SUFFICES ASSUME NEW q \in Page(rest) \ {l}, ~ Later(q, l) PROVE FALSE
    OBVIOUS
  <2>1. q \in rest /\ l \in rest
    BY DEF Page
  <2>2. Later(l, q)
    BY <2>1, LaterIsOrder
  <2> QED
    BY <1>2, <1>6, <2>1, <2>2, RankDecreases
<1>8. /\ LastRow(rest) \in Page(rest)
      /\ \A q \in Page(rest) \ {LastRow(rest)} : Later(q, LastRow(rest))
  BY <1>7 DEF LastRow
<1>9. ASSUME NEW r \in rest \ Page(rest), ~ Later(LastRow(rest), r) PROVE FALSE
  <2>1. LastRow(rest) \in rest /\ r # LastRow(rest) /\ Rank(rest, LastRow(rest)) < filter.limit
    BY <1>8, <1>9 DEF Page
  <2>2. Later(r, LastRow(rest))
    BY <1>9, <2>1, LaterIsOrder
  <2>3. Rank(rest, r) < Rank(rest, LastRow(rest))
    BY <2>1, <2>2, RankDecreases
  <2>4. ~ (Rank(rest, r) < filter.limit)
    BY <1>9 DEF Page
  <2> QED
    BY <1>1, <1>2, <2>1, <2>3, <2>4
<1> QED
  BY <1>8, <1>9

\* What a page changes.
LEMMA AnswerFacts ==
    ASSUME NEW S, Answer(S)
    PROVE  /\ returned' = [r \in Row |-> returned[r] + (IF r \in Page(Beyond(S)) /\ returned[r] < 2
                                                      THEN 1 ELSE 0)]
           /\ IF Page(Beyond(S)) # Beyond(S)
              THEN cursor' = rows[LastRow(Beyond(S))].stamp /\ walk' = walk
              ELSE walk' = "done" /\ cursor' = cursor
  BY DEF Answer, Page, LastRow, Rank

LEMMA TypePage ==
    ASSUME TypeOK, AskPage
    PROVE  TypeOK'
<1>1. /\ UNCHANGED <<fixed, rows, parent, now, keys, pc, local, writes, history>>
      /\ Fails \/ Answer(Wanted)
  BY AskPageFacts
<1>2. /\ cursor' \in 0 .. MaxNow \cup {None} /\ walk' \in {"on", "done", "failed"}
      /\ returned' \in [Row -> 0 .. 2]
  <2>1. CASE Fails
    BY <2>1 DEF Fails, TypeOK
  <2>2. CASE Answer(Wanted)
    <3>1. Beyond(Wanted) \subseteq Row
      BY DEF Beyond, Wanted, Matching, Found, FoundSince
    <3>2. Page(Beyond(Wanted)) # Beyond(Wanted) => LastRow(Beyond(Wanted)) \in Row
      BY <3>1, LastOfPage DEF Page
    <3>3. returned' \in [Row -> 0 .. 2]
      BY <2>2, AnswerFacts DEF TypeOK
    <3> QED
      BY <2>2, <3>2, <3>3, AnswerFacts DEF TypeOK, RowVersion
  <2> QED
    BY <1>1, <2>1, <2>2
<1> QED
  BY <1>1, <1>2 DEF fixed, history, TypeOK

LEMMA TypeOthers ==
    ASSUME TypeOK, OthersWrite \/ DeleteParent
    PROVE  TypeOK'
<1>1. CASE OthersWrite
  <2>1. PICK t \in Row, state \in {"live", "deleted"}, stamp \in 0 .. MaxNow :
          /\ Written(t, [state |-> state, stamp |-> stamp])
          /\ raced' = raced \cup Races(None, t)
    BY <1>1 DEF OthersWrite
  <2>2. [state |-> state, stamp |-> stamp] \in RowVersion
    BY DEF RowVersion
  <2>3. /\ rows' \in [Row -> RowVersion] /\ unmoved' \subseteq Row /\ tied' \subseteq Row
        /\ lowered' \subseteq Row
    BY <2>1, <2>2, TypeWritten
  <2>4. raced' \subseteq Requests /\ writes' \in 0 .. MaxWrites
    BY <1>1, <2>1, TasksApiAssumption DEF TypeOK, Races, OthersWrite
  <2> QED
    BY <1>1, <2>3, <2>4 DEF OthersWrite, fixed, walking, TypeOK
<1>2. CASE DeleteParent
  BY <1>2 DEF DeleteParent, fixed, walking, history, TypeOK
<1> QED
  BY <1>1, <1>2

LEMMA TypeNext == TypeOK /\ [Next]_vars => TypeOK'
<1> SUFFICES ASSUME TypeOK, [Next]_vars PROVE TypeOK'
  OBVIOUS
<1>1. CASE UNCHANGED vars
  BY <1>1 DEF vars, fixed, walking, history, TypeOK
<1>2. ASSUME NEW r \in Requests, DeleteTask(r) \/ Step(r) PROVE TypeOK'
  BY <1>2, TypeLeave, TypeClaim, TypePatch, TypeCreate
  DEF DeleteTask, Step, Duplicate, PatchTask, PatchSubtask, UpdateTask, UpdateSubtask,
      PostTask, CreateTaskReminder
<1> QED
  BY <1>1, <1>2, TypeBegin, TypePage, TypeOthers DEF Next

\* Every variable keeps its type, ...
THEOREM TypeCorrect == Spec => []TypeOK
  BY TypeInit, TypeNext, PTL DEF Spec

---------------------------------------------------------------------------
(* Keys *)

\* A request holds its key while its transaction is open, and for good when it
\* was committed.
Held(r) == Claimed(r) \/ pc[r] = "committed"

KeysInv ==
    /\ \A r \in Requests : r \in keys <=> pc[r] = "committed"
    /\ \A r, u \in Requests : r # u /\ Held(r) /\ Held(u) => ~ SameKey(r, u)

ActionOf(r) == BeginPatch(r) \/ BeginCreate(r) \/ BeginPost(r) \/ DeleteTask(r) \/ Step(r)

LEMMA NextIsOfOne ==
    ASSUME [Next]_vars
    PROVE  \/ \E r \in Requests : ActionOf(r)
           \/ AskPage \/ OthersWrite \/ DeleteParent \/ UNCHANGED vars
  BY DEF Next, ActionOf

\* What the rest of the system does leaves the requests alone.
LEMMA OthersLeaveRequests ==
    ASSUME AskPage \/ OthersWrite \/ DeleteParent \/ UNCHANGED vars
    PROVE  UNCHANGED <<fixed, keys, pc, local, overwrote>>
<1>1. CASE AskPage
  BY <1>1, AskPageFacts DEF history
<1> QED
  BY <1>1 DEF OthersWrite, DeleteParent, vars, history

\* A request that comes to hold its key has found nobody with it, and keeps the
\* method and the path for which it has the key.
LEMMA KeysSteps ==
    ASSUME TypeOK, NEW r \in Requests, ActionOf(r)
    PROVE  /\ keyOf' = keyOf
           /\ \A u \in Requests \ {r} : pc'[u] = pc[u] /\ local'[u] = local[u]
           /\ Held(r)' => /\ local'[r].kind = local[r].kind
                          /\ local[r].kind = "patch" => local'[r].target = local[r].target
                          /\ Held(r) \/ EnforceIdempotency(r)
           /\ \/ keys' = keys \cup {r} /\ pc'[r] = "committed"
              \/ keys' = keys /\ pc[r] # "committed" /\ pc'[r] # "committed"
<1>1. pc \in [Requests -> Places] /\ local \in [Requests -> Locals]
  BY DEF TypeOK, Places, Locals, Kinds
<1>2. CASE BeginPatch(r) \/ BeginCreate(r) \/ BeginPost(r)
  <2>1. ASSUME NEW kind, NEW t, NEW expected, NEW offset,
               Begin(r, kind, t, expected, offset)
        PROVE  /\ UNCHANGED <<keyOf, keys>> /\ pc[r] = "idle" /\ pc'[r] = "claim"
               /\ \A u \in Requests \ {r} : pc'[u] = pc[u] /\ local'[u] = local[u]
    BY <1>1, <2>1 DEF Begin, fixed
  <2> QED
    BY <1>2, <2>1 DEF BeginPatch, BeginCreate, BeginPost, Held, Claimed
<1>3. ASSUME Leave(r), pc[r] # "committed"
      PROVE  /\ pc'[r] = "done" /\ UNCHANGED <<keys, local, keyOf>>
             /\ \A u \in Requests \ {r} : pc'[u] = pc[u]
  BY <1>1, <1>3 DEF Leave, fixed
<1>4. CASE DeleteTask(r) \/ Duplicate(r) \/ PostTask(r) \/ CreateTaskReminder(r)
  BY <1>3, <1>4 DEF DeleteTask, Duplicate, PostTask, CreateTaskReminder, Held, Claimed
<1>5. CASE Claim(r)
  <2>1. pc'[r] # "committed"
    BY <1>1, <1>5 DEF Claim, TypeOK
  <2> QED
    BY <1>1, <1>5, <2>1 DEF Claim, fixed
<1>6. CASE Load(r)
  BY <1>1, <1>3, <1>6 DEF Load, fixed, Held, Claimed
<1>7. CASE Update(r)
  BY <1>1, <1>7 DEF Update, fixed, Held, Claimed, Locals
<1>8. CASE CommitPatch(r) \/ CommitCreate(r)
  BY <1>1, <1>8 DEF CommitPatch, CommitCreate, fixed, Held, Claimed
<1>9. CASE CreateForTask(r)
  BY <1>1, <1>3, <1>9 DEF CreateForTask, fixed, Held, Claimed
<1>10. CASE CreateSubtask(r)
  <2>1. pc[r] = "insert" /\ pc' = [pc EXCEPT ![r] = "commit"] /\ UNCHANGED <<fixed, keys>>
    BY <1>10 DEF CreateSubtask
  <2>2. PICK t \in Row : local' = [local EXCEPT ![r].target = t, ![r].stamp = now + 1]
    BY <1>10 DEF CreateSubtask
  <2>3. local[r].kind = "create" /\ local'[r].kind = local[r].kind
    BY <1>1, <2>1, <2>2 DEF Locals, TypeOK
  <2> QED
    BY <1>1, <2>1, <2>2, <2>3 DEF fixed, Held, Claimed
<1> QED
  BY <1>2, <1>4, <1>5, <1>6, <1>7, <1>8, <1>9, <1>10
  DEF ActionOf, Step, PatchTask, PatchSubtask, UpdateTask, UpdateSubtask

LEMMA KeysInit == Init => KeysInv
  BY DEF Init, KeysInv, Held, Claimed

LEMMA KeysNext == TypeOK /\ KeysInv /\ [Next]_vars => KeysInv'
<1> SUFFICES ASSUME TypeOK, KeysInv, [Next]_vars PROVE KeysInv'
  OBVIOUS
<1>1. ASSUME UNCHANGED <<fixed, keys, pc, local, overwrote>> PROVE KeysInv'
  BY <1>1 DEF fixed, KeysInv, Held, Claimed, SameKey
<1>2. ASSUME NEW r \in Requests, ActionOf(r) PROVE KeysInv'
  <2>1. \A u \in Requests : u \in keys' <=> pc'[u] = "committed"
    BY <1>2, KeysSteps DEF KeysInv
  <2>2. ASSUME NEW u \in Requests \ {r}, Held(u)', Held(r)', SameKey(r, u)' PROVE FALSE
    <3>1. SameKey(r, u) /\ SameKey(u, r) /\ Held(u)
      BY <1>2, <2>2, KeysSteps DEF SameKey, Held, Claimed
    <3>2. CASE Held(r)
      BY <3>1, <3>2 DEF KeysInv
    <3>3. CASE EnforceIdempotency(r)
      BY <3>1, <3>3 DEF EnforceIdempotency, KeysInv, Held
    <3> QED
      BY <1>2, <2>2, <3>2, <3>3, KeysSteps
  <2>3. ASSUME NEW u \in Requests \ {r}, NEW v \in Requests \ {r}, u # v, Held(u)', Held(v)'
        PROVE  ~ SameKey(u, v)'
    <3>1. Held(u) /\ Held(v) /\ (SameKey(u, v)' <=> SameKey(u, v))
      BY <1>2, <2>3, KeysSteps DEF Held, Claimed, SameKey
    <3> QED
      BY <2>3, <3>1 DEF KeysInv
  <2>4. \A u \in Requests : SameKey(u, r)' => SameKey(r, u)'
    BY DEF SameKey
  <2> QED
    BY <2>1, <2>2, <2>3, <2>4 DEF KeysInv
<1> QED
  BY <1>1, <1>2, NextIsOfOne, OthersLeaveRequests

\* ... of two requests with one key for one method and path, only one is
\* committed, ...
THEOREM RequestsAreSingle == Spec => []CarriedOutOnce
<1>1. TypeOK /\ KeysInv => CarriedOutOnce
  BY DEF TypeOK, KeysInv, CarriedOutOnce, Held
<1> QED
  BY <1>1, TypeInit, TypeNext, KeysInit, KeysNext, PTL DEF Spec

---------------------------------------------------------------------------
(* Versions *)

\* A row that the client of r means to replace.
IsExpected(r, row) ==
    /\ row.state = "live"
    /\ local[r].expected # None /\ local[r].offset = 0 => row.stamp = local[r].expected

\* A patch that has read the row its client expects still finds it when it
\* writes, or has raced; and a row that is being created is absent.
VersionsInv ==
    \A r \in Requests :
        /\ pc[r] = "update" /\ r \notin raced => IsExpected(r, rows[local[r].target])
        /\ pc[r] \in {"commit", "committed"} /\ local[r].kind = "patch" /\ r \notin raced
             => IsExpected(r, overwrote[r])
        /\ pc[r] = "commit" /\ local[r].kind = "create"
             => rows[local[r].target].state = "absent"

\* What VersionsInv says of one request.
Version(r) ==
    /\ pc[r] = "update" /\ r \notin raced => IsExpected(r, rows[local[r].target])
    /\ pc[r] \in {"commit", "committed"} /\ local[r].kind = "patch" /\ r \notin raced
         => IsExpected(r, overwrote[r])
    /\ pc[r] = "commit" /\ local[r].kind = "create"
         => rows[local[r].target].state = "absent"

LEMMA VersionsInit == Init => VersionsInv
  BY DEF Init, VersionsInv

\* It is not disturbed while the request stays where it is and its row stays, or
\* nobody counts on the row.
LEMMA VersionStays ==
    ASSUME NEW r \in Requests, Version(r), pc'[r] = pc[r], local'[r] = local[r],
           overwrote'[r] = overwrote[r], raced \subseteq raced',
           \/ rows'[local[r].target] = rows[local[r].target]
           \/ /\ pc[r] = "update" => r \in raced'
              /\ ~ (pc[r] = "commit" /\ local[r].kind = "create")
    PROVE  Version(r)'
  BY DEF Version, IsExpected

\* A request that writes its row.
LEMMA VersionsCommit ==
    ASSUME TypeOK, VersionsInv, NEW r \in Requests, CommitPatch(r) \/ CommitCreate(r)
    PROVE  VersionsInv'
<1> DEFINE t == local[r].target
<1>1. /\ pc[r] = "commit" /\ t \in Row
      /\ local[r].stamp \in 0 .. MaxNow
      /\ UNCHANGED <<local, overwrote>>
      /\ pc'[r] = "committed" /\ \A u \in Requests \ {r} : pc'[u] = pc[u]
  BY DEF TypeOK, CommitPatch, CommitCreate
<1>2. PICK row \in RowVersion : Written(t, row)
  BY <1>1 DEF TypeOK, CommitPatch, CommitCreate, RowVersion
<1>3. \A q \in Row \ {t} : rows'[q] = rows[q]
  BY <1>1, <1>2, TypeWritten
<1>4. \/ local[r].kind = "patch" /\ raced' = raced \cup Races(r, t)
      \/ local[r].kind = "create" /\ raced' = raced
  BY DEF CommitPatch, CommitCreate
<1>5. \A u \in Requests : Version(u)
  BY DEF VersionsInv, Version
<1>6. Version(r)'
  BY <1>1, <1>4, <1>5 DEF Version, IsExpected, Races
<1>7. ASSUME NEW u \in Requests \ {r} PROVE Version(u)'
  <2>1. CASE local[u].target = t
    <3>1. pc[u] # "commit"
      BY <1>1, <2>1 DEF TypeOK
    <3>2. pc[u] = "update" => u \in raced'
      <4>1. CASE local[r].kind = "patch"
        BY <1>4, <2>1, <4>1 DEF Races
      <4>2. CASE local[r].kind = "create"
        <5>1. rows[t].state = "absent"
          BY <1>1, <1>5, <4>2 DEF Version
        <5>2. rows[local[u].target].state # "live" /\ Version(u)
          BY <1>5, <2>1, <5>1
        <5>3. pc[u] = "update" => u \in raced
          BY <5>2 DEF Version, IsExpected
        <5> QED
          BY <1>4, <4>2, <5>3
      <4> QED
        BY <1>4, <4>1, <4>2
    <3> QED
      BY <1>1, <1>4, <1>5, <3>1, <3>2, VersionStays
  <2>2. CASE local[u].target # t /\ local[u].target \in Row
    BY <1>1, <1>3, <1>4, <1>5, <2>2, VersionStays
  <2>3. CASE local[u].target \notin Row
    <3>1. pc[u] \notin {"update", "commit", "committed"}
      BY <2>3 DEF TypeOK
    <3> QED
      BY <1>1, <3>1 DEF Version
  <2> QED
    BY <2>1, <2>2, <2>3
<1> QED
  BY <1>6, <1>7 DEF VersionsInv, Version

\* A step of a request that writes nothing yet.
LEMMA VersionsStep ==
    ASSUME TypeOK, VersionsInv, NEW r \in Requests, ActionOf(r),
           ~ CommitPatch(r), ~ CommitCreate(r)
    PROVE  VersionsInv'
<1>1. \A u \in Requests \ {r} : pc'[u] = pc[u] /\ local'[u] = local[u]
  BY KeysSteps
<1>2. \A u \in Requests : Version(u)
  BY DEF VersionsInv, Version
<1>3. pc \in [Requests -> Places] /\ local \in [Requests -> Locals]
      /\ overwrote \in [Requests -> RowVersion]
  BY DEF TypeOK, Places, Locals, Kinds
<1> DEFINE Quiet == /\ rows' = rows /\ raced' = raced
                    /\ \A u \in Requests \ {r} : overwrote'[u] = overwrote[u]
                    /\ Version(r)'
<1>4. Quiet
  <2>1. ASSUME UNCHANGED <<rows, history>>, pc'[r] \notin {"update", "commit", "committed"}
        PROVE  Quiet
    BY <2>1 DEF history, Version
  <2>2. ASSUME NEW kind, NEW t, NEW expected, NEW offset,
               Begin(r, kind, t, expected, offset) PROVE Quiet
    BY <1>3, <2>1, <2>2 DEF Begin
  <2>3. ASSUME Leave(r) PROVE Quiet
    BY <1>3, <2>1, <2>3 DEF Leave
  <2>4. CASE Claim(r)
    <3>1. pc'[r] \in {"load", "parent", "post"}
      BY <1>3, <2>4 DEF Claim, TypeOK
    <3> QED
      BY <2>1, <2>4, <3>1 DEF Claim
  <2>5. CASE Load(r) /\ ~ Leave(r)
    <3>1. /\ rows[local[r].target].state = "live"
          /\ Expected(r)
          /\ pc'[r] = "update" /\ UNCHANGED <<rows, local, history>>
      BY <1>3, <2>5 DEF Load
    <3>2. local[r].expected \in 0 .. MaxNow \cup {None}
      BY <1>3 DEF Locals
    <3>3. local[r].expected # None /\ local[r].offset = 0
            => rows[local[r].target].stamp = local[r].expected
      BY <3>1, <3>2 DEF Expected
    <3> QED
      BY <3>1, <3>3 DEF history, Version, IsExpected
  <2>6. CASE Update(r)
    <3>1. /\ pc[r] = "update" /\ pc'[r] = "commit" /\ UNCHANGED <<rows, raced>>
          /\ overwrote' = [overwrote EXCEPT ![r] = rows[local[r].target]]
          /\ local[r].kind = "patch"
      BY <1>3, <2>6 DEF Update, TypeOK
    <3>2. /\ local'[r].kind = "patch" /\ local'[r].expected = local[r].expected
          /\ local'[r].offset = local[r].offset
      BY <1>3, <2>6, <3>1 DEF Update, Locals
    <3>3. overwrote'[r] = rows[local[r].target]
      BY <1>3, <3>1
    <3> QED
      BY <1>2, <1>3, <3>1, <3>2, <3>3 DEF Version, IsExpected
  <2>7. CASE CreateForTask(r) /\ ~ Leave(r)
    BY <1>3, <2>1, <2>7 DEF CreateForTask
  <2>8. CASE CreateSubtask(r)
    <3>1. PICK t \in Row : /\ rows[t].state = "absent"
                           /\ local' = [local EXCEPT ![r].target = t, ![r].stamp = now + 1]
      BY <2>8 DEF CreateSubtask
    <3>2. local'[r].target = t /\ local'[r].kind = "create"
      BY <1>3, <2>8, <3>1 DEF CreateSubtask, Locals, TypeOK
    <3> QED
      BY <1>3, <2>8, <3>1, <3>2 DEF CreateSubtask, history, Version
  <2> QED
    BY <2>2, <2>3, <2>4, <2>5, <2>6, <2>7, <2>8
    DEF ActionOf, Step, BeginPatch, BeginCreate, BeginPost, DeleteTask, Duplicate, PostTask,
        CreateTaskReminder, PatchTask, PatchSubtask, UpdateTask, UpdateSubtask
<1>5. \A u \in Requests \ {r} : Version(u)'
  BY <1>1, <1>2, <1>4, VersionStays
<1>6. \A u \in Requests : Version(u)'
  BY <1>4, <1>5
<1> QED
  BY <1>6 DEF VersionsInv, Version

LEMMA VersionsOthers ==
    ASSUME TypeOK, VersionsInv, OthersWrite
    PROVE  VersionsInv'
<1>1. PICK t \in Row, state \in {"live", "deleted"}, stamp \in 0 .. MaxNow :
        /\ ~ Locked(t)
        /\ Written(t, [state |-> state, stamp |-> stamp])
        /\ raced' = raced \cup Races(None, t)
  BY DEF OthersWrite
<1>2. [state |-> state, stamp |-> stamp] \in RowVersion
  BY DEF RowVersion
<1>3. \A q \in Row \ {t} : rows'[q] = rows[q]
  BY <1>1, <1>2, TypeWritten
<1>4. UNCHANGED <<pc, local, overwrote>> /\ raced \subseteq raced'
  BY <1>1 DEF OthersWrite
<1>5. ASSUME NEW u \in Requests PROVE Version(u)'
  <2>1. Version(u)
    BY DEF VersionsInv, Version
  <2>2. CASE local[u].target = t
    BY <1>1, <1>4, <2>1, <2>2, VersionStays, TasksApiAssumption DEF Locked, Races
  <2>3. CASE local[u].target # t /\ local[u].target \in Row
    BY <1>3, <1>4, <2>1, <2>3, VersionStays
  <2>4. CASE local[u].target \notin Row
    BY <1>4, <2>4 DEF TypeOK, Version
  <2> QED
    BY <2>2, <2>3, <2>4
<1> QED
  BY <1>5 DEF VersionsInv, Version

LEMMA VersionsNext == TypeOK /\ VersionsInv /\ [Next]_vars => VersionsInv'
<1> SUFFICES ASSUME TypeOK, VersionsInv, [Next]_vars PROVE VersionsInv'
  OBVIOUS
<1>1. ASSUME UNCHANGED <<rows, pc, local, history>> PROVE VersionsInv'
  BY <1>1 DEF history, VersionsInv, IsExpected
<1>2. CASE AskPage \/ DeleteParent \/ UNCHANGED vars
  BY <1>1, <1>2, AskPageFacts DEF DeleteParent, vars
<1> QED
  BY <1>2, NextIsOfOne, VersionsCommit, VersionsStep, VersionsOthers

\* ... a patch replaces a live row, and the version that its client has seen, if
\* it names it in UTC, unless another write came between its SELECT and UPDATE, ...
THEOREM PatchesReplaceTheExpected == Spec => []OverwritesTheExpected
<1>1. VersionsInv => OverwritesTheExpected
  BY DEF VersionsInv, IsExpected, OverwritesTheExpected
<1> QED
  BY <1>1, TypeInit, TypeNext, VersionsInit, VersionsNext, PTL DEF Spec

---------------------------------------------------------------------------
(* The walk *)

\* A walk goes down the stamps: what was shown is not below the cursor, and what
\* is still to be shown is below it.
WalkInv ==
    /\ Ties(rows) \subseteq tied
    /\ unmoved \cap lowered = {}
    /\ \A r \in Row \ lowered :
          /\ returned[r] <= 1
          /\ walk = "on" /\ returned[r] = 1 => cursor # None /\ rows[r].stamp >= cursor
    /\ \A r \in (unmoved \cap Wanted) \ tied :
          returned[r] = 0 => /\ walk # "done"
                             /\ walk = "on" => cursor = None \/ rows[r].stamp < cursor

LEMMA WalkInit == Init => WalkInv
<1> SUFFICES ASSUME Init PROVE WalkInv
  OBVIOUS
<1>1. lowered = {} /\ tied = Ties(rows) /\ cursor = None /\ walk = "on"
      /\ \A r \in Row : returned[r] = 0
  BY DEF Init
<1> QED
  BY <1>1 DEF WalkInv

LEMMA WantedTypes == Wanted \subseteq Row
  BY DEF Wanted, Matching, Found, FoundSince

\* Whether a row is wanted depends on nothing but the row.
LEMMA WantedDependsOnRow ==
    ASSUME NEW r \in Row, rows'[r] = rows[r], UNCHANGED <<table, filter>>, r \in Wanted'
    PROVE  r \in Wanted
  BY DEF Wanted, Matching, Found, FoundSince

\* A write of a row does not disturb the walk.
LEMMA WalkWritten ==
    ASSUME TypeOK, WalkInv, NEW t \in Row, NEW row \in RowVersion, Written(t, row),
           UNCHANGED <<table, filter, cursor, walk, returned>>
    PROVE  WalkInv'
<1>1. /\ rows'[t] = row /\ \A q \in Row \ {t} : rows'[q] = rows[q]
      /\ unmoved' = unmoved \ {t} /\ unmoved \subseteq Row
      /\ tied' = tied \cup Ties(rows')
      /\ lowered' = IF row.stamp < rows[t].stamp THEN lowered \cup {t} ELSE lowered
  BY TypeWritten DEF Written, TypeOK
<1>2. Ties(rows)' \subseteq tied'
  BY <1>1 DEF Ties
<1>3. unmoved' \cap lowered' = {}
  BY <1>1 DEF WalkInv
<1>4. ASSUME NEW r \in Row \ lowered'
      PROVE  /\ returned'[r] <= 1
             /\ walk' = "on" /\ returned'[r] = 1 => cursor' # None /\ rows'[r].stamp >= cursor'
  <2>1. /\ returned[r] <= 1
        /\ walk = "on" /\ returned[r] = 1 => cursor # None /\ rows[r].stamp >= cursor
    BY <1>1, <1>4 DEF WalkInv
  <2>2. /\ rows[r].stamp \in Nat /\ rows'[r].stamp \in Nat
        /\ cursor # None => cursor \in Nat
    BY <1>1 DEF TypeOK, RowVersion
  <2>3. rows'[r].stamp >= rows[r].stamp
    BY <1>1, <1>4, <2>2
  <2> QED
    BY <2>1, <2>2, <2>3
<1>5. ASSUME NEW r \in (unmoved' \cap Wanted') \ tied', returned'[r] = 0
      PROVE  /\ walk' # "done"
             /\ walk' = "on" => cursor' = None \/ rows'[r].stamp < cursor'
  <2>1. r \in unmoved /\ r \notin tied /\ r \in Row /\ rows'[r] = rows[r]
    BY <1>1, <1>5
  <2>2. r \in Wanted
    BY <1>5, <2>1, WantedDependsOnRow
  <2> QED
    BY <1>5, <2>1, <2>2 DEF WalkInv
<1> QED
  BY <1>2, <1>3, <1>4, <1>5 DEF WalkInv, Ties

\* A page that is answered takes the walk on.
LEMMA WalkAnswer ==
    ASSUME TypeOK, WalkInv, walk = "on", Answer(Wanted),
           UNCHANGED <<table, filter, rows, unmoved, tied, lowered>>
    PROVE  WalkInv'
<1> DEFINE rest == Beyond(Wanted)
           last == LastRow(rest)
<1>1. rest \in SUBSET Row /\ Page(rest) \subseteq rest
      /\ \A r \in Row : r \in rest <=> r \in Wanted /\ (cursor = None \/ rows[r].stamp < cursor)
  BY WantedTypes DEF Beyond, Page
<1>2. /\ \A r \in Row : returned'[r] = returned[r] + (IF r \in Page(rest) /\ returned[r] < 2
                                                     THEN 1 ELSE 0)
      /\ IF Page(rest) # rest THEN cursor' = rows[last].stamp /\ walk' = walk
         ELSE walk' = "done" /\ cursor' = cursor
  BY AnswerFacts
<1>3. /\ \A r \in Row : rows[r].stamp \in Nat /\ returned[r] \in 0 .. 2
      /\ cursor # None => cursor \in Nat
      /\ None \notin Nat
  BY TasksApiAssumption DEF TypeOK, RowVersion
<1>4. Page(rest) # rest =>
        /\ last \in Page(rest) /\ last \in Row
        /\ \A q \in Page(rest) \ {last} : Later(q, last)
        /\ \A r \in rest \ Page(rest) : Later(last, r)
  BY <1>1, LastOfPage
<1>5. Page(rest) # rest =>
        /\ \A q \in Page(rest) : rows[q].stamp >= rows[last].stamp
        /\ \A r \in rest \ Page(rest) : rows[last].stamp >= rows[r].stamp
  <2> SUFFICES ASSUME Page(rest) # rest
               PROVE  /\ \A q \in Page(rest) : rows[q].stamp >= rows[last].stamp
                      /\ \A r \in rest \ Page(rest) : rows[last].stamp >= rows[r].stamp
    OBVIOUS
  <2> HIDE DEF rest, last
  <2>1. ASSUME NEW q \in Page(rest) PROVE rows[q].stamp >= rows[last].stamp
    <3>1. q \in Row /\ rows[q].stamp \in Nat
      BY <1>1, <1>3
    <3>2. CASE q = last
      BY <3>1, <3>2
    <3>3. CASE q # last
      BY <1>4, <3>1, <3>3, LaterIsOrder
    <3> QED
      BY <3>2, <3>3
  <2>2. ASSUME NEW r \in rest \ Page(rest) PROVE rows[last].stamp >= rows[r].stamp
    BY <1>1, <1>4, LaterIsOrder
  <2> QED
    BY <2>1, <2>2
<1> HIDE DEF rest, last
<1>6. ASSUME NEW r \in Row \ lowered
      PROVE  /\ returned'[r] <= 1
             /\ walk' = "on" /\ returned'[r] = 1 => cursor' # None /\ rows[r].stamp >= cursor'
  <2>1. /\ returned[r] <= 1
        /\ returned[r] = 1 => cursor # None /\ rows[r].stamp >= cursor
    BY <1>6 DEF WalkInv
  <2>2. CASE r \in Page(rest)
    <3>1. returned[r] = 0
      BY <1>1, <1>3, <2>1, <2>2
    <3>2. returned'[r] = 1
      BY <1>2, <2>2, <3>1
    <3>3. walk' = "on" => cursor' = rows[last].stamp /\ cursor' \in Nat /\ rows[r].stamp >= cursor'
      BY <1>2, <1>3, <1>4, <1>5, <2>2
    <3> QED
      BY <1>3, <3>2, <3>3
  <2>3. CASE r \notin Page(rest)
    <3>1. returned'[r] = returned[r]
      BY <1>2, <1>3, <2>3
    <3>2. ASSUME walk' = "on", returned[r] = 1
          PROVE  cursor' # None /\ rows[r].stamp >= cursor'
      <4>1. cursor' = rows[last].stamp /\ last \in rest /\ last \in Row
        BY <1>1, <1>2, <1>4, <3>2
      <4>2. cursor \in Nat /\ rows[r].stamp >= cursor /\ rows[last].stamp < cursor
        BY <1>1, <1>3, <2>1, <3>2, <4>1
      <4> QED
        BY <1>3, <4>1, <4>2
    <3> QED
      BY <2>1, <3>1, <3>2
  <2> QED
    BY <2>2, <2>3
<1>7. ASSUME NEW r \in (unmoved \cap Wanted) \ tied, returned'[r] = 0
      PROVE  walk' = "on" /\ rows[r].stamp < cursor'
  <2>1. r \in Row
    BY WantedTypes
  <2>2. returned[r] = 0 /\ r \notin Page(rest)
    BY <1>2, <1>3, <1>7, <2>1
  <2>3. r \in rest
    BY <1>1, <2>1, <2>2 DEF WalkInv
  <2>4. /\ walk' = "on" /\ cursor' = rows[last].stamp
        /\ last \in Row /\ last # r /\ rows[last].stamp >= rows[r].stamp
    BY <1>2, <1>4, <1>5, <2>2, <2>3
  <2>5. rows[last].stamp # rows[r].stamp
    BY <2>1, <2>4 DEF WalkInv, Ties
  <2> QED
    BY <1>3, <2>1, <2>4, <2>5
<1>8. Wanted' = Wanted /\ Ties(rows)' = Ties(rows)
  BY DEF Wanted, Matching, Found, FoundSince, Ties
<1> QED
  BY <1>6, <1>7, <1>8 DEF WalkInv

LEMMA WalkUnmoved ==
    ASSUME WalkInv, UNCHANGED <<table, filter, rows, unmoved, tied, lowered, returned, cursor>>,
           walk' = walk \/ walk' = "failed"
    PROVE  WalkInv'
<1>1. Wanted' = Wanted /\ Ties(rows)' = Ties(rows)
  BY DEF Wanted, Matching, Found, FoundSince, Ties
<1> QED
  BY <1>1 DEF WalkInv

LEMMA WalkNext == TypeOK /\ WalkInv /\ [Next]_vars => WalkInv'
<1> SUFFICES ASSUME TypeOK, WalkInv, [Next]_vars PROVE WalkInv'
  OBVIOUS
<1>1. ASSUME UNCHANGED <<fixed, rows, walking, history>> PROVE WalkInv'
  BY <1>1, WalkUnmoved DEF fixed, walking, history
<1>2. ASSUME NEW r \in Requests, ActionOf(r) PROVE WalkInv'
  <2>1. ASSUME NEW kind, NEW t, NEW expected, NEW offset,
               Begin(r, kind, t, expected, offset) PROVE WalkInv'
    BY <1>1, <2>1 DEF Begin
  <2>2. ASSUME Leave(r) PROVE WalkInv'
    BY <1>1, <2>2 DEF Leave
  <2>3. CASE Claim(r) \/ Load(r) \/ CreateForTask(r) \/ CreateSubtask(r)
    BY <1>1, <2>2, <2>3 DEF Claim, Load, CreateForTask, CreateSubtask
  <2>4. CASE Update(r)
    BY <2>4, WalkUnmoved DEF Update, fixed, walking
  <2>5. CASE CommitPatch(r) \/ CommitCreate(r)
    <3>1. local[r].target \in Row /\ local[r].stamp \in 0 .. MaxNow
      BY <2>5 DEF TypeOK, CommitPatch, CommitCreate
    <3>2. PICK row \in RowVersion : Written(local[r].target, row)
      BY <2>5, <3>1 DEF TypeOK, CommitPatch, CommitCreate, RowVersion
    <3> QED
      BY <2>5, <3>1, <3>2, WalkWritten DEF CommitPatch, CommitCreate, fixed, walking
  <2> QED
    BY <1>2, <2>1, <2>2, <2>3, <2>4, <2>5
    DEF ActionOf, Step, BeginPatch, BeginCreate, BeginPost, DeleteTask, Duplicate, PostTask,
        CreateTaskReminder, PatchTask, PatchSubtask, UpdateTask, UpdateSubtask
<1>3. CASE AskPage
  BY <1>3, AskPageFacts, WalkAnswer, WalkUnmoved DEF Fails, fixed, history
<1>4. CASE OthersWrite
  <2>1. PICK t \in Row, row \in RowVersion : Written(t, row)
    BY <1>4 DEF OthersWrite, RowVersion
  <2> QED
    BY <1>4, <2>1, WalkWritten DEF OthersWrite, fixed, walking
<1> QED
  BY <1>1, <1>2, <1>3, <1>4, NextIsOfOne DEF DeleteParent, vars

\* ... and a walk over the pages is shown every row that matches once, but for the
\* rows that were written, or had the updated_at of another, meanwhile.
THEOREM WalksAreExact == Spec => []WalkIsExact
<1>1. TypeOK /\ WalkInv => WalkIsExact
  <2> SUFFICES ASSUME TypeOK, WalkInv PROVE WalkIsExact
    OBVIOUS
  <2>1. \A r \in Row : returned[r] \in 0 .. 2
    BY DEF TypeOK
  <2>2. ASSUME walk = "done", NEW r \in (unmoved \cap Wanted) \ tied PROVE returned[r] = 1
    <3>1. r \in Row \ lowered /\ returned[r] # 0
      BY <2>2, WantedTypes DEF WalkInv
    <3> QED
      BY <2>1, <3>1 DEF WalkInv
  <2> QED
    BY <2>2 DEF WalkInv, WalkIsExact
<1> QED
  BY <1>1, TypeInit, TypeNext, WalkInit, WalkNext, PTL DEF Spec

---------------------------------------------------------------------------
(* The task list of the client: lists *)

LEMMA VersionsIs ==
    ASSUME NEW list, NEW k, NEW v
    PROVE  v \in Versions(list, k) <=> \E i \in DOMAIN list : list[i].id = k /\ list[i].ver = v
BY DEF Versions, ToSet

LEMMA VersionsNone ==
    ASSUME NEW list, NEW k
    PROVE  Versions(list, k) = {} <=> \A i \in DOMAIN list : list[i].id # k
BY DEF Versions, ToSet

\* A filter keeps what is not about the id, and makes nothing twice.
KeptTo(list, id, s, n) ==
    /\ s \in Seq(Task)
    /\ \A j \in DOMAIN s : \E i \in 1 .. n : list[i] = s[j] /\ s[j].id # id
    /\ \A i \in 1 .. n : list[i].id # id => \E j \in DOMAIN s : s[j] = list[i]
    /\ \A k : (\A i, j \in 1 .. n : list[i].id = k /\ list[j].id = k => i = j) => Once(s, k)

LEMMA KeptOne ==
    ASSUME NEW list \in Seq(Task), NEW id, NEW n \in 1 .. Len(list), NEW s,
           KeptTo(list, id, s, n - 1)
    PROVE  KeptTo(list, id, IF list[n].id = id THEN s ELSE Append(s, list[n]), n)
<1>1. list[n] \in Task /\ n - 1 \in Nat /\ s \in Seq(Task) /\ Len(s) \in Nat
  BY DEF KeptTo
<1>2. 1 .. n - 1 \subseteq 1 .. n /\ n \in 1 .. n
  OBVIOUS
<1>3. CASE list[n].id = id
  <2>1. \A i \in 1 .. n : list[i].id # id => i \in 1 .. n - 1
    BY <1>3
  <2>2. QED
    BY <1>2, <1>3, <2>1 DEF KeptTo
<1>4. CASE list[n].id # id
  <2> DEFINE a == Append(s, list[n])
  <2>1. /\ a \in Seq(Task) /\ DOMAIN a = 1 .. Len(s) + 1 /\ DOMAIN s = 1 .. Len(s)
        /\ a[Len(s) + 1] = list[n] /\ \A j \in DOMAIN s : a[j] = s[j]
    BY <1>1
  <2> HIDE DEF a
  <2>2. ASSUME NEW j \in DOMAIN a
        PROVE  \E i \in 1 .. n : list[i] = a[j] /\ a[j].id # id
    <3>1. CASE j = Len(s) + 1
      BY <1>2, <1>4, <2>1, <3>1
    <3>2. CASE j # Len(s) + 1
      <4>1. j \in DOMAIN s
        BY <1>1, <2>1, <2>2, <3>2
      <4>2. PICK i \in 1 .. n - 1 : list[i] = s[j] /\ s[j].id # id
        BY <4>1 DEF KeptTo
      <4>3. QED
        BY <1>2, <2>1, <4>1, <4>2
    <3>3. QED
      BY <3>1, <3>2
  <2>3. ASSUME NEW i \in 1 .. n, list[i].id # id
        PROVE  \E j \in DOMAIN a : a[j] = list[i]
    <3>1. CASE i = n
      <4>1. Len(s) + 1 \in DOMAIN a
        BY <1>1, <2>1
      <4>2. QED
        BY <2>1, <3>1, <4>1
    <3>2. CASE i # n
      <4>1. i \in 1 .. n - 1
        BY <2>3, <3>2
      <4>2. PICK j \in DOMAIN s : s[j] = list[i]
        BY <2>3, <4>1 DEF KeptTo
      <4>3. j \in DOMAIN a
        BY <1>1, <2>1, <4>2
      <4>4. QED
        BY <2>1, <4>2, <4>3
    <3>3. QED
      BY <3>1, <3>2
  <2>4. ASSUME NEW k, \A i, j \in 1 .. n : list[i].id = k /\ list[j].id = k => i = j,
               NEW i \in DOMAIN a, NEW j \in DOMAIN a, a[i].id = k, a[j].id = k
        PROVE  i = j
    <3>1. Once(s, k)
      BY <1>2, <2>4 DEF KeptTo
    <3>2. ASSUME NEW x \in DOMAIN s, a[x].id = k, a[Len(s) + 1].id = k PROVE FALSE
      <4>1. PICK y \in 1 .. n - 1 : list[y] = s[x]
        BY <3>2 DEF KeptTo
      <4>2. y # n
        BY <4>1
      <4>3. QED
        BY <1>2, <2>1, <2>4, <3>2, <4>1, <4>2
    <3>3. \A x \in DOMAIN a : x = Len(s) + 1 \/ x \in DOMAIN s
      BY <1>1, <2>1
    <3>4. CASE i \in DOMAIN s /\ j \in DOMAIN s
      BY <2>1, <2>4, <3>1, <3>4 DEF Once
    <3>5. QED
      BY <2>4, <3>2, <3>3, <3>4
  <2>5. \A k : (\A i, j \in 1 .. n : list[i].id = k /\ list[j].id = k => i = j) => Once(a, k)
    <3> SUFFICES ASSUME NEW k,
                        \A i, j \in 1 .. n : list[i].id = k /\ list[j].id = k => i = j
                 PROVE  Once(a, k)
      OBVIOUS
    <3>1. QED
      BY <2>4 DEF Once
  <2>6. KeptTo(list, id, a, n)
    BY <2>1, <2>2, <2>3, <2>5 DEF KeptTo
  <2>7. QED
    BY <1>4, <2>6 DEF a
<1>5. QED
  BY <1>3, <1>4

\* f is the recursive function by which Without is defined, up to n.
Sifts(f, list, id, n) ==
    f = [m \in 0 .. n |->
           IF m = 0 THEN <<>>
           ELSE IF list[m].id = id THEN f[m - 1] ELSE Append(f[m - 1], list[m])]

LEMMA WithoutIs ==
    ASSUME NEW list \in Seq(Task), NEW id
    PROVE  KeptTo(list, id, Without(list, id), Len(list))
<1> DEFINE Done(n) == \E f : Sifts(f, list, id, n)
           Short == {n \in Nat : n <= Len(list) /\ ~ Done(n)}
<1>1. Len(list) \in Nat
  OBVIOUS
<1>2. Short = {}
  <2>1. SUFFICES ASSUME Short # {} PROVE FALSE
    OBVIOUS
  <2>2. PICK n \in Short : \A m \in Short : n <= m
    <3>1. Short \in SUBSET Nat
      OBVIOUS
    <3>2. QED
      BY <2>1, <3>1, LeastNumber
  <2>3. CASE n = 0
    <3> DEFINE f == [m \in 0 .. 0 |-> <<>>]
    <3>1. Sifts(f, list, id, 0)
      BY DEF Sifts
    <3>2. QED
      BY <2>2, <2>3, <3>1
  <2>4. CASE n # 0
    <3>1. n - 1 \in Nat /\ n - 1 <= Len(list) /\ n - 1 \notin Short
      BY <1>1, <2>2, <2>4
    <3>2. PICK g : Sifts(g, list, id, n - 1)
      BY <3>1
    <3> DEFINE last == IF list[n].id = id THEN g[n - 1] ELSE Append(g[n - 1], list[n])
               f == [m \in 0 .. n |-> IF m = n THEN last ELSE g[m]]
    <3> HIDE DEF last
    <3>3. \A m \in 0 .. n :
             f[m] = IF m = 0 THEN <<>>
                    ELSE IF list[m].id = id THEN f[m - 1] ELSE Append(f[m - 1], list[m])
      <4> SUFFICES ASSUME NEW m \in 0 .. n
                   PROVE  f[m] = IF m = 0 THEN <<>>
                                 ELSE IF list[m].id = id THEN f[m - 1]
                                 ELSE Append(f[m - 1], list[m])
        OBVIOUS
      <4>1. CASE m = n
        <5>1. f[m] = last /\ f[m - 1] = g[m - 1]
          BY <2>2, <2>4, <4>1
        <5>2. QED
          BY <2>4, <4>1, <5>1 DEF last
      <4>2. CASE m # n
        <5>1. m \in 0 .. n - 1 /\ f[m] = g[m]
          BY <2>2, <4>2
        <5>2. g[m] = IF m = 0 THEN <<>>
                     ELSE IF list[m].id = id THEN g[m - 1] ELSE Append(g[m - 1], list[m])
          BY <3>2, <5>1 DEF Sifts
        <5>3. m # 0 => f[m - 1] = g[m - 1]
          BY <2>2, <5>1
        <5>4. QED
          BY <5>1, <5>2, <5>3
      <4>3. QED
        BY <4>1, <4>2
    <3> HIDE DEF f
    <3>4. f = [m \in 0 .. n |-> f[m]]
      BY DEF f
    <3>5. Sifts(f, list, id, n)
      BY <3>3, <3>4 DEF Sifts
    <3>6. QED
      BY <2>2, <3>5
  <2>5. QED
    BY <2>3, <2>4
<1>3. PICK kept : /\ kept = (CHOOSE f : Sifts(f, list, id, Len(list)))
                  /\ Without(list, id) = kept[Len(list)]
  BY DEF Without, Sifts
<1>4. Sifts(kept, list, id, Len(list))
  <2>1. Done(Len(list))
    BY <1>1, <1>2
  <2>2. QED
    BY <1>3, <2>1
<1>5. /\ kept[0] = <<>>
      /\ \A m \in 1 .. Len(list) : kept[m] =
            IF list[m].id = id THEN kept[m - 1] ELSE Append(kept[m - 1], list[m])
  <2>1. kept = [m \in 0 .. Len(list) |->
                  IF m = 0 THEN <<>>
                  ELSE IF list[m].id = id THEN kept[m - 1] ELSE Append(kept[m - 1], list[m])]
    BY <1>4 DEF Sifts
  <2>2. \A m \in 0 .. Len(list) :
           kept[m] = IF m = 0 THEN <<>>
                     ELSE IF list[m].id = id THEN kept[m - 1] ELSE Append(kept[m - 1], list[m])
    <3> DEFINE G(m) == IF m = 0 THEN <<>>
                       ELSE IF list[m].id = id THEN kept[m - 1]
                       ELSE Append(kept[m - 1], list[m])
    <3>1. kept = [m \in 0 .. Len(list) |-> G(m)]
      BY <2>1
    <3> HIDE DEF G
    <3>2. \A m \in 0 .. Len(list) : kept[m] = G(m)
      BY <3>1
    <3>3. QED
      BY <3>2 DEF G
  <2>3. 0 \in 0 .. Len(list) /\ \A m \in 1 .. Len(list) : m \in 0 .. Len(list) /\ m # 0
    BY <1>1
  <2>4. QED
    BY <2>2, <2>3
<1> DEFINE Wrong == {n \in Nat : n <= Len(list) /\ ~ KeptTo(list, id, kept[n], n)}
<1> HIDE DEF Done, Short
<1>6. Wrong = {}
  <2>1. SUFFICES ASSUME Wrong # {} PROVE FALSE
    OBVIOUS
  <2>2. PICK n \in Wrong : \A m \in Wrong : n <= m
    <3>1. Wrong \in SUBSET Nat
      OBVIOUS
    <3>2. QED
      BY <2>1, <3>1, LeastNumber
  <2>3. CASE n = 0
    <3>1. KeptTo(list, id, <<>>, 0)
      BY DEF KeptTo, Once
    <3>2. QED
      BY <1>5, <2>2, <2>3, <3>1
  <2>4. CASE n # 0
    <3>1. n \in 1 .. Len(list) /\ n - 1 \in Nat /\ n - 1 <= Len(list) /\ n - 1 \notin Wrong
      BY <1>1, <2>2, <2>4
    <3>2. KeptTo(list, id, kept[n - 1], n - 1)
      BY <3>1
    <3>3. KeptTo(list, id, kept[n], n)
      BY <1>5, <3>1, <3>2, KeptOne
    <3>4. QED
      BY <2>2, <3>3
  <2>5. QED
    BY <2>3, <2>4
<1>7. QED
  BY <1>1, <1>3, <1>6

LEMMA WithoutShows ==
    ASSUME NEW list \in Seq(Task), NEW id, NEW k
    PROVE  /\ Without(list, id) \in Seq(Task)
           /\ Versions(Without(list, id), k) = IF k = id THEN {} ELSE Versions(list, k)
           /\ Once(list, k) => Once(Without(list, id), k)
<1> DEFINE s == Without(list, id)
<1>1. KeptTo(list, id, s, Len(list)) /\ DOMAIN list = 1 .. Len(list)
  BY WithoutIs
<1> HIDE DEF s
<1>2. s \in Seq(Task)
  BY <1>1 DEF KeptTo
<1>3. k = id => Versions(s, k) = {}
  BY <1>1, VersionsNone DEF KeptTo
<1>4. ASSUME k # id, NEW v PROVE v \in Versions(s, k) <=> v \in Versions(list, k)
  <2>1. ASSUME v \in Versions(s, k) PROVE v \in Versions(list, k)
    <3>1. PICK j \in DOMAIN s : s[j].id = k /\ s[j].ver = v
      BY <2>1, VersionsIs
    <3>2. PICK i \in DOMAIN list : list[i] = s[j]
      BY <1>1 DEF KeptTo
    <3>3. QED
      BY <3>1, <3>2, VersionsIs
  <2>2. ASSUME v \in Versions(list, k) PROVE v \in Versions(s, k)
    <3>1. PICK i \in DOMAIN list : list[i].id = k /\ list[i].ver = v
      BY <2>2, VersionsIs
    <3>2. PICK j \in DOMAIN s : s[j] = list[i]
      BY <1>1, <1>4, <3>1 DEF KeptTo
    <3>3. QED
      BY <3>1, <3>2, VersionsIs
  <2>3. QED
    BY <2>1, <2>2
<1>5. Once(list, k) => Once(s, k)
  BY <1>1 DEF KeptTo, Once
<1>6. QED
  BY <1>2, <1>3, <1>4, <1>5 DEF s

LEMMA ReplacedShows ==
    ASSUME NEW list \in Seq(Task), NEW call, call.id \in Nat, call.ver \in Nat, NEW k
    PROVE  /\ Replaced(list, call) \in Seq(Task)
           /\ k # call.id => Versions(Replaced(list, call), k) = Versions(list, k)
           /\ Versions(list, call.id) # {} =>
                 Versions(Replaced(list, call), call.id) = {call.ver}
           /\ Versions(list, k) = {} => Versions(Replaced(list, call), k) = {}
           /\ Once(list, k) => Once(Replaced(list, call), k)
<1> DEFINE s == Replaced(list, call)
<1>1. Fresh(call) \in Task /\ Fresh(call).id = call.id /\ Fresh(call).ver = call.ver
  BY DEF Fresh, Task
<1>2. /\ s \in Seq(Task) /\ DOMAIN s = DOMAIN list
      /\ \A i \in DOMAIN list : s[i] = IF list[i].id = call.id THEN Fresh(call) ELSE list[i]
  BY <1>1 DEF Replaced
<1> HIDE DEF s
<1>3. \A i \in DOMAIN list : s[i].id = list[i].id
  BY <1>1, <1>2
<1>4. Once(list, k) => Once(s, k)
  BY <1>2, <1>3 DEF Once
<1>5. ASSUME Versions(list, k) = {} PROVE Versions(s, k) = {}
  <2>1. \A i \in DOMAIN list : list[i].id # k
    BY <1>5, VersionsNone
  <2>2. \A i \in DOMAIN s : s[i].id # k
    BY <1>2, <1>3, <2>1
  <2>3. QED
    BY <2>2, VersionsNone
<1>6. ASSUME k # call.id, NEW v PROVE v \in Versions(s, k) <=> v \in Versions(list, k)
  BY <1>2, <1>3, <1>6, VersionsIs
<1>7. ASSUME Versions(list, call.id) # {}, NEW v
      PROVE  v \in Versions(s, call.id) <=> v = call.ver
  <2>1. PICK i \in DOMAIN list : list[i].id = call.id
    BY <1>7, VersionsNone
  <2>2. QED
    BY <1>1, <1>2, <1>3, <2>1, VersionsIs
<1>8. k # call.id => Versions(s, k) = Versions(list, k)
  BY <1>6
<1>9. Versions(list, call.id) # {} => Versions(s, call.id) = {call.ver}
  BY <1>7
<1>10. QED
  BY <1>2, <1>4, <1>5, <1>8, <1>9 DEF s

LEMMA PrependShows ==
    ASSUME NEW list \in Seq(Task), NEW t \in Task, NEW k
    PROVE  /\ <<t>> \o list \in Seq(Task)
           /\ Versions(<<t>> \o list, k) =
                 IF k = t.id THEN Versions(list, k) \cup {t.ver} ELSE Versions(list, k)
           /\ Once(list, k) /\ (k = t.id => Versions(list, k) = {}) => Once(<<t>> \o list, k)
<1> DEFINE s == <<t>> \o list
<1>1. Len(list) \in Nat /\ DOMAIN list = 1 .. Len(list)
  OBVIOUS
<1>2. /\ s \in Seq(Task) /\ DOMAIN s = 1 .. Len(list) + 1
      /\ s[1] = t /\ \A i \in DOMAIN list : s[i + 1] = list[i]
  OBVIOUS
<1> HIDE DEF s
<1>3. \A j \in DOMAIN s : j = 1 \/ (j - 1 \in DOMAIN list /\ s[j] = list[j - 1])
  BY <1>1, <1>2
<1>4. 1 \in DOMAIN s /\ \A i \in DOMAIN list : i + 1 \in DOMAIN s
  BY <1>1, <1>2
<1>5. ASSUME NEW v
      PROVE  v \in Versions(s, k) <=> v \in Versions(list, k) \/ (k = t.id /\ v = t.ver)
  <2>1. v \in Versions(s, k) => v \in Versions(list, k) \/ (k = t.id /\ v = t.ver)
    BY <1>2, <1>3, VersionsIs
  <2>2. v \in Versions(list, k) => v \in Versions(s, k)
    BY <1>2, <1>4, VersionsIs
  <2>3. k = t.id /\ v = t.ver => v \in Versions(s, k)
    BY <1>2, <1>4, VersionsIs
  <2>4. QED
    BY <2>1, <2>2, <2>3
<1>6. ASSUME Once(list, k), k = t.id => Versions(list, k) = {},
             NEW i \in DOMAIN s, NEW j \in DOMAIN s, s[i].id = k, s[j].id = k
      PROVE  i = j
  <2>1. k = t.id => \A x \in DOMAIN list : list[x].id # k
    BY <1>6, VersionsNone
  <2>2. CASE i = 1 \/ j = 1
    BY <1>2, <1>3, <1>6, <2>1, <2>2
  <2>3. CASE i # 1 /\ j # 1
    <3>1. i - 1 \in DOMAIN list /\ j - 1 \in DOMAIN list /\ i \in Nat /\ j \in Nat
      BY <1>2, <1>3, <2>3
    <3>2. list[i - 1].id = k /\ list[j - 1].id = k
      BY <1>3, <1>6, <2>3
    <3>3. i - 1 = j - 1
      BY <1>6, <3>1, <3>2 DEF Once
    <3>4. QED
      BY <3>1, <3>3
  <2>4. QED
    BY <2>2, <2>3
<1>7. QED
  BY <1>2, <1>5, <1>6 DEF Once, s

\* The server's version of a task.
Rem(k) == {t.ver : t \in {u \in remote : u.id = k}}

\* The server has finitely many tasks, each once.
RemoteInv ==
    /\ remote \subseteq Task /\ IsFiniteSet(remote)
    /\ \A t, u \in remote : t.id = u.id => t = u

LEMMA RemIs == ASSUME NEW k, NEW v PROVE v \in Rem(k) <=> \E t \in remote : t.id = k /\ t.ver = v
BY DEF Rem

\* What a fetch answers.
LEMMA ListShows ==
    ASSUME RemoteInv, NEW p \in SUBSET remote, NEW k
    PROVE  /\ SetToSeq(p) \in Seq(Task)
           /\ Versions(SetToSeq(p), k) \subseteq Rem(k)
           /\ Once(SetToSeq(p), k)
<1> DEFINE n == Cardinality(p)
           s == SetToSeq(p)
<1>0. IsFiniteSet(p)
  BY FS_Subset DEF RemoteInv
<1>1. n \in Nat /\ ExistsBijection(1 .. n, p)
  BY <1>0, FS_CardinalityType
<1>2. PICK g \in [1 .. n -> p] : IsInjective(g)
  BY <1>1 DEF ExistsBijection, Bijection, Injection
<1>3. s \in [1 .. n -> p] /\ IsInjective(s)
  <2>1. \E f \in [1 .. n -> p] : IsInjective(f)
    BY <1>2
  <2>2. s = CHOOSE f \in [1 .. n -> p] : IsInjective(f)
    BY DEF SetToSeq
  <2> HIDE DEF n, s
  <2>3. QED
    BY <2>1, <2>2
<1> HIDE DEF s
<1>6. s \in Seq(Task) /\ DOMAIN s = 1 .. n
  BY <1>1, <1>3 DEF RemoteInv
<1>8. \A i \in DOMAIN s : s[i] \in remote
  BY <1>3
<1>9. ASSUME NEW v \in Versions(s, k) PROVE v \in Rem(k)
  BY <1>8, <1>9, VersionsIs, RemIs
<1>10. Once(s, k)
  BY <1>3, <1>6, <1>8 DEF Once, RemoteInv, IsInjective
<1>11. QED
  BY <1>6, <1>9, <1>10 DEF s

\* A task the list did not leave out is on it as the server has it.
LEMMA ListedShows ==
    ASSUME RemoteInv, NEW list, NEW k, Versions(list, k) \subseteq Rem(k), k \notin LeftOut(list)
    PROVE  Versions(list, k) = Rem(k)
<1>1. CASE k \notin Ids(remote)
  <2>1. Rem(k) = {}
    BY <1>1 DEF Rem, Ids
  <2>2. QED
    BY <2>1
<1>2. CASE k \in Ids(ToSet(list))
  <2>1. PICK i \in DOMAIN list : list[i].id = k
    BY <1>2 DEF Ids, ToSet
  <2>2. list[i].ver \in Versions(list, k)
    BY <2>1, VersionsIs
  <2>3. ASSUME NEW v \in Rem(k) PROVE v = list[i].ver
    <3>1. PICK t \in remote : t.id = k /\ t.ver = v
      BY <2>3, RemIs
    <3>2. PICK u \in remote : u.id = k /\ u.ver = list[i].ver
      BY <2>2, RemIs
    <3>3. QED
      BY <3>1, <3>2 DEF RemoteInv
  <2>4. QED
    BY <2>2, <2>3
<1>3. QED
  BY <1>1, <1>2 DEF LeftOut

---------------------------------------------------------------------------
(* The task list of the client: requests, and what is in doubt *)

Ops == {"fetch", "create", "update", "delete"}

Fetching(f) == Running(f) /\ calls[f].op = "fetch"
Editing(c, k) == Edits(c) /\ calls[c].id = k
Removing(d) == Running(d) /\ calls[d].op = "delete"
NoEdit(k) == \A c \in Calls : ~ Editing(c, k)

\* Something else was about the task while request c ran.
Met(c, k) == AllTasks \in calls[c].met \/ k \in calls[c].met

\* Requests about the task have crossed, or are about to.
Doubtful(k) == k \in crossed \/ \E c \in Calls : Editing(c, k) /\ Met(c, k)

Among(list) == \A i \in DOMAIN list : list[i].id \in Known

\* Requests that run at the same time have met.
MeetInv ==
    \A c, d \in Calls : c # d /\ Running(c) /\ Running(d) => calls[d].id \in calls[c].met

\* No id is used before it is given out, and a removal has no second part.
KnownCall(c) ==
    /\ Among(calls[c].list) /\ Among(calls[c].before)
    /\ calls[c].op # "fetch" => calls[c].id \in Known
    /\ calls[c].met \subseteq 0 .. Seed + begun
    /\ calls[c].op = "delete" => calls[c].at # "answered"

KnownInv ==
    /\ Among(items) /\ Among(cache)
    /\ \A t \in remote : t.id \in Known
    /\ \A c \in Calls : Running(c) => KnownCall(c)
    /\ crossed \subseteq 0 .. Seed + begun /\ unsure \subseteq Known

ClientInv == ScreenTypeOK /\ RemoteInv /\ MeetInv /\ KnownInv

LEMMA CallFields ==
    ASSUME ScreenTypeOK, NEW c \in Calls, Running(c)
    PROVE  /\ calls[c] \in Call
           /\ calls[c].op \in Ops /\ calls[c].at \in {"sent", "served", "answered"}
           /\ calls[c].id \in Nat /\ calls[c].ver \in Nat
           /\ calls[c].list \in Seq(Task) /\ calls[c].before \in Seq(Task)
           /\ calls[c].met \in SUBSET Nat
           /\ calls[c].op = "fetch" <=> calls[c].id = AllTasks
<1>1. calls[c] \in Call
  BY DEF ScreenTypeOK, Running
<1>2. QED
  BY <1>1 DEF ScreenTypeOK, Call, Ops

LEMMA CallRuns == ASSUME NEW c, calls[c] \in Call PROVE Running(c)
BY DEF Call, Running, Idle

LEMMA EditsKnown ==
    ASSUME ClientInv, NEW c \in Calls, Edits(c)
    PROVE  calls[c].id \in Known /\ calls[c].id # AllTasks
<1>1. calls[c].id \in Known
  BY DEF Edits, ClientInv, KnownInv, KnownCall
<1>2. QED
  BY <1>1, TasksAssumption DEF Known, AllTasks, ClientInv, ScreenTypeOK

\* What is not known yet is nowhere.
LEMMA UnknownIsNowhere ==
    ASSUME ClientInv, NEW k, k \notin Known
    PROVE  /\ Versions(items, k) = {} /\ Versions(cache, k) = {} /\ Rem(k) = {}
           /\ k \notin unsure /\ NoEdit(k)
           /\ \A c \in Calls : Running(c) =>
                 Versions(calls[c].list, k) = {} /\ Versions(calls[c].before, k) = {}
<1>1. ASSUME NEW list, Among(list) PROVE Versions(list, k) = {}
  BY <1>1, VersionsNone DEF Among
<1>2. Rem(k) = {}
  BY RemIs DEF ClientInv, KnownInv
<1>3. NoEdit(k)
  BY EditsKnown DEF NoEdit, Editing
<1>4. QED
  BY <1>1, <1>2, <1>3 DEF ClientInv, KnownInv, KnownCall

LEMMA NoneIsOnce == ASSUME NEW list, NEW k, Versions(list, k) = {} PROVE Once(list, k)
BY VersionsNone DEF Once

\* Who else runs has been met, so a task that is in no doubt has one request
\* at most, and that one runs without a fetch.
LEMMA Alone ==
    ASSUME ClientInv, NEW c \in Calls, NEW k, Editing(c, k), ~ Doubtful(k),
           NEW d \in Calls, d # c, Running(d)
    PROVE  ~ Fetching(d) /\ ~ Editing(d, k) /\ calls[d].id # k
<1>1. calls[d].id \in calls[c].met
  BY DEF ClientInv, MeetInv, Editing, Edits
<1>2. ~ Met(c, k)
  BY DEF Doubtful
<1>3. Fetching(d) => calls[d].id = AllTasks
  BY CallFields DEF Fetching, ClientInv
<1>4. QED
  BY <1>1, <1>2, <1>3 DEF Met, Editing

---------------------------------------------------------------------------
(* The task list of the client: what a step does to the requests *)

\* Of request d nothing has changed but what it has met.
Kept(d) ==
    /\ Running(d) /\ Running(d)'
    /\ calls'[d].op = calls[d].op /\ calls'[d].at = calls[d].at
    /\ calls'[d].id = calls[d].id /\ calls'[d].ver = calls[d].ver
    /\ calls'[d].list = calls[d].list /\ calls'[d].before = calls[d].before

KeptButMet(d, new) ==
    IF Running(d) THEN Kept(d) /\ calls'[d].met = calls[d].met \cup new ELSE ~ Running(d)'

LEMMA MeetsMore ==
    ASSUME NEW m \in Call, NEW x \in Nat, NEW r, r = [m EXCEPT !.met = @ \cup {x}]
    PROVE  /\ r \in Call /\ r.op = m.op /\ r.at = m.at /\ r.id = m.id /\ r.ver = m.ver
           /\ r.list = m.list /\ r.before = m.before /\ r.met = m.met \cup {x}
BY DEF Call

LEMMA SentIs ==
    ASSUME ScreenTypeOK, NEW op \in Ops, NEW id \in Nat, NEW b \in Seq(Task), NEW M \in SUBSET Nat,
           NEW r, r = [op |-> op, at |-> "sent", id |-> id, ver |-> begun + 1,
                       list |-> <<>>, before |-> b, met |-> M]
    PROVE  r \in Call
<1>1. begun + 1 \in Nat /\ <<>> \in Seq(Task)
  BY TasksAssumption DEF ScreenTypeOK
<1>2. QED
  BY <1>1 DEF Call, Ops

\* Request c has started.
Started(c, op, id) ==
    /\ ~ Running(c) /\ Running(c)'
    /\ calls'[c] \in Call
    /\ calls'[c].op = op /\ calls'[c].at = "sent" /\ calls'[c].id = id
    /\ calls'[c].ver = begun + 1 /\ calls'[c].list = <<>> /\ calls'[c].before = items
    /\ calls'[c].met = {calls[e].id : e \in {x \in Calls : Running(x)}}
    /\ \A d \in Calls \ {c} : KeptButMet(d, {id})
    /\ calls' \in [Calls -> Call \cup {Idle}]
    /\ begun < MaxCalls /\ begun' = begun + 1

LEMMA StartIs ==
    ASSUME ScreenTypeOK, NEW c \in Calls, NEW op \in Ops, NEW id \in Nat,
           StartCall(c, Sent(op, id))
    PROVE  Started(c, op, id)
<1> DEFINE M == {calls[e].id : e \in {x \in Calls : Running(x)}}
           S == Sent(op, id)
<1>1. /\ ~ Running(c) /\ begun < MaxCalls /\ begun' = begun + 1
      /\ calls' = [d \in Calls |->
             CASE d = c      -> [S EXCEPT !.met = M]
               [] Running(d) -> [calls[d] EXCEPT !.met = @ \cup {S.id}]
               [] OTHER      -> Idle]
  BY DEF StartCall
<1>2. M \in SUBSET Nat
  BY CallFields
<1> HIDE DEF M
<1>3. S.id = id /\ [S EXCEPT !.met = M] =
         [op |-> op, at |-> "sent", id |-> id, ver |-> begun + 1,
          list |-> <<>>, before |-> items, met |-> M]
  BY DEF Sent
<1> HIDE DEF S
<1>4. calls'[c] = [op |-> op, at |-> "sent", id |-> id, ver |-> begun + 1,
                   list |-> <<>>, before |-> items, met |-> M]
  BY <1>1, <1>3
<1>5. calls'[c] \in Call
  BY <1>2, <1>4, SentIs DEF ScreenTypeOK
<1>6. ASSUME NEW d \in Calls \ {c}
      PROVE  KeptButMet(d, {id}) /\ calls'[d] \in Call \cup {Idle}
  <2>1. CASE Running(d)
    <3>1. calls'[d] = [calls[d] EXCEPT !.met = @ \cup {id}] /\ calls[d] \in Call
      BY <1>1, <1>3, <2>1, CallFields
    <3>2. /\ calls'[d] \in Call
          /\ calls'[d].op = calls[d].op /\ calls'[d].at = calls[d].at
          /\ calls'[d].id = calls[d].id /\ calls'[d].ver = calls[d].ver
          /\ calls'[d].list = calls[d].list /\ calls'[d].before = calls[d].before
          /\ calls'[d].met = calls[d].met \cup {id}
      BY <3>1, MeetsMore
    <3>3. Running(d)'
      BY <3>2 DEF Running, Call, Idle
    <3>4. QED
      BY <2>1, <3>2, <3>3 DEF KeptButMet, Kept
  <2>2. CASE ~ Running(d)
    <3>1. calls'[d] = Idle
      BY <1>1, <2>2
    <3>2. QED
      BY <2>2, <3>1 DEF KeptButMet, Running
  <2>3. QED
    BY <2>1, <2>2
<1>7. Running(c)'
  BY <1>5 DEF Running, Call, Idle
<1>8. calls' \in [Calls -> Call \cup {Idle}]
  <2>1. DOMAIN calls' = Calls /\ calls' = [d \in Calls |-> calls'[d]]
    BY <1>1
  <2>2. \A d \in Calls : calls'[d] \in Call \cup {Idle}
    BY <1>5, <1>6
  <2>3. QED
    BY <2>1, <2>2
<1>9. QED
  BY <1>1, <1>4, <1>5, <1>6, <1>7, <1>8 DEF Started, M

LEMMA KnownGrows ==
    ASSUME ScreenTypeOK, begun' = begun \/ begun' = begun + 1
    PROVE  /\ Known \subseteq Known' /\ 0 .. Seed + begun \subseteq 0 .. Seed + begun'
           /\ begun' = begun => Known' = Known
           /\ begun' = begun + 1 =>
                 /\ Seed + begun + 1 \in Known' \ Known
                 /\ \A k \in Known' : k = Seed + begun + 1 \/ k \in Known
           /\ AllTasks \notin Known /\ AllTasks \in 0 .. Seed + begun
BY TasksAssumption DEF ScreenTypeOK, Known, AllTasks

\* A user's request: what Start(c) does, whichever operation it is.
Starts(c, op, id) ==
    /\ Started(c, op, id)
    /\ op = "fetch" <=> id = AllTasks
    /\ op = "create" => id = Seed + begun + 1
    /\ op \in {"update", "delete"} => id \in Known /\ Versions(items, id) # {}
    /\ op # "delete" => items' = items /\ cache' = cache
    /\ op = "delete" => items' = Without(items, id) /\ cache' = items'
    /\ isLoading' \in BOOLEAN
    /\ remote' = remote /\ faults' = faults /\ crossed' = crossed /\ unsure' = unsure

LEMMA StartStarts ==
    ASSUME ClientInv, NEW c \in Calls, Start(c)
    PROVE  \E op \in Ops, id \in Nat : Starts(c, op, id)
<1>1. ScreenTypeOK /\ Seed + begun + 1 \in Nat /\ Seed + begun + 1 # 0
  BY TasksAssumption DEF ClientInv, ScreenTypeOK
<1>2. \A id \in Ids(ToSet(items)) : id \in Nat /\ id # 0 /\ id \in Known /\ Versions(items, id) # {}
  <2> SUFFICES ASSUME NEW id \in Ids(ToSet(items))
               PROVE  id \in Nat /\ id # 0 /\ id \in Known /\ Versions(items, id) # {}
    OBVIOUS
  <2>1. PICK i \in DOMAIN items : items[i].id = id
    BY DEF Ids, ToSet
  <2>2. Versions(items, id) # {}
    BY <2>1, VersionsNone
  <2>3. id \in Known
    BY <2>1 DEF ClientInv, KnownInv, Among
  <2>4. QED
    BY <2>2, <2>3, <1>1, KnownGrows, TasksAssumption DEF Known, ScreenTypeOK
<1>3. CASE Refresh(c)
  <2>1. Started(c, "fetch", 0)
    BY <1>1, <1>3, StartIs DEF Refresh, AllTasks, Ops
  <2>2. Starts(c, "fetch", 0)
    BY <1>3, <2>1 DEF Refresh, Starts, AllTasks
  <2>3. QED
    BY <2>2 DEF Ops
<1>4. CASE Create(c)
  <2>1. Started(c, "create", Seed + begun + 1)
    BY <1>1, <1>4, StartIs DEF Create, Ops
  <2>2. Starts(c, "create", Seed + begun + 1)
    BY <1>1, <1>4, <2>1 DEF Create, Starts, AllTasks
  <2>3. QED
    BY <1>1, <2>2 DEF Ops
<1>5. CASE SendUpdate(c)
  <2>1. PICK id \in Ids(ToSet(items)) :
           /\ StartCall(c, Sent("update", id)) /\ isLoading' = TRUE
           /\ UNCHANGED <<items, cache, remote, faults, crossed, unsure>>
    BY <1>5 DEF SendUpdate
  <2>2. id \in Nat /\ id # 0 /\ id \in Known /\ Versions(items, id) # {}
    BY <1>2
  <2>3. Started(c, "update", id)
    BY <1>1, <2>1, <2>2, StartIs DEF Ops
  <2>4. Starts(c, "update", id)
    BY <2>1, <2>2, <2>3 DEF Starts, AllTasks
  <2>5. QED
    BY <2>2, <2>4 DEF Ops
<1>6. CASE Delete(c)
  <2>1. PICK id \in Ids(ToSet(items)) :
           /\ StartCall(c, Sent("delete", id))
           /\ items' = Without(items, id) /\ cache' = items'
           /\ UNCHANGED <<isLoading, remote, faults, crossed, unsure>>
    BY <1>6 DEF Delete
  <2>2. id \in Nat /\ id # 0 /\ id \in Known /\ Versions(items, id) # {}
    BY <1>2
  <2>3. Started(c, "delete", id)
    BY <1>1, <2>1, <2>2, StartIs DEF Ops
  <2>4. isLoading' \in BOOLEAN
    BY <1>1, <2>1 DEF ScreenTypeOK
  <2>5. Starts(c, "delete", id)
    BY <2>1, <2>2, <2>3, <2>4 DEF Starts, AllTasks
  <2>6. QED
    BY <2>2, <2>5 DEF Ops
<1>7. QED
  BY <1>3, <1>4, <1>5, <1>6 DEF Start

LEMMA AmongVersions ==
    ASSUME NEW list
    PROVE  Among(list) <=> \A k : k \notin Known => Versions(list, k) = {}
<1>1. ASSUME Among(list), NEW k, k \notin Known PROVE Versions(list, k) = {}
  BY <1>1, VersionsNone DEF Among
<1>2. ASSUME \A k : k \notin Known => Versions(list, k) = {} PROVE Among(list)
  BY <1>2, VersionsNone DEF Among
<1>3. QED
  BY <1>1, <1>2

LEMMA TypesStart ==
    ASSUME ClientInv, NEW c \in Calls, NEW op \in Ops, NEW id \in Nat, Starts(c, op, id)
    PROVE  ClientInv'
<1>1. /\ ScreenTypeOK /\ Started(c, op, id)
      /\ begun' = begun + 1 /\ begun < MaxCalls
  BY DEF ClientInv, Starts, Started
<1>2. /\ Known \subseteq Known' /\ 0 .. Seed + begun \subseteq 0 .. Seed + begun'
      /\ id \in 0 .. Seed + begun'
      /\ id # AllTasks => id \in Known'
  <2>1. id = AllTasks \/ id \in Known \/ id = Seed + begun + 1
    BY DEF Starts, Ops
  <2>2. QED
    BY <1>1, <2>1, KnownGrows, TasksAssumption DEF ScreenTypeOK, Known, AllTasks
<1>3. /\ items' \in Seq(Task) /\ cache' \in Seq(Task)
      /\ \A k : /\ Versions(items, k) = {} => Versions(items', k) = {}
                /\ Versions(items, k) = {} /\ Versions(cache, k) = {} => Versions(cache', k) = {}
  <2>1. items \in Seq(Task) /\ cache \in Seq(Task)
    BY <1>1 DEF ScreenTypeOK
  <2>2. CASE op # "delete"
    BY <2>1, <2>2 DEF Starts
  <2>3. CASE op = "delete"
    <3>1. items' = Without(items, id) /\ cache' = Without(items, id)
      BY <2>3 DEF Starts
    <3>2. QED
      BY <2>1, <3>1, WithoutShows
  <2>4. QED
    BY <2>2, <2>3
<1>4. ScreenTypeOK'
  <2>1. calls' \in [Calls -> Call \cup {Idle}]
    BY <1>1 DEF Started
  <2>2. ASSUME NEW d \in Calls, Running(d)'
        PROVE  calls'[d].op = "fetch" <=> calls'[d].id = AllTasks
    <3>1. CASE d = c
      BY <1>1, <3>1 DEF Started, Starts
    <3>2. CASE d # c
      <4>1. Kept(d)
        BY <1>1, <2>2, <3>2 DEF Started, KeptButMet
      <4>2. QED
        BY <1>1, <4>1 DEF Kept, ScreenTypeOK
    <3>3. QED
      BY <3>1, <3>2
  <2>3. begun' \in 0 .. MaxCalls
    BY <1>1, TasksAssumption DEF ScreenTypeOK
  <2>4. QED
    BY <1>1, <1>3, <2>1, <2>2, <2>3 DEF ScreenTypeOK, Starts
<1>5. RemoteInv'
  BY DEF Starts, ClientInv, RemoteInv
<1>6. MeetInv'
  <2> SUFFICES ASSUME NEW a \in Calls, NEW b \in Calls, a # b, Running(a)', Running(b)'
               PROVE  calls'[b].id \in calls'[a].met
    BY DEF MeetInv
  <2>1. CASE a = c
    <3>1. Kept(b)
      BY <1>1, <2>1 DEF Started, KeptButMet
    <3>2. calls'[b].id = calls[b].id /\ Running(b)
      BY <3>1 DEF Kept
    <3>3. QED
      BY <1>1, <2>1, <3>2 DEF Started
  <2>2. CASE a # c
    <3>1. Running(a) /\ calls'[a].met = calls[a].met \cup {id}
      BY <1>1, <2>2 DEF Started, KeptButMet
    <3>2. CASE b = c
      BY <1>1, <3>1, <3>2 DEF Started
    <3>3. CASE b # c
      <4>1. Kept(b)
        BY <1>1, <3>3 DEF Started, KeptButMet
      <4>2. calls'[b].id = calls[b].id /\ Running(b)
        BY <4>1 DEF Kept
      <4>3. calls[b].id \in calls[a].met
        BY <3>1, <4>2 DEF ClientInv, MeetInv
      <4>4. QED
        BY <3>1, <4>2, <4>3
    <3>4. QED
      BY <3>2, <3>3
  <2>3. QED
    BY <2>1, <2>2
<1>7. KnownInv'
  <2>1. Among(items)' /\ Among(cache)'
    <3>1. \A k : k \notin Known' => Versions(items', k) = {} /\ Versions(cache', k) = {}
      <4> SUFFICES ASSUME NEW k, k \notin Known'
                   PROVE  Versions(items', k) = {} /\ Versions(cache', k) = {}
        OBVIOUS
      <4>1. Versions(items, k) = {} /\ Versions(cache, k) = {}
        BY <1>2, UnknownIsNowhere
      <4>2. QED
        BY <1>3, <4>1
    <3>2. ASSUME NEW list, \A k : k \notin Known' => Versions(list, k) = {}
          PROVE  \A i \in DOMAIN list : list[i].id \in Known'
      BY <3>2, VersionsNone
    <3>3. QED
      BY <3>1, <3>2 DEF Among
  <2>2. ASSUME NEW d \in Calls, Running(d)' PROVE KnownCall(d)'
    <3>1. CASE d = c
      <4>1. /\ calls'[d].list = <<>> /\ calls'[d].before = items
            /\ calls'[d].op = op /\ calls'[d].id = id
            /\ calls'[d].met = {calls[e].id : e \in {x \in Calls : Running(x)}}
        BY <1>1, <3>1 DEF Started
      <4>2. Among(calls[d].before)'
        BY <1>2, <4>1 DEF Among, ClientInv, KnownInv
      <4>3. \A e \in Calls : Running(e) => calls[e].id \in 0 .. Seed + begun
        <5> SUFFICES ASSUME NEW e \in Calls, Running(e) PROVE calls[e].id \in 0 .. Seed + begun
          OBVIOUS
        <5>1. calls[e].id = AllTasks \/ calls[e].id \in Known
          BY <1>1, CallFields DEF ClientInv, KnownInv, KnownCall
        <5>2. QED
          BY <1>1, <5>1, KnownGrows, TasksAssumption DEF Known, ScreenTypeOK
      <4>4. op # "fetch" => id \in Known'
        BY <1>2 DEF Starts
      <4>5. Among(calls[d].list)'
        BY <4>1 DEF Among
      <4>6. calls'[d].met \subseteq 0 .. Seed + begun'
        BY <1>2, <4>1, <4>3
      <4>7. calls'[d].at = "sent"
        BY <1>1, <3>1 DEF Started
      <4>8. QED
        BY <4>1, <4>2, <4>4, <4>5, <4>6, <4>7 DEF KnownCall
    <3>2. CASE d # c
      <4>1. Kept(d) /\ calls'[d].met = calls[d].met \cup {id}
        BY <1>1, <2>2, <3>2 DEF Started, KeptButMet
      <4>2. KnownCall(d)
        BY <4>1 DEF Kept, ClientInv, KnownInv
      <4>3. Among(calls[d].list)' /\ Among(calls[d].before)'
        BY <1>2, <4>1, <4>2 DEF KnownCall, Kept, Among
      <4>4. calls'[d].met \subseteq 0 .. Seed + begun'
        BY <1>2, <4>1, <4>2 DEF KnownCall
      <4>5. calls'[d].op # "fetch" => calls'[d].id \in Known'
        BY <1>2, <4>1, <4>2 DEF KnownCall, Kept
      <4>6. calls'[d].op = "delete" => calls'[d].at # "answered"
        BY <4>1, <4>2 DEF KnownCall, Kept
      <4>7. QED
        BY <4>3, <4>4, <4>5, <4>6 DEF KnownCall
    <3>3. QED
      BY <3>1, <3>2
  <2>3. /\ \A t \in remote' : t.id \in Known'
        /\ crossed' \subseteq 0 .. Seed + begun' /\ unsure' \subseteq Known'
    BY <1>2 DEF Starts, ClientInv, KnownInv
  <2>4. QED
    BY <2>1, <2>2, <2>3 DEF KnownInv
<1>8. QED
  BY <1>4, <1>5, <1>6, <1>7 DEF ClientInv

---------------------------------------------------------------------------
(* The task list of the client: requests that go on, and requests that end *)

\* Request c goes on: nothing else of it has changed, and nothing of the others.
Moved(c, at, list) ==
    /\ Running(c) /\ Running(c)'
    /\ calls'[c].op = calls[c].op /\ calls'[c].id = calls[c].id
    /\ calls'[c].ver = calls[c].ver /\ calls'[c].before = calls[c].before
    /\ calls'[c].met = calls[c].met
    /\ calls'[c].at = at /\ calls'[c].list = list
    /\ \A d \in Calls \ {c} : calls'[d] = calls[d]
    /\ calls' \in [Calls -> Call \cup {Idle}]

LEMMA MoveIs ==
    ASSUME ScreenTypeOK, NEW c \in Calls, Running(c),
           NEW at \in {"sent", "served", "answered"}, NEW list \in Seq(Task),
           NEW r, r = [calls[c] EXCEPT !.at = at, !.list = list],
           calls' = [calls EXCEPT ![c] = r]
    PROVE  Moved(c, at, list)
<1> DEFINE m == calls[c]
<1>1. m \in Call
  BY CallFields
<1> HIDE DEF m
<1>2. r = [m EXCEPT !.at = at, !.list = list]
  BY DEF m
<1>3. /\ r.op = m.op /\ r.id = m.id /\ r.ver = m.ver /\ r.before = m.before
      /\ r.met = m.met /\ r.at = at /\ r.list = list
  BY <1>1, <1>2 DEF Call
<1>4. r \in Call
  BY <1>1, <1>2 DEF Call
<1>5. /\ calls'[c] = r /\ \A d \in Calls \ {c} : calls'[d] = calls[d]
      /\ calls' \in [Calls -> Call \cup {Idle}]
  BY <1>4 DEF ScreenTypeOK
<1>6. Running(c)'
  BY <1>4, <1>5 DEF Running, Call, Idle
<1>7. QED
  BY <1>3, <1>5, <1>6 DEF Moved, m

LEMMA KnownNat == ASSUME ClientInv PROVE Known \subseteq Nat
BY TasksAssumption DEF Known, ClientInv, ScreenTypeOK

\* Requests that run stay as they are, but for what request c is at.
LEMMA TypesMove ==
    ASSUME ClientInv, NEW c \in Calls, NEW at, NEW list, Moved(c, at, list), Among(list),
           calls[c].op = "delete" => at # "answered",
           items' = items, isLoading' = isLoading, crossed' = crossed, unsure' \subseteq Known,
           begun' = begun, faults' = faults,
           cache' \in Seq(Task), \A k : k \notin Known => Versions(cache', k) = {},
           RemoteInv', \A t \in remote' : t.id \in Known
    PROVE  ClientInv'
<1>1. Known' = Known
  BY DEF Known
<1>2. \A d \in Calls : /\ Running(d)' <=> Running(d)
                       /\ Running(d) => /\ calls'[d].id = calls[d].id
                                        /\ calls'[d].op = calls[d].op
                                        /\ calls'[d].met = calls[d].met
                                        /\ calls'[d].before = calls[d].before
  BY DEF Moved, Running
<1>3. ScreenTypeOK'
  BY <1>2, KnownNat DEF ClientInv, ScreenTypeOK, RemoteInv, Moved
<1>4. MeetInv'
  BY <1>2 DEF ClientInv, MeetInv
<1>5. Among(cache)'
  <2>1. \A k : k \notin Known' => Versions(cache', k) = {}
    BY <1>1
  <2>2. \A i \in DOMAIN cache' : cache'[i].id \in Known'
    BY <2>1, VersionsNone
  <2>3. QED
    BY <2>2 DEF Among
<1>6. ASSUME NEW d \in Calls, Running(d)' PROVE KnownCall(d)'
  <2>1. KnownCall(d)
    BY <1>2, <1>6 DEF ClientInv, KnownInv
  <2>2. Among(calls[d].list)'
    <3>1. calls'[d].list = IF d = c THEN list ELSE calls[d].list
      BY DEF Moved
    <3>2. QED
      BY <1>1, <2>1, <3>1 DEF Among, KnownCall
  <2>3. Among(calls[d].before)'
    BY <1>1, <1>2, <1>6, <2>1 DEF Among, KnownCall
  <2>4. calls'[d].met \subseteq 0 .. Seed + begun'
    BY <1>2, <1>6, <2>1 DEF KnownCall
  <2>5. calls'[d].op # "fetch" => calls'[d].id \in Known'
    BY <1>1, <1>2, <1>6, <2>1 DEF KnownCall
  <2>6. calls'[d].op = "delete" => calls'[d].at # "answered"
    BY <1>2, <1>6, <2>1 DEF KnownCall, Moved
  <2>7. QED
    BY <2>2, <2>3, <2>4, <2>5, <2>6 DEF KnownCall
<1>7. KnownInv'
  BY <1>1, <1>5, <1>6 DEF KnownInv, ClientInv, Among
<1>8. QED
  BY <1>3, <1>4, <1>7 DEF ClientInv

\* Request c is over, and the others are as they were.
Ended(c) == ~ Running(c)' /\ \A d \in Calls \ {c} : calls'[d] = calls[d]

LEMMA TypesEnd ==
    ASSUME ClientInv, NEW c \in Calls, Running(c), End(c),
           items' \in Seq(Task), cache' \in Seq(Task), isLoading' \in BOOLEAN,
           \A k : k \notin Known => Versions(items', k) = {} /\ Versions(cache', k) = {},
           remote' = remote, begun' = begun, faults' \in 0 .. MaxFaults,
           crossed' \subseteq 0 .. Seed + begun, unsure' \subseteq Known
    PROVE  ClientInv' /\ Ended(c)
<1>1. Known' = Known
  BY DEF Known
<1>2. calls' = [calls EXCEPT ![c] = Idle] /\ calls \in [Calls -> Call \cup {Idle}]
  BY DEF End, ClientInv, ScreenTypeOK
<1>3. Ended(c) /\ calls' \in [Calls -> Call \cup {Idle}]
  BY <1>2 DEF Ended, Running
<1>4. \A d \in Calls : Running(d)' => d # c /\ Running(d) /\ calls'[d] = calls[d]
  BY <1>3 DEF Ended, Running
<1>5. ScreenTypeOK'
  BY <1>1, <1>3, <1>4, TasksAssumption DEF ClientInv, ScreenTypeOK, Known
<1>6. MeetInv' /\ RemoteInv'
  BY <1>4 DEF ClientInv, MeetInv, RemoteInv
<1>7. Among(items)' /\ Among(cache)'
  <2>1. \A k : k \notin Known' => Versions(items', k) = {} /\ Versions(cache', k) = {}
    BY <1>1
  <2>2. \A i \in DOMAIN items' : items'[i].id \in Known'
    BY <2>1, VersionsNone
  <2>3. \A i \in DOMAIN cache' : cache'[i].id \in Known'
    BY <2>1, VersionsNone
  <2>4. QED
    BY <2>2, <2>3 DEF Among
<1>8. ASSUME NEW d \in Calls, Running(d)' PROVE KnownCall(d)'
  <2>1. KnownCall(d) /\ calls'[d] = calls[d]
    BY <1>4, <1>8 DEF ClientInv, KnownInv
  <2>2. QED
    BY <1>1, <2>1 DEF KnownCall, Among
<1>9. KnownInv'
  BY <1>1, <1>7, <1>8 DEF KnownInv, ClientInv
<1>10. QED
  BY <1>3, <1>5, <1>6, <1>9 DEF ClientInv

\* What an ended request leaves in doubt is its own task.
LEMMA CrossedIs ==
    ASSUME NEW c, NEW x
    PROVE  x \in Crossed(c) <=> x = calls[c].id /\ Met(c, x)
BY DEF Crossed, Met

LEMMA CrossedType ==
    ASSUME ClientInv, NEW c \in Calls, Running(c)
    PROVE  Crossed(c) \subseteq 0 .. Seed + begun
<1>1. calls[c].id = AllTasks \/ calls[c].id \in Known
  BY CallFields DEF ClientInv, KnownInv, KnownCall
<1>2. calls[c].id \in 0 .. Seed + begun
  BY <1>1, TasksAssumption DEF Known, AllTasks, ClientInv, ScreenTypeOK
<1>3. \A x \in Crossed(c) : x = calls[c].id
  BY DEF Crossed
<1>4. QED
  BY <1>2, <1>3

\* The server acts for request c.
LEMMA ServeIs ==
    ASSUME ClientInv, NEW c \in Calls, Serve(c)
    PROVE  /\ ClientInv'
           /\ Running(c) /\ calls[c].at = "sent"
           /\ Moved(c, "served", calls'[c].list)
           /\ UNCHANGED <<screen, cache, begun, faults, crossed>>
           /\ unsure \subseteq unsure'
           /\ calls[c].op = "fetch" =>
                 /\ remote' = remote
                 /\ \A k : /\ Once(calls'[c].list, k)
                           /\ Versions(calls'[c].list, k) \subseteq Rem(k)
                           /\ k \notin unsure' => Versions(calls'[c].list, k) = Rem(k)
           /\ calls[c].op # "fetch" =>
                 /\ unsure' = unsure
                 /\ \A k : Rem(k)' = IF k # calls[c].id THEN Rem(k)
                                    ELSE IF calls[c].op = "delete" THEN {}
                                    ELSE {calls[c].ver}
<1> DEFINE call == calls[c]
           id == call.id
<1>1. ScreenTypeOK /\ RemoteInv /\ Running(c) /\ call.at = "sent"
  BY DEF Serve, ClientInv
<1>2. /\ call \in Call /\ call.op \in Ops /\ call.id \in Nat /\ call.ver \in Nat
      /\ call.list \in Seq(Task)
  BY <1>1, CallFields
<1>3. PICK list \in IF call.op = "fetch" THEN {SetToSeq(p) : p \in Pages} ELSE {call.list} :
          /\ calls' = [calls EXCEPT ![c].at = "served", ![c].list = list]
          /\ unsure' = IF call.op = "fetch" THEN unsure \cup LeftOut(list) ELSE unsure
  BY DEF Serve
<1>a. ASSUME call.op = "fetch"
      PROVE  list \in Seq(Task) /\ \A k : Once(list, k) /\ Versions(list, k) \subseteq Rem(k)
  <2>1. PICK p \in SUBSET remote : list = SetToSeq(p)
    BY <1>3, <1>a DEF Pages
  <2>2. QED
    BY <1>1, <2>1, ListShows
<1>b. list \in Seq(Task) /\ (call.op # "fetch" => list = call.list)
  BY <1>2, <1>3, <1>a
<1>4. Moved(c, "served", list)
  <2> DEFINE r == [calls[c] EXCEPT !.at = "served", !.list = list]
  <2>2. calls' = [calls EXCEPT ![c] = r]
    <3>1. calls \in [Calls -> Call \cup {Idle}]
      BY <1>1 DEF ScreenTypeOK
    <3>2. QED
      BY <1>3, <3>1
  <2> HIDE DEF r
  <2>3. \E s : s = [calls[c] EXCEPT !.at = "served", !.list = list]
               /\ calls' = [calls EXCEPT ![c] = s]
    BY <2>2 DEF r
  <2>4. QED
    BY <1>1, <1>b, <2>3, MoveIs
<1>c. calls'[c].list = list
  BY <1>4 DEF Moved
<1>5. UNCHANGED <<screen, cache, begun, faults, crossed>>
  BY DEF Serve
<1>6. call.op = "fetch" => remote' = remote
  BY DEF Serve
<1>d. ASSUME call.op = "fetch", NEW k, k \notin unsure' PROVE Versions(list, k) = Rem(k)
  BY <1>1, <1>3, <1>a, <1>d, ListedShows
<1>e. unsure \subseteq unsure' /\ (call.op # "fetch" => unsure' = unsure)
  BY <1>3
<1>7. ASSUME call.op # "fetch"
      PROVE  remote' = But(id) \cup (IF call.op = "delete" THEN {} ELSE {Fresh(call)})
  BY <1>7 DEF Serve
<1>8. Fresh(call) \in Task /\ Fresh(call).id = id /\ Fresh(call).ver = call.ver
  BY <1>2 DEF Fresh, Task
<1>9. ASSUME call.op # "fetch", NEW k
      PROVE  Rem(k)' = IF k # id THEN Rem(k)
                       ELSE IF call.op = "delete" THEN {} ELSE {call.ver}
  <2> DEFINE ver == call.ver
  <2>1. \A t : t \in remote' <=> \/ t \in remote /\ t.id # id
                                 \/ call.op # "delete" /\ t = Fresh(call)
    BY <1>7, <1>9 DEF But
  <2>2. \A v : v \in Rem(k)' <=> \E t \in remote' : t.id = k /\ t.ver = v
    BY DEF Rem
  <2>3. ASSUME k # id, NEW v PROVE v \in Rem(k)' <=> v \in Rem(k)
    BY <1>8, <2>1, <2>2, <2>3, RemIs
  <2>4. ASSUME k = id, NEW v PROVE v \in Rem(k)' <=> call.op # "delete" /\ v = ver
    <3>1. v \in Rem(k)' => call.op # "delete" /\ v = ver
      BY <1>8, <2>1, <2>2, <2>4
    <3>2. call.op # "delete" => Fresh(call) \in remote'
      BY <2>1
    <3>3. call.op # "delete" /\ v = ver => v \in Rem(k)'
      BY <1>8, <2>2, <2>4, <3>2
    <3>4. QED
      BY <3>1, <3>3
  <2> HIDE DEF ver
  <2>5. k # id => Rem(k)' = Rem(k)
    BY <2>3
  <2>6. k = id /\ call.op = "delete" => Rem(k)' = {}
    BY <2>4
  <2>7. k = id /\ call.op # "delete" => Rem(k)' = {ver}
    BY <2>4
  <2>8. QED
    BY <2>5, <2>6, <2>7 DEF ver
<1>10. RemoteInv'
  <2>1. CASE call.op = "fetch"
    BY <1>1, <1>6, <2>1 DEF RemoteInv
  <2>2. CASE call.op # "fetch"
    <3>1. IsFiniteSet(But(id))
      <4>1. But(id) \in SUBSET remote
        BY DEF But
      <4>2. QED
        BY <1>1, <4>1, FS_Subset DEF RemoteInv
    <3>2. IsFiniteSet(remote')
      <4>1. But(id) \cup {} = But(id)
        OBVIOUS
      <4>2. IsFiniteSet(But(id) \cup {Fresh(call)})
        BY <3>1, FS_AddElement
      <4>3. QED
        BY <1>7, <2>2, <3>1, <4>1, <4>2
    <3>3. \A t \in remote' : \/ t \in remote /\ t.id # id
                             \/ t = Fresh(call)
      BY <1>7, <2>2 DEF But
    <3>4. QED
      BY <1>1, <1>8, <3>2, <3>3 DEF RemoteInv
  <2>3. QED
    BY <2>1, <2>2
<1>11. \A t \in remote' : t.id \in Known
  <2>1. CASE call.op = "fetch"
    BY <1>6, <2>1 DEF ClientInv, KnownInv
  <2>2. CASE call.op # "fetch"
    <3>1. id \in Known
      BY <1>1, <2>2 DEF ClientInv, KnownInv, KnownCall
    <3>2. \A t \in remote' : t \in remote \/ t = Fresh(call)
      BY <1>7, <2>2 DEF But
    <3>3. QED
      BY <1>8, <3>1, <3>2 DEF ClientInv, KnownInv
  <2>3. QED
    BY <2>1, <2>2
<1>12. Among(list)
  <2>1. CASE call.op = "fetch"
    <3>1. \A k : k \notin Known => Versions(list, k) = {}
      BY <1>a, <2>1, UnknownIsNowhere
    <3>2. QED
      BY <2>1, <3>1, AmongVersions
  <2>2. CASE call.op # "fetch"
    BY <1>1, <1>b, <2>2 DEF ClientInv, KnownInv, KnownCall
  <2>3. QED
    BY <2>1, <2>2
<1>13. ClientInv'
  <2>1. \A k : k \notin Known => Versions(cache', k) = {}
    BY <1>5, UnknownIsNowhere
  <2>2. cache' \in Seq(Task) /\ items' = items /\ isLoading' = isLoading
    BY <1>1, <1>5 DEF ScreenTypeOK, screen
  <2>3. unsure' \subseteq Known
    <3>1. unsure \subseteq Known /\ Ids(remote) \subseteq Known
      BY DEF ClientInv, KnownInv, Ids
    <3>2. QED
      BY <1>3, <3>1 DEF LeftOut
  <2>4. QED
    BY <1>4, <1>5, <1>10, <1>11, <1>12, <2>1, <2>2, <2>3, TypesMove
<1>14. QED
  BY <1>1, <1>4, <1>5, <1>6, <1>9, <1>13, <1>a, <1>c, <1>d, <1>e

\* What a create or an update makes of a list, as far as task k is concerned.
MergedAt(k, call, list, new) ==
    /\ k # call.id => Versions(new, k) = Versions(list, k) /\ (Once(list, k) => Once(new, k))
    /\ k = call.id /\ call.op = "create" /\ Versions(list, k) = {} =>
          Versions(new, k) = {call.ver} /\ Once(new, k)
    /\ k = call.id /\ call.op = "update" =>
          /\ Once(list, k) => Once(new, k)
          /\ Versions(list, k) # {} => Versions(new, k) = {call.ver}

LEMMA MergedIs ==
    ASSUME NEW list \in Seq(Task), NEW call, call.id \in Nat, call.ver \in Nat,
           call.op \in {"create", "update"}, NEW new, new = Merged(list, call)
    PROVE  new \in Seq(Task) /\ \A k : MergedAt(k, call, list, new)
<1> DEFINE t == Fresh(call)
<1>1. t \in Task /\ t.id = call.id /\ t.ver = call.ver
  BY DEF Fresh, Task
<1>2. CASE call.op = "create"
  <2>1. new = <<t>> \o list
    BY <1>2 DEF Merged
  <2> HIDE DEF t
  <2>2. new \in Seq(Task)
    BY <1>1, <2>1, PrependShows
  <2>3. ASSUME NEW k PROVE MergedAt(k, call, list, new)
    <3>1. /\ Versions(<<t>> \o list, k) =
                IF k = t.id THEN Versions(list, k) \cup {t.ver} ELSE Versions(list, k)
          /\ Once(list, k) /\ (k = t.id => Versions(list, k) = {}) => Once(<<t>> \o list, k)
      BY <1>1, PrependShows
    <3>2. Versions(list, k) = {} => Once(list, k)
      BY NoneIsOnce
    <3>3. QED
      BY <1>1, <1>2, <2>1, <3>1, <3>2 DEF MergedAt
  <2>4. QED
    BY <2>2, <2>3
<1>3. CASE call.op = "update"
  <2>1. new = Replaced(list, call)
    BY <1>3 DEF Merged
  <2>2. new \in Seq(Task)
    BY <2>1, ReplacedShows
  <2>3. ASSUME NEW k PROVE MergedAt(k, call, list, new)
    <3>1. k # call.id => Versions(Replaced(list, call), k) = Versions(list, k)
      BY ReplacedShows
    <3>2. Versions(list, call.id) # {} =>
             Versions(Replaced(list, call), call.id) = {call.ver}
      BY ReplacedShows
    <3>3. Once(list, k) => Once(Replaced(list, call), k)
      BY ReplacedShows
    <3>4. QED
      BY <1>3, <2>1, <3>1, <3>2, <3>3 DEF MergedAt
  <2>4. QED
    BY <2>2, <2>3
<1>4. QED
  BY <1>2, <1>3

LEMMA AnswerIs ==
    ASSUME ClientInv, NEW c \in Calls, AnswerCall(c)
    PROVE  /\ ClientInv'
           /\ Running(c) /\ calls[c].at = "served" /\ calls[c].op # "delete"
           /\ Moved(c, "answered", calls[c].list)
           /\ UNCHANGED <<screen, remote, begun, faults, crossed, unsure>>
           /\ calls[c].op = "fetch" => cache' = calls[c].list
           /\ calls[c].op # "fetch" => \A k : MergedAt(k, calls[c], cache, cache')
<1>1. /\ ScreenTypeOK /\ Running(c) /\ calls[c].at = "served" /\ calls[c].op # "delete"
      /\ cache \in Seq(Task)
  BY DEF AnswerCall, ClientInv, ScreenTypeOK
<1>2. /\ calls[c] \in Call /\ calls[c].op \in Ops /\ calls[c].id \in Nat
      /\ calls[c].ver \in Nat /\ calls[c].list \in Seq(Task)
  BY <1>1, CallFields
<1>3. UNCHANGED <<screen, remote, begun, faults, crossed, unsure>>
  BY DEF AnswerCall
<1>4. Moved(c, "answered", calls[c].list)
  <2> DEFINE r == [calls[c] EXCEPT !.at = "answered", !.list = calls[c].list]
  <2>1. r = [calls[c] EXCEPT !.at = "answered"]
    BY <1>2 DEF Call
  <2>2. calls' = [calls EXCEPT ![c] = r]
    <3>1. calls' = [calls EXCEPT ![c].at = "answered"]
      BY DEF AnswerCall
    <3>2. QED
      BY <1>1, <2>1, <3>1 DEF ScreenTypeOK
  <2> HIDE DEF r
  <2>3. \E s : s = [calls[c] EXCEPT !.at = "answered", !.list = calls[c].list]
               /\ calls' = [calls EXCEPT ![c] = s]
    BY <2>2 DEF r
  <2>4. QED
    BY <1>1, <1>2, <2>3, MoveIs
<1>5. calls[c].op = "fetch" => cache' = calls[c].list
  BY DEF AnswerCall
<1>6. ASSUME calls[c].op # "fetch"
      PROVE  cache' \in Seq(Task) /\ \A k : MergedAt(k, calls[c], cache, cache')
  <2>1. cache' = Merged(cache, calls[c]) /\ calls[c].op \in {"create", "update"}
    BY <1>1, <1>2, <1>6 DEF AnswerCall, Ops
  <2>2. QED
    BY <1>1, <1>2, <2>1, MergedIs
<1>7. cache' \in Seq(Task) /\ \A k : k \notin Known => Versions(cache', k) = {}
  <2>1. CASE calls[c].op = "fetch"
    BY <1>1, <1>2, <1>5, <2>1, UnknownIsNowhere
  <2>2. CASE calls[c].op # "fetch"
    <3>1. calls[c].id \in Known
      BY <1>1, <2>2, EditsKnown DEF Edits
    <3>2. QED
      BY <1>6, <2>2, <3>1, UnknownIsNowhere DEF MergedAt
  <2>3. QED
    BY <2>1, <2>2
<1>8. ClientInv'
  <2>1. RemoteInv' /\ \A t \in remote' : t.id \in Known
    BY <1>3 DEF ClientInv, RemoteInv, KnownInv
  <2>2. Among(calls[c].list)
    BY <1>1 DEF ClientInv, KnownInv, KnownCall
  <2>3. QED
    BY <1>1, <1>3, <1>4, <1>7, <2>1, <2>2, TypesMove DEF screen, ClientInv, KnownInv
<1>9. QED
  BY <1>1, <1>3, <1>4, <1>5, <1>6, <1>8

LEMMA DeletedIs ==
    ASSUME ClientInv, NEW c \in Calls, Deleted(c)
    PROVE  /\ ClientInv' /\ Ended(c)
           /\ Removing(c) /\ calls[c].at = "served"
           /\ cache' = Without(cache, calls[c].id) /\ cache \in Seq(Task)
           /\ crossed' = crossed \cup Crossed(c)
           /\ UNCHANGED <<screen, remote, begun, faults, unsure>>
<1>1. /\ calls[c].op = "delete" /\ calls[c].at = "served" /\ End(c)
      /\ cache' = Without(cache, calls[c].id) /\ crossed' = crossed \cup Crossed(c)
      /\ UNCHANGED <<screen, remote, begun, faults, unsure>>
  BY DEF Deleted, Is
<1>2. Running(c)
  BY <1>1 DEF Running, Idle
<1>3. /\ items' \in Seq(Task) /\ cache \in Seq(Task) /\ isLoading' \in BOOLEAN
      /\ faults' \in 0 .. MaxFaults
  BY <1>1 DEF ClientInv, ScreenTypeOK, screen
<1>4. cache' \in Seq(Task)
  BY <1>1, <1>3, WithoutShows
<1>5. ASSUME NEW k, k \notin Known PROVE Versions(items', k) = {} /\ Versions(cache', k) = {}
  BY <1>1, <1>3, <1>5, WithoutShows, UnknownIsNowhere DEF screen
<1>6. crossed' \subseteq 0 .. Seed + begun /\ unsure' \subseteq Known
  BY <1>1, <1>2, CrossedType DEF ClientInv, KnownInv
<1>7. remote' = remote /\ begun' = begun
  BY <1>1
<1>8. ClientInv' /\ Ended(c)
  BY <1>1, <1>2, <1>3, <1>4, <1>5, <1>6, <1>7, TypesEnd
<1>9. QED
  BY <1>1, <1>2, <1>3, <1>8 DEF Removing

LEMMA FetchedIs ==
    ASSUME ClientInv, NEW c \in Calls, Fetched(c)
    PROVE  /\ ClientInv' /\ Ended(c)
           /\ Fetching(c) /\ calls[c].at = "answered"
           /\ items' = calls[c].list
           /\ crossed' = IF calls[c].met = {} THEN {} ELSE crossed \cup unsure
           /\ unsure' = IF calls[c].met = {} THEN LeftOut(calls[c].list) ELSE unsure
           /\ UNCHANGED <<cache, remote, begun, faults>>
<1>1. /\ calls[c].op = "fetch" /\ calls[c].at = "answered" /\ End(c)
      /\ items' = calls[c].list /\ isLoading' = FALSE
      /\ crossed' = IF calls[c].met = {} THEN {} ELSE crossed \cup unsure
      /\ unsure' = IF calls[c].met = {} THEN LeftOut(calls[c].list) ELSE unsure
      /\ UNCHANGED <<cache, remote, begun, faults>>
  BY DEF Fetched, Is
<1>2. Running(c)
  BY <1>1 DEF Running, Idle
<1>3. /\ items' \in Seq(Task) /\ cache' \in Seq(Task) /\ isLoading' \in BOOLEAN
      /\ faults' \in 0 .. MaxFaults
  BY <1>1, <1>2, CallFields DEF ClientInv, ScreenTypeOK
<1>4. ASSUME NEW k, k \notin Known PROVE Versions(items', k) = {} /\ Versions(cache', k) = {}
  BY <1>1, <1>2, <1>4, UnknownIsNowhere
<1>5. crossed' \subseteq 0 .. Seed + begun /\ unsure' \subseteq Known
  <2>1. crossed \subseteq 0 .. Seed + begun /\ unsure \subseteq Known
    BY DEF ClientInv, KnownInv
  <2>2. Known \subseteq 0 .. Seed + begun
    BY TasksAssumption DEF Known, ClientInv, ScreenTypeOK
  <2>3. LeftOut(calls[c].list) \subseteq Known
    BY DEF LeftOut, Ids, ClientInv, KnownInv
  <2>4. QED
    BY <1>1, <2>1, <2>2, <2>3
<1>6. remote' = remote /\ begun' = begun
  BY <1>1
<1>7. ClientInv' /\ Ended(c)
  BY <1>1, <1>2, <1>3, <1>4, <1>5, <1>6, TypesEnd
<1>8. QED
  BY <1>1, <1>2, <1>7 DEF Fetching

LEMMA MergeIs ==
    ASSUME ClientInv, NEW c \in Calls, Merge(c)
    PROVE  /\ ClientInv' /\ Ended(c)
           /\ Edits(c) /\ calls[c].at = "answered" /\ calls[c].op \in {"create", "update"}
           /\ \A k : MergedAt(k, calls[c], items, items')
           /\ cache' = items'
           /\ crossed' = crossed \cup Crossed(c)
           /\ UNCHANGED <<remote, begun, faults, unsure>>
<1>1. /\ Running(c) /\ calls[c].at = "answered" /\ calls[c].op # "fetch" /\ End(c)
      /\ items' = Merged(items, calls[c]) /\ cache' = items' /\ isLoading' = FALSE
      /\ crossed' = crossed \cup Crossed(c)
      /\ UNCHANGED <<remote, begun, faults, unsure>>
  BY DEF Merge, Base
<1>2. calls[c].op \in Ops /\ calls[c].id \in Nat /\ calls[c].ver \in Nat /\ items \in Seq(Task)
  BY <1>1, CallFields DEF ClientInv, ScreenTypeOK
<1>3. calls[c].op # "delete" /\ calls[c].id \in Known
  BY <1>1 DEF ClientInv, KnownInv, KnownCall
<1>4. calls[c].op \in {"create", "update"}
  BY <1>1, <1>2, <1>3 DEF Ops
<1>5. items' \in Seq(Task) /\ \A k : MergedAt(k, calls[c], items, items')
  BY <1>1, <1>2, <1>4, MergedIs
<1>6. ASSUME NEW k, k \notin Known PROVE Versions(items', k) = {} /\ Versions(cache', k) = {}
  BY <1>1, <1>3, <1>5, <1>6, UnknownIsNowhere DEF MergedAt
<1>7. crossed' \subseteq 0 .. Seed + begun /\ unsure' \subseteq Known
  BY <1>1, CrossedType DEF ClientInv, KnownInv
<1>8. cache' \in Seq(Task) /\ isLoading' \in BOOLEAN /\ faults' \in 0 .. MaxFaults
  BY <1>1, <1>5 DEF ClientInv, ScreenTypeOK
<1>9. ClientInv' /\ Ended(c)
  BY <1>1, <1>5, <1>6, <1>7, <1>8, TypesEnd
<1>10. QED
  BY <1>1, <1>4, <1>5, <1>9 DEF Edits

\* What a request that throws may have changed: the server acted only if the
\* client is not sure of its task.
Threw(c) ==
    /\ unsure' = unsure \/ unsure' = unsure \cup {calls[c].id}
    /\ calls[c].at \in {"sent", "served"}
    /\ calls[c].op # "fetch" /\ calls[c].at = "served" => calls[c].id \in unsure'
    /\ calls[c].op = "fetch" => unsure' = unsure
    /\ faults' \in 0 .. MaxFaults

LEMMA ThrowsIs ==
    ASSUME ClientInv, NEW c \in Calls, Throws(c)
    PROVE  Threw(c) /\ Running(c) /\ unsure' \subseteq Known
<1>1. Running(c) /\ ScreenTypeOK
  BY DEF Throws, ClientInv
<1>2. faults \in 0 .. MaxFaults /\ (faults < MaxFaults => faults + 1 \in 0 .. MaxFaults)
  BY <1>1, TasksAssumption DEF ScreenTypeOK
<1>3. ASSUME Refused(c) PROVE Threw(c)
  BY <1>2, <1>3 DEF Refused, Threw
<1>4. ASSUME Unsent(c) PROVE Threw(c)
  BY <1>2, <1>4 DEF Unsent, Fault, Threw
<1>5. ASSUME Unanswered(c) PROVE Threw(c)
  BY <1>1, <1>2, <1>5 DEF Unanswered, Fault, Threw, Edits
<1>6. Threw(c)
  BY <1>3, <1>4, <1>5 DEF Throws
<1>7. calls[c].op # "fetch" => calls[c].id \in Known
  BY <1>1 DEF ClientInv, KnownInv, KnownCall
<1>8. unsure' \subseteq Known
  BY <1>6, <1>7 DEF Threw, ClientInv, KnownInv
<1>9. QED
  BY <1>1, <1>6, <1>8

LEMMA FailIs ==
    ASSUME ClientInv, NEW c \in Calls, Fail(c)
    PROVE  /\ ClientInv' /\ Ended(c)
           /\ Running(c) /\ calls[c].op # "delete" /\ Threw(c)
           /\ crossed' = crossed \cup Crossed(c)
           /\ UNCHANGED <<items, cache, remote, begun>>
<1>1. /\ Threw(c) /\ Running(c) /\ unsure' \subseteq Known
      /\ calls[c].op # "delete" /\ isLoading' = FALSE /\ End(c)
      /\ crossed' = crossed \cup Crossed(c)
      /\ UNCHANGED <<items, cache, remote, begun>>
  BY ThrowsIs DEF Fail
<1>2. /\ items' \in Seq(Task) /\ cache' \in Seq(Task) /\ isLoading' \in BOOLEAN
      /\ faults' \in 0 .. MaxFaults
  BY <1>1 DEF ClientInv, ScreenTypeOK, Threw
<1>3. ASSUME NEW k, k \notin Known PROVE Versions(items', k) = {} /\ Versions(cache', k) = {}
  BY <1>1, <1>3, UnknownIsNowhere
<1>4. crossed' \subseteq 0 .. Seed + begun
  BY <1>1, CrossedType DEF ClientInv, KnownInv
<1>5. ClientInv' /\ Ended(c)
  BY <1>1, <1>2, <1>3, <1>4, TypesEnd
<1>6. QED
  BY <1>1, <1>5

LEMMA UndeleteIs ==
    ASSUME ClientInv, NEW c \in Calls, Undelete(c)
    PROVE  /\ ClientInv' /\ Ended(c)
           /\ Removing(c) /\ Threw(c)
           /\ items' = calls[c].before /\ cache' = calls[c].before
           /\ crossed \cup Crossed(c) \subseteq crossed'
           /\ \A k \in Known : Met(c, k) => k \in crossed'
           /\ UNCHANGED <<remote, begun>>
<1> DEFINE hidden == IF AllTasks \in calls[c].met THEN 1..(Seed + begun) ELSE calls[c].met
<1>1. /\ Threw(c) /\ Running(c) /\ unsure' \subseteq Known
      /\ calls[c].op = "delete" /\ End(c)
      /\ items' = calls[c].before /\ cache' = calls[c].before
      /\ crossed' = crossed \cup Crossed(c) \cup hidden
      /\ UNCHANGED <<isLoading, remote, begun>>
  BY ThrowsIs DEF Undelete, CacheRestored
<1>2. /\ calls[c].before \in Seq(Task) /\ isLoading' \in BOOLEAN
      /\ faults' \in 0 .. MaxFaults
  BY <1>1, CallFields DEF ClientInv, ScreenTypeOK, Threw
<1>3. ASSUME NEW k, k \notin Known PROVE Versions(items', k) = {} /\ Versions(cache', k) = {}
  BY <1>1, <1>3, UnknownIsNowhere
<1>4. hidden \subseteq 0 .. Seed + begun
  <2>1. calls[c].met \subseteq 0 .. Seed + begun
    BY <1>1 DEF ClientInv, KnownInv, KnownCall
  <2>2. QED
    BY <2>1, TasksAssumption DEF ClientInv, ScreenTypeOK
<1>5. \A k \in Known : Met(c, k) => k \in hidden
  BY DEF Met, Known
<1> HIDE DEF hidden
<1>6. crossed' \subseteq 0 .. Seed + begun
  BY <1>1, <1>4, CrossedType DEF ClientInv, KnownInv
<1>7. ClientInv' /\ Ended(c)
  BY <1>1, <1>2, <1>3, <1>6, TypesEnd
<1>9. QED
  BY <1>1, <1>5, <1>7 DEF Removing, Threw

LEMMA RestartIs ==
    ASSUME ClientInv, Restart
    PROVE  \E c \in Calls :
              /\ ClientInv'
              /\ Fetching(c)' /\ calls'[c].at = "sent" /\ calls'[c].met = {}
              /\ \A d \in Calls \ {c} : ~ Running(d)'
              /\ items' = cache /\ cache' = cache /\ remote' = remote /\ begun' = begun + 1
              /\ unsure' = unsure \cup InFlight
              /\ crossed' = crossed \cup UNION {Crossed(d) : d \in {e \in Calls : Edits(e)}}
<1>1. PICK c \in Calls :
         /\ Fault /\ begun < MaxCalls /\ begun' = begun + 1
         /\ items' = cache /\ isLoading' = TRUE /\ cache' = cache /\ remote' = remote
         /\ unsure' = unsure \cup InFlight
         /\ calls' = [d \in Calls |->
                IF d = c THEN [Sent("fetch", AllTasks) EXCEPT !.before = cache] ELSE Idle]
         /\ crossed' = crossed \cup UNION {Crossed(d) : d \in {e \in Calls : Edits(e)}}
  BY DEF Restart
<1>2. ScreenTypeOK /\ cache \in Seq(Task) /\ AllTasks \in Nat
  BY DEF ClientInv, ScreenTypeOK, AllTasks
<1>3. /\ Known \subseteq Known' /\ 0 .. Seed + begun \subseteq 0 .. Seed + begun'
      /\ Known \subseteq 0 .. Seed + begun
  <2>1. Known \subseteq Known' /\ 0 .. Seed + begun \subseteq 0 .. Seed + begun'
    BY <1>1, <1>2, KnownGrows
  <2>2. Known \subseteq 0 .. Seed + begun
    BY <1>2, TasksAssumption DEF Known, ScreenTypeOK
  <2>3. QED
    BY <2>1, <2>2
<1>4. calls'[c] = [op |-> "fetch", at |-> "sent", id |-> AllTasks, ver |-> begun + 1,
                   list |-> <<>>, before |-> cache, met |-> {}]
  BY <1>1 DEF Sent
<1>5. calls'[c] \in Call
  BY <1>2, <1>4, SentIs DEF Ops
<1>6. Running(c)'
  BY <1>5 DEF Running, Call, Idle
<1>7. \A d \in Calls \ {c} : calls'[d] = Idle /\ ~ Running(d)'
  BY <1>1 DEF Running
<1>8. calls' \in [Calls -> Call \cup {Idle}]
  <2>1. DOMAIN calls' = Calls /\ calls' = [d \in Calls |-> calls'[d]]
    BY <1>1
  <2>2. \A d \in Calls : calls'[d] \in Call \cup {Idle}
    BY <1>5, <1>7
  <2>3. QED
    BY <2>1, <2>2
<1>9. begun' \in 0 .. MaxCalls /\ faults' \in 0 .. MaxFaults
  BY <1>1, <1>2, TasksAssumption DEF ScreenTypeOK, Fault
<1>10. InFlight \subseteq Known
  BY EditsKnown DEF InFlight
<1>11. crossed' \subseteq 0 .. Seed + begun
  <2>1. \A d \in Calls : Edits(d) => Crossed(d) \subseteq 0 .. Seed + begun
    BY CrossedType DEF Edits
  <2>2. QED
    BY <1>1, <2>1 DEF ClientInv, KnownInv
<1>12. unsure' \subseteq Known
  BY <1>1, <1>10 DEF ClientInv, KnownInv
<1>13. ScreenTypeOK'
  <2>1. \A d \in Calls : Running(d)' => (calls'[d].op = "fetch" <=> calls'[d].id = AllTasks)
    BY <1>4, <1>7
  <2>2. remote' \subseteq Task /\ items' \in Seq(Task) /\ cache' \in Seq(Task)
    BY <1>1, <1>2 DEF ScreenTypeOK
  <2>3. 0 .. Seed + begun \subseteq Nat /\ Known \subseteq Nat
    BY <1>2, TasksAssumption DEF ScreenTypeOK, Known
  <2>4. QED
    BY <1>1, <1>8, <1>9, <1>11, <1>12, <2>1, <2>2, <2>3 DEF ScreenTypeOK
<1>14. RemoteInv' /\ MeetInv'
  BY <1>1, <1>7 DEF ClientInv, RemoteInv, MeetInv
<1>15. Among(items)' /\ Among(cache)'
  BY <1>1, <1>3 DEF ClientInv, KnownInv, Among
<1>16. KnownCall(c)'
  <2>1. Among(calls[c].list)' /\ Among(calls[c].before)'
    BY <1>1, <1>4, <1>15 DEF Among
  <2>2. QED
    BY <1>4, <2>1 DEF KnownCall
<1>17. KnownInv'
  <2>1. \A t \in remote' : t.id \in Known'
    BY <1>1, <1>3 DEF ClientInv, KnownInv
  <2>2. \A d \in Calls : Running(d)' => KnownCall(d)'
    BY <1>7, <1>16
  <2>3. QED
    BY <1>3, <1>11, <1>12, <1>15, <2>1, <2>2 DEF KnownInv
<1>18. Fetching(c)' /\ calls'[c].at = "sent" /\ calls'[c].met = {}
  BY <1>4, <1>6 DEF Fetching
<1>19. ClientInv'
  BY <1>13, <1>14, <1>17 DEF ClientInv
<1>20. QED
  BY <1>1, <1>7, <1>18, <1>19

LEMMA OthersIs ==
    ASSUME ClientInv, OthersChange
    PROVE  \E x \in Known :
              /\ ClientInv'
              /\ \A d \in Calls : KeptButMet(d, {x})
              /\ \A k : k # x => Rem(k)' = Rem(k)
              /\ unsure' = unsure \cup {x} /\ begun' = begun + 1
              /\ UNCHANGED <<items, cache, crossed>>
<1>1. PICK t \in remote :
         /\ Fault /\ begun < MaxCalls /\ begun' = begun + 1
         /\ \E left \in {{}, {[t EXCEPT !.ver = begun + 1]}} : remote' = But(t.id) \cup left
         /\ unsure' = unsure \cup {t.id}
         /\ calls' = [d \in Calls |->
                IF Running(d) THEN [calls[d] EXCEPT !.met = @ \cup {t.id}] ELSE Idle]
         /\ UNCHANGED <<screen, cache, crossed>>
  BY DEF OthersChange
<1> DEFINE x == t.id
<1>2. ScreenTypeOK /\ t \in Task /\ x \in Known /\ x \in Nat /\ begun + 1 \in Nat
  BY TasksAssumption DEF ClientInv, KnownInv, ScreenTypeOK, Task
<1>3. /\ Known \subseteq Known' /\ 0 .. Seed + begun \subseteq 0 .. Seed + begun'
      /\ x \in 0 .. Seed + begun'
  <2>1. Known \subseteq Known' /\ 0 .. Seed + begun \subseteq 0 .. Seed + begun'
    BY <1>1, <1>2, KnownGrows
  <2>2. Known \subseteq 0 .. Seed + begun
    BY <1>2, TasksAssumption DEF Known, ScreenTypeOK
  <2>3. QED
    BY <1>2, <2>1, <2>2
<1>4. ASSUME NEW d \in Calls
      PROVE  KeptButMet(d, {x}) /\ calls'[d] \in Call \cup {Idle}
  <2>1. CASE Running(d)
    <3>1. calls'[d] = [calls[d] EXCEPT !.met = @ \cup {x}] /\ calls[d] \in Call
      BY <1>1, <1>2, <2>1, CallFields
    <3>2. /\ calls'[d] \in Call
          /\ calls'[d].op = calls[d].op /\ calls'[d].at = calls[d].at
          /\ calls'[d].id = calls[d].id /\ calls'[d].ver = calls[d].ver
          /\ calls'[d].list = calls[d].list /\ calls'[d].before = calls[d].before
          /\ calls'[d].met = calls[d].met \cup {x}
      BY <1>2, <3>1, MeetsMore
    <3>3. Running(d)'
      BY <3>2 DEF Running, Call, Idle
    <3>4. QED
      BY <2>1, <3>2, <3>3 DEF KeptButMet, Kept
  <2>2. CASE ~ Running(d)
    <3>1. calls'[d] = Idle
      BY <1>1, <2>2
    <3>2. QED
      BY <2>2, <3>1 DEF KeptButMet, Running
  <2>3. QED
    BY <2>1, <2>2
<1>5. calls' \in [Calls -> Call \cup {Idle}]
  <2>1. DOMAIN calls' = Calls /\ calls' = [d \in Calls |-> calls'[d]]
    BY <1>1
  <2>2. QED
    BY <1>4, <2>1
<1> DEFINE w == [t EXCEPT !.ver = begun + 1]
<1>6. w \in Task /\ w.id = x
  BY <1>2 DEF Task
<1> HIDE DEF w
<1>7. PICK left \in {{}, {w}} : remote' = But(x) \cup left
  BY <1>1 DEF w
<1>8. \A u : u \in remote' <=> (u \in remote /\ u.id # x) \/ u \in left
  BY <1>7 DEF But
<1>9. ASSUME NEW k, k # x, NEW v PROVE v \in Rem(k)' <=> v \in Rem(k)
  <2>1. v \in Rem(k)' <=> \E u \in remote' : u.id = k /\ u.ver = v
    BY DEF Rem
  <2>2. QED
    BY <1>6, <1>7, <1>8, <1>9, <2>1, RemIs
<1>10. RemoteInv'
  <2>1. IsFiniteSet(But(x))
    <3>1. But(x) \in SUBSET remote
      BY DEF But
    <3>2. QED
      BY <3>1, FS_Subset DEF RemoteInv, ClientInv
  <2>2. IsFiniteSet(remote')
    <3>1. But(x) \cup {} = But(x)
      OBVIOUS
    <3>2. IsFiniteSet(But(x) \cup {w})
      BY <2>1, FS_AddElement
    <3>3. QED
      BY <1>7, <2>1, <3>1, <3>2
  <2>3. QED
    BY <1>6, <1>7, <1>8, <2>2 DEF RemoteInv, ClientInv
<1>11. /\ items' = items /\ cache' = cache /\ isLoading' = isLoading /\ crossed' = crossed
       /\ begun' \in 0 .. MaxCalls /\ faults' \in 0 .. MaxFaults
       /\ unsure' = unsure \cup {x}
  BY <1>1, <1>2, TasksAssumption DEF screen, ScreenTypeOK, Fault
<1>12. ScreenTypeOK'
  <2>1. \A d \in Calls : Running(d)' => (calls'[d].op = "fetch" <=> calls'[d].id = AllTasks)
    BY <1>2, <1>4 DEF ScreenTypeOK, KeptButMet, Kept
  <2>2. remote' \subseteq Task
    BY <1>10 DEF RemoteInv
  <2>3. QED
    BY <1>2, <1>5, <1>11, <2>1, <2>2 DEF ScreenTypeOK
<1>13. MeetInv'
  <2> SUFFICES ASSUME NEW a \in Calls, NEW b \in Calls, a # b, Running(a)', Running(b)'
               PROVE  calls'[b].id \in calls'[a].met
    BY DEF MeetInv
  <2>1. /\ Running(a) /\ Running(b) /\ calls'[b].id = calls[b].id
        /\ calls'[a].met = calls[a].met \cup {x}
    BY <1>4 DEF KeptButMet, Kept
  <2>2. calls[b].id \in calls[a].met
    BY <2>1 DEF ClientInv, MeetInv
  <2>3. QED
    BY <2>1, <2>2
<1>14. ASSUME NEW d \in Calls, Running(d)' PROVE KnownCall(d)'
  <2>1. Kept(d) /\ calls'[d].met = calls[d].met \cup {x}
    BY <1>4, <1>14 DEF KeptButMet
  <2>2. KnownCall(d)
    BY <2>1 DEF Kept, ClientInv, KnownInv
  <2>3. Among(calls[d].list)' /\ Among(calls[d].before)'
    BY <1>3, <2>1, <2>2 DEF KnownCall, Kept, Among
  <2>4. calls'[d].met \subseteq 0 .. Seed + begun'
    BY <1>3, <2>1, <2>2 DEF KnownCall
  <2>5. /\ calls'[d].op # "fetch" => calls'[d].id \in Known'
        /\ calls'[d].op = "delete" => calls'[d].at # "answered"
    BY <1>3, <2>1, <2>2 DEF KnownCall, Kept
  <2>6. QED
    BY <2>3, <2>4, <2>5 DEF KnownCall
<1>15. KnownInv'
  <2>1. Among(items)' /\ Among(cache)'
    BY <1>3, <1>11 DEF ClientInv, KnownInv, Among
  <2>2. \A u \in remote' : u.id \in Known'
    BY <1>2, <1>3, <1>6, <1>7, <1>8 DEF ClientInv, KnownInv
  <2>3. crossed' \subseteq 0 .. Seed + begun' /\ unsure' \subseteq Known'
    BY <1>2, <1>3, <1>11 DEF ClientInv, KnownInv
  <2>4. QED
    BY <1>14, <2>1, <2>2, <2>3 DEF KnownInv
<1>16. ClientInv'
  BY <1>10, <1>12, <1>13, <1>15 DEF ClientInv
<1>17. \A k : k # x => Rem(k)' = Rem(k)
  <2> SUFFICES ASSUME NEW k, k # x PROVE Rem(k)' = Rem(k)
    OBVIOUS
  <2> HIDE DEF x
  <2>1. QED
    BY <1>9
<1>18. QED
  BY <1>1, <1>2, <1>4, <1>11, <1>16, <1>17

LEMMA TypesStutter == ASSUME ClientInv, UNCHANGED screenVars PROVE ClientInv'
<1>1. /\ items' = items /\ cache' = cache /\ calls' = calls /\ remote' = remote
      /\ begun' = begun /\ crossed' = crossed /\ unsure' = unsure /\ isLoading' = isLoading
      /\ faults' = faults
  BY DEF screenVars
<1>2. ScreenTypeOK' /\ RemoteInv'
  BY <1>1 DEF ClientInv, ScreenTypeOK, RemoteInv, Running
<1>3. MeetInv'
  BY <1>1 DEF ClientInv, MeetInv, Running
<1>4. KnownInv'
  BY <1>1 DEF ClientInv, KnownInv, KnownCall, Running, Among, Known
<1>5. QED
  BY <1>2, <1>3, <1>4 DEF ClientInv

LEMMA SeedsFinite == IsFiniteSet(Seeds)
<1> DEFINE f == [i \in 1 .. Seed |-> [id |-> i, ver |-> 0]]
<1>1. IsFiniteSet(1 .. Seed)
  BY TasksAssumption, FS_Interval
<1>2. f \in Surjection(1 .. Seed, Seeds)
  BY DEF Surjection, Seeds
<1>3. QED
  BY <1>1, <1>2, FS_Surjection

LEMMA TypesInit == ASSUME ScreenInit PROVE ClientInv
<1>1. /\ items = <<>> /\ cache = <<>> /\ isLoading = TRUE /\ remote = Seeds /\ begun = 1
      /\ faults = 0 /\ crossed = {} /\ unsure = Ids(Seeds)
  BY DEF ScreenInit
<1>2. PICK c \in Calls : calls = [d \in Calls |->
           IF d = c THEN [op |-> "fetch", at |-> "sent", id |-> AllTasks, ver |-> 1,
                          list |-> <<>>, before |-> <<>>, met |-> {}]
           ELSE Idle]
  BY DEF ScreenInit
<1>3. /\ calls[c] = [op |-> "fetch", at |-> "sent", id |-> AllTasks, ver |-> 1,
                     list |-> <<>>, before |-> <<>>, met |-> {}]
      /\ \A d \in Calls \ {c} : calls[d] = Idle
      /\ calls = [d \in Calls |-> calls[d]]
  BY <1>2
<1>4. calls[c] \in Call
  <2>1. AllTasks \in Nat /\ 1 \in Nat /\ <<>> \in Seq(Task) /\ {} \in SUBSET Nat
    BY DEF AllTasks
  <2>2. QED
    BY <1>3, <2>1 DEF Call
<1>5. calls \in [Calls -> Call \cup {Idle}]
  BY <1>3, <1>4
<1>6. \A d \in Calls : Running(d) => d = c
  BY <1>3 DEF Running
<1>7. remote \subseteq Task /\ unsure \subseteq Known /\ Known \subseteq Nat
  BY <1>1, TasksAssumption DEF Seeds, Task, Ids, Known
<1>8. ScreenTypeOK
  BY <1>1, <1>3, <1>5, <1>6, <1>7, TasksAssumption DEF ScreenTypeOK
<1>9. RemoteInv
  <2>1. \A t, u \in remote : t.id = u.id => t = u
    BY <1>1 DEF Seeds
  <2>2. QED
    BY <1>1, <1>7, <2>1, SeedsFinite DEF RemoteInv
<1>10. MeetInv
  BY <1>6 DEF MeetInv
<1>11. KnownCall(c)
  BY <1>3 DEF KnownCall, Among
<1>12. KnownInv
  <2>1. Among(items) /\ Among(cache)
    BY <1>1 DEF Among
  <2>2. \A t \in remote : t.id \in Known
    BY <1>1, TasksAssumption DEF Seeds, Known
  <2>3. QED
    BY <1>1, <1>6, <1>7, <1>11, <2>1, <2>2 DEF KnownInv
<1>13. QED
  BY <1>8, <1>9, <1>10, <1>12 DEF ClientInv

---------------------------------------------------------------------------
(* The task list of the client: what screen, cache, fetches and server agree on *)

\* What a fetch has met is in doubt; the rest of its list is what the server has,
\* except for what its page left out.
\* One that has met nothing is still in the cache when the controller reads it.
FetchInv(f) ==
    /\ \A k \in calls[f].met : k # AllTasks => Doubtful(k) \/ k \in unsure
    /\ calls[f].at # "sent" => \A k \in Known :
          /\ Once(calls[f].list, k)
          /\ k \notin calls[f].met =>
                /\ Versions(calls[f].list, k) \subseteq Rem(k)
                /\ k \notin unsure => Versions(calls[f].list, k) = Rem(k)
    /\ calls[f].at = "answered" /\ calls[f].met = {} => cache = calls[f].list

\* A request that is alone with its task k.
EditInv(c, k) ==
    /\ calls[c].op = "create" =>
          /\ Versions(items, k) = {}
          /\ calls[c].at # "answered" => Versions(cache, k) = {}
          /\ calls[c].at = "sent" => Rem(k) = {}
    /\ calls[c].op = "update" =>
          /\ Versions(items, k) # {}
          /\ calls[c].at # "answered" => Versions(cache, k) = Versions(items, k)
          /\ calls[c].at = "sent" /\ k \notin unsure => Rem(k) = Versions(items, k)
    /\ calls[c].op = "delete" =>
          /\ Versions(items, k) = {} /\ Versions(cache, k) = {}
          /\ calls[c].at = "sent" /\ k \notin unsure => Rem(k) = Versions(calls[c].before, k)
    /\ calls[c].at # "sent" => Rem(k) = IF calls[c].op = "delete" THEN {} ELSE {calls[c].ver}

\* The list that a removal would bring back: what it has not met is as it was.
RemovalInv(d, k) ==
    /\ Once(calls[d].before, k)
    /\ calls[d].id # k /\ ~ Met(d, k) /\ k \notin unsure =>
          Versions(calls[d].before, k) = Rem(k)

\* A task in no doubt: where it stands while nobody is at work on it, while a
\* request is, and while a removal of another task may bring back an old list.
TaskInv(k) ==
    /\ Once(items, k) /\ Once(cache, k)
    /\ NoEdit(k) /\ k \notin unsure =>
          Versions(items, k) = Rem(k) /\ Versions(cache, k) = Rem(k)
    /\ NoEdit(k) /\ k \in unsure =>
          \/ Versions(items, k) = Versions(cache, k)
          \/ \E f \in Calls : Is(f, "fetch", "answered")
    /\ \A c \in Calls : Editing(c, k) => EditInv(c, k)
    /\ \A d \in Calls : Removing(d) => RemovalInv(d, k)

FetchesInv == \A f \in Calls : Fetching(f) => FetchInv(f)
TasksInv == \A k \in Known : ~ Doubtful(k) => TaskInv(k)

AgreeInv == ClientInv /\ FetchesInv /\ TasksInv

LEMMA DoubtStays ==
    ASSUME NEW k, crossed \subseteq crossed', ~ Doubtful(k)',
           \A c \in Calls : Editing(c, k) /\ Met(c, k) =>
              k \in crossed' \/ (Editing(c, k)' /\ Met(c, k)')
    PROVE  ~ Doubtful(k)
BY DEF Doubtful

\* Request d is the one it was, and has met what it had met; it is also where
\* it was.
SameCall(d) ==
    /\ Running(d) /\ Running(d)'
    /\ calls'[d].op = calls[d].op /\ calls'[d].id = calls[d].id
    /\ calls'[d].ver = calls[d].ver /\ calls'[d].before = calls[d].before
    /\ calls[d].met \subseteq calls'[d].met
Alike(d) == SameCall(d) /\ calls'[d].at = calls[d].at

LEMMA SameIsAlike ==
    ASSUME NEW d, calls'[d] = calls[d], Running(d)
    PROVE  Alike(d)
BY DEF Alike, SameCall, Running

LEMMA KeptIsAlike ==
    ASSUME NEW d, NEW new, KeptButMet(d, new), Running(d) \/ Running(d)'
    PROVE  Alike(d) /\ Kept(d) /\ calls'[d].met = calls[d].met \cup new
BY DEF Alike, SameCall, KeptButMet, Kept

\* A step that leaves task k alone, but that may copy it from the screen to
\* the cache, or leave the client unsure of it.
LEMMA TaskKept ==
    ASSUME NEW k, TaskInv(k),
           Versions(items', k) = Versions(items, k), Once(items', k), Once(cache', k),
           \/ Versions(cache', k) = Versions(cache, k)
           \/ Versions(cache', k) = Versions(items, k),
           Rem(k)' = Rem(k), k \in unsure => k \in unsure',
           \A d \in Calls : Editing(d, k) \/ Editing(d, k)' => Alike(d),
           \A d \in Calls : Removing(d)' => SameCall(d) \/ RemovalInv(d, k)',
           k \in unsure /\ Versions(cache', k) # Versions(items, k) =>
              \A f \in Calls : Is(f, "fetch", "answered") => Is(f, "fetch", "answered")'
    PROVE  TaskInv(k)'
<1>1. \A d \in Calls : Editing(d, k) <=> Editing(d, k)'
  BY DEF Editing, Edits, Alike, SameCall
<1>2. NoEdit(k)' <=> NoEdit(k)
  BY <1>1 DEF NoEdit
<1>3. ASSUME NoEdit(k)', k \notin unsure'
      PROVE  Versions(items', k) = Rem(k)' /\ Versions(cache', k) = Rem(k)'
  BY <1>2, <1>3 DEF TaskInv
<1>4. ASSUME NoEdit(k)', k \in unsure'
      PROVE  \/ Versions(items', k) = Versions(cache', k)
             \/ \E f \in Calls : Is(f, "fetch", "answered")'
  BY <1>2, <1>4 DEF TaskInv
<1>5. ASSUME NEW c \in Calls, Editing(c, k)' PROVE EditInv(c, k)'
  <2>1. Editing(c, k) /\ EditInv(c, k) /\ Alike(c)
    BY <1>1, <1>5 DEF TaskInv
  <2>2. QED
    BY <2>1 DEF EditInv, Alike, SameCall
<1>6. ASSUME NEW d \in Calls, Removing(d)' PROVE RemovalInv(d, k)'
  <2> SUFFICES ASSUME SameCall(d) PROVE RemovalInv(d, k)'
    BY <1>6
  <2>1. RemovalInv(d, k)
    BY <1>6 DEF TaskInv, Removing, SameCall
  <2>2. Met(d, k) => Met(d, k)'
    BY DEF Met, SameCall
  <2>3. QED
    BY <2>1, <2>2 DEF RemovalInv, SameCall
<1>7. QED
  BY <1>3, <1>4, <1>5, <1>6 DEF TaskInv

\* A task that is nowhere.
LEMMA TaskNowhere ==
    ASSUME NEW k, Versions(items', k) = {}, Versions(cache', k) = {}, Rem(k)' = {},
           \A c \in Calls : Editing(c, k)' => EditInv(c, k)',
           \A d \in Calls : Removing(d)' => Versions(calls'[d].before, k) = {}
    PROVE  TaskInv(k)'
<1>1. Once(items', k) /\ Once(cache', k)
  BY NoneIsOnce
<1>2. \A d \in Calls : Removing(d)' => Once(calls'[d].before, k)
  BY NoneIsOnce
<1>3. QED
  BY <1>1, <1>2 DEF TaskInv, RemovalInv

\* A fetch that goes on while the step may meet it.
LEMMA FetchKept ==
    ASSUME NEW f \in Calls, FetchInv(f), Alike(f), calls'[f].list = calls[f].list,
           \A k \in calls[f].met : Doubtful(k) => Doubtful(k)',
           \A k \in calls'[f].met \ calls[f].met :
              k # AllTasks => Doubtful(k)' \/ k \in unsure',
           unsure \subseteq unsure',
           \A k \in Known : k \notin calls'[f].met => Rem(k)' = Rem(k),
           \A k \in Known' \ Known : Versions(calls[f].list, k) = {} /\ Rem(k)' = {},
           calls'[f].met # {} \/ cache' = cache
    PROVE  FetchInv(f)'
<1>1. \A k \in calls'[f].met : k # AllTasks => Doubtful(k)' \/ k \in unsure'
  BY DEF FetchInv
<1>2. ASSUME calls'[f].at # "sent", NEW k \in Known'
      PROVE  /\ Once(calls'[f].list, k)
             /\ k \notin calls'[f].met =>
                   /\ Versions(calls'[f].list, k) \subseteq Rem(k)'
                   /\ k \notin unsure' => Versions(calls'[f].list, k) = Rem(k)'
  <2>1. CASE k \in Known
    <3>1. /\ Once(calls[f].list, k)
          /\ k \notin calls[f].met =>
                /\ Versions(calls[f].list, k) \subseteq Rem(k)
                /\ k \notin unsure => Versions(calls[f].list, k) = Rem(k)
      BY <1>2, <2>1 DEF FetchInv, Alike, SameCall
    <3>2. QED
      BY <2>1, <3>1 DEF Alike, SameCall
  <2>2. CASE k \notin Known
    <3>1. Versions(calls[f].list, k) = {} /\ Rem(k)' = {}
      BY <2>2
    <3>2. QED
      BY <3>1, NoneIsOnce
  <2>3. QED
    BY <2>1, <2>2
<1>3. calls'[f].at = "answered" /\ calls'[f].met = {} => cache' = calls'[f].list
  BY DEF FetchInv, Alike, SameCall
<1>4. QED
  BY <1>1, <1>2, <1>3 DEF FetchInv

---------------------------------------------------------------------------
(* The task list of the client: the end of a request *)

LEMMA DoubtEnds ==
    ASSUME NEW c \in Calls, Ended(c), crossed \cup Crossed(c) \subseteq crossed',
           NEW k, Doubtful(k)
    PROVE  Doubtful(k)'
<1>1. CASE k \in crossed
  BY <1>1 DEF Doubtful
<1>2. CASE \E e \in Calls : Editing(e, k) /\ Met(e, k)
  <2>1. PICK e \in Calls : Editing(e, k) /\ Met(e, k)
    BY <1>2
  <2>2. CASE e = c
    <3>1. k \in Crossed(c)
      BY <2>1, <2>2, CrossedIs DEF Editing
    <3>2. QED
      BY <3>1 DEF Doubtful
  <2>3. CASE e # c
    <3>1. calls'[e] = calls[e]
      BY <2>3 DEF Ended
    <3>2. Editing(e, k)' /\ Met(e, k)'
      BY <2>1, <3>1 DEF Editing, Edits, Running, Met
    <3>3. QED
      BY <3>2 DEF Doubtful
  <2>4. QED
    BY <2>2, <2>3
<1>3. QED
  BY <1>1, <1>2 DEF Doubtful

\* The fetches that go on have met the request that is over.
LEMMA FetchesEnd ==
    ASSUME ClientInv, FetchesInv, NEW c \in Calls, Running(c), Ended(c),
           \A k : Doubtful(k) => Doubtful(k)',
           unsure \subseteq unsure', remote' = remote, begun' = begun
    PROVE  FetchesInv'
<1> SUFFICES ASSUME NEW f \in Calls, Fetching(f)' PROVE FetchInv(f)'
  BY DEF FetchesInv
<1>1. f # c /\ calls'[f] = calls[f] /\ Running(f)
  BY DEF Ended, Fetching, Running
<1>2. Alike(f) /\ FetchInv(f)
  BY <1>1, SameIsAlike DEF FetchesInv, Fetching
<1>3. calls'[f].met # {}
  BY <1>1 DEF ClientInv, MeetInv
<1>4. Known' = Known /\ \A k : Rem(k)' = Rem(k)
  BY DEF Known, Rem
<1>5. QED
  BY <1>1, <1>2, <1>3, <1>4, FetchKept

LEMMA OthersGoOn ==
    ASSUME NEW c \in Calls, Ended(c), NEW k, ~ Editing(c, k)
    PROVE  /\ \A d \in Calls : Editing(d, k) \/ Editing(d, k)' => Alike(d)
           /\ \A d \in Calls : Removing(d)' => SameCall(d)
           /\ ~ Is(c, "fetch", "answered") =>
                 \A f \in Calls : Is(f, "fetch", "answered") => Is(f, "fetch", "answered")'
<1>1. ASSUME NEW d \in Calls, Editing(d, k) \/ Editing(d, k)' \/ Removing(d)' PROVE Alike(d)
  <2>1. d # c
    BY <1>1 DEF Editing, Edits, Removing, Ended
  <2>2. calls'[d] = calls[d]
    BY <2>1 DEF Ended
  <2>3. Running(d)
    BY <1>1, <2>2 DEF Editing, Edits, Removing, Running
  <2>4. QED
    BY <2>2, <2>3, SameIsAlike
<1>2. QED
  BY <1>1 DEF Ended, Is, Alike

\* Nobody is at work on task k.
LEMMA TaskRests ==
    ASSUME NEW k, NoEdit(k)', Once(items', k), Once(cache', k),
           k \notin unsure' => Versions(items', k) = Rem(k)' /\ Versions(cache', k) = Rem(k)',
           k \in unsure' => \/ Versions(items', k) = Versions(cache', k)
                            \/ \E f \in Calls : Is(f, "fetch", "answered")',
           \A d \in Calls : Removing(d)' => RemovalInv(d, k)'
    PROVE  TaskInv(k)'
BY DEF TaskInv, NoEdit

\* The end of the only request about task k.
LEMMA TaskAlone ==
    ASSUME ClientInv, NEW c \in Calls, NEW k, Editing(c, k), ~ Doubtful(k), Ended(c), TaskInv(k),
           Once(items', k), Once(cache', k),
           k \notin unsure' => Versions(items', k) = Rem(k)' /\ Versions(cache', k) = Rem(k)',
           k \in unsure' => Versions(items', k) = Versions(cache', k)
    PROVE  TaskInv(k)'
<1>1. ASSUME NEW d \in Calls, Running(d)'
      PROVE  d # c /\ calls'[d] = calls[d] /\ Running(d)
  BY <1>1 DEF Ended, Running
<1>2. NoEdit(k)'
  <2> SUFFICES ASSUME NEW d \in Calls, Editing(d, k)' PROVE FALSE
    BY DEF NoEdit
  <2>1. d # c /\ calls'[d] = calls[d] /\ Running(d)
    BY <1>1 DEF Editing, Edits
  <2>2. Editing(d, k)
    BY <2>1 DEF Editing, Edits
  <2>3. QED
    BY <2>1, <2>2, Alone
<1>3. ASSUME NEW d \in Calls, Removing(d)' PROVE RemovalInv(d, k)'
  <2>1. d # c /\ calls'[d] = calls[d] /\ Running(d)
    BY <1>1, <1>3 DEF Removing
  <2>2. Removing(d)
    BY <1>3, <2>1 DEF Removing
  <2>3. k \in calls'[d].met
    BY <2>1 DEF ClientInv, MeetInv, Editing, Edits
  <2>4. Once(calls[d].before, k)
    BY <2>2 DEF TaskInv, RemovalInv
  <2>5. QED
    BY <2>1, <2>3, <2>4 DEF RemovalInv, Met
<1>4. QED
  BY <1>2, <1>3, TaskRests

LEMMA AgreeDeleted == ASSUME AgreeInv, NEW c \in Calls, Deleted(c) PROVE AgreeInv'
<1>1. /\ ClientInv /\ ClientInv' /\ Ended(c) /\ Removing(c) /\ calls[c].at = "served"
      /\ cache' = Without(cache, calls[c].id) /\ cache \in Seq(Task)
      /\ crossed' = crossed \cup Crossed(c)
      /\ items' = items /\ remote' = remote /\ begun' = begun /\ unsure' = unsure
  BY DeletedIs DEF AgreeInv, screen
<1>2. \A k : Doubtful(k) => Doubtful(k)'
  BY <1>1, DoubtEnds
<1>3. FetchesInv'
  BY <1>1, <1>2, FetchesEnd DEF AgreeInv, Removing
<1>4. ASSUME NEW k \in Known', ~ Doubtful(k)' PROVE TaskInv(k)'
  <2>1. k \in Known /\ ~ Doubtful(k) /\ TaskInv(k) /\ Rem(k)' = Rem(k)
    BY <1>1, <1>2, <1>4 DEF AgreeInv, TasksInv, Known, Rem
  <2>2. Once(items, k) /\ Once(cache, k)
    BY <2>1 DEF TaskInv
  <2>3. /\ Versions(cache', k) = IF k = calls[c].id THEN {} ELSE Versions(cache, k)
        /\ Once(cache', k)
    BY <1>1, <2>2, WithoutShows
  <2>4. CASE Editing(c, k)
    <3>1. Versions(items, k) = {} /\ Rem(k) = {}
      BY <1>1, <2>1, <2>4 DEF TaskInv, EditInv, Removing
    <3>2. Versions(cache', k) = {}
      BY <2>3, <2>4 DEF Editing
    <3>3. QED
      BY <1>1, <2>1, <2>2, <2>3, <2>4, <3>1, <3>2, TaskAlone
  <2>5. CASE ~ Editing(c, k)
    <3>1. k # calls[c].id /\ ~ Is(c, "fetch", "answered")
      BY <1>1, <2>5 DEF Editing, Edits, Removing, Is
    <3>2. QED
      BY <1>1, <2>1, <2>2, <2>3, <2>5, <3>1, OthersGoOn, TaskKept
  <2>6. QED
    BY <2>4, <2>5
<1>5. QED
  BY <1>1, <1>3, <1>4 DEF AgreeInv, TasksInv

LEMMA AgreeMerge == ASSUME AgreeInv, NEW c \in Calls, Merge(c) PROVE AgreeInv'
<1>1. /\ ClientInv /\ ClientInv' /\ Ended(c) /\ Edits(c)
      /\ calls[c].at = "answered" /\ calls[c].op \in {"create", "update"}
      /\ \A k : MergedAt(k, calls[c], items, items')
      /\ cache' = items' /\ crossed' = crossed \cup Crossed(c)
      /\ remote' = remote /\ begun' = begun /\ unsure' = unsure
  BY MergeIs DEF AgreeInv
<1>2. \A k : Doubtful(k) => Doubtful(k)'
  BY <1>1, DoubtEnds
<1>3. FetchesInv'
  BY <1>1, <1>2, FetchesEnd DEF AgreeInv, Edits
<1>4. ASSUME NEW k \in Known', ~ Doubtful(k)' PROVE TaskInv(k)'
  <2>1. k \in Known /\ ~ Doubtful(k) /\ TaskInv(k) /\ Rem(k)' = Rem(k)
    BY <1>1, <1>2, <1>4 DEF AgreeInv, TasksInv, Known, Rem
  <2>2. Once(items, k) /\ MergedAt(k, calls[c], items, items')
    BY <1>1, <2>1 DEF TaskInv
  <2>3. CASE Editing(c, k)
    <3>1. k = calls[c].id /\ EditInv(c, k)
      BY <2>1, <2>3 DEF TaskInv, Editing
    <3>2. Rem(k) = {calls[c].ver}
      BY <1>1, <3>1 DEF EditInv
    <3>3. Versions(items', k) = {calls[c].ver} /\ Once(items', k)
      BY <1>1, <2>2, <3>1 DEF EditInv, MergedAt
    <3>4. QED
      BY <1>1, <2>1, <2>3, <3>2, <3>3, TaskAlone
  <2>4. CASE ~ Editing(c, k)
    <3>1. k # calls[c].id
      BY <1>1, <2>4 DEF Editing
    <3>2. Versions(items', k) = Versions(items, k) /\ Once(items', k)
      BY <2>2, <3>1 DEF MergedAt
    <3>3. QED
      BY <1>1, <2>1, <2>4, <3>2, OthersGoOn, TaskKept
  <2>5. QED
    BY <2>3, <2>4
<1>5. QED
  BY <1>1, <1>3, <1>4 DEF AgreeInv, TasksInv

LEMMA AgreeFail == ASSUME AgreeInv, NEW c \in Calls, Fail(c) PROVE AgreeInv'
<1>1. /\ ClientInv /\ ClientInv' /\ Ended(c) /\ Running(c)
      /\ calls[c].op # "delete" /\ Threw(c)
      /\ crossed' = crossed \cup Crossed(c)
      /\ items' = items /\ cache' = cache /\ remote' = remote /\ begun' = begun
  BY FailIs DEF AgreeInv
<1>2. \A k : Doubtful(k) => Doubtful(k)'
  BY <1>1, DoubtEnds
<1>3. FetchesInv'
  <2>1. unsure \subseteq unsure'
    BY <1>1 DEF Threw
  <2>2. QED
    BY <1>1, <1>2, <2>1, FetchesEnd DEF AgreeInv
<1>4. ASSUME NEW k \in Known', ~ Doubtful(k)' PROVE TaskInv(k)'
  <2>1. k \in Known /\ ~ Doubtful(k) /\ TaskInv(k) /\ Rem(k)' = Rem(k)
    BY <1>1, <1>2, <1>4 DEF AgreeInv, TasksInv, Known, Rem
  <2>2. Once(items, k) /\ Once(cache, k)
    BY <2>1 DEF TaskInv
  <2>3. CASE Editing(c, k)
    <3>1. k = calls[c].id /\ EditInv(c, k) /\ calls[c].op \in {"create", "update"}
      BY <1>1, <2>1, <2>3, CallFields DEF TaskInv, Editing, Edits, Ops, ClientInv
    <3>2. Versions(items, k) = Versions(cache, k)
      BY <1>1, <3>1 DEF EditInv, Threw
    <3>3. ASSUME k \notin unsure' PROVE Rem(k) = Versions(items, k)
      <4>1. calls[c].at = "sent" /\ k \notin unsure
        BY <1>1, <3>1, <3>3 DEF Threw
      <4>2. QED
        BY <3>1, <4>1 DEF EditInv
    <3>4. QED
      BY <1>1, <2>1, <2>2, <2>3, <3>2, <3>3, TaskAlone
  <2>4. CASE ~ Editing(c, k)
    <3>1. ~ Is(c, "fetch", "answered")
      BY <1>1 DEF Threw, Is
    <3>2. k \in unsure' <=> k \in unsure
      BY <1>1, <2>4 DEF Threw, Editing, Edits
    <3>3. QED
      BY <1>1, <2>1, <2>2, <2>4, <3>1, <3>2, OthersGoOn, TaskKept
  <2>5. QED
    BY <2>3, <2>4
<1>5. QED
  BY <1>1, <1>3, <1>4 DEF AgreeInv, TasksInv

LEMMA AgreeUndelete == ASSUME AgreeInv, NEW c \in Calls, Undelete(c) PROVE AgreeInv'
<1>1. /\ ClientInv /\ ClientInv' /\ Ended(c) /\ Removing(c) /\ Threw(c)
      /\ items' = calls[c].before /\ cache' = calls[c].before
      /\ crossed \cup Crossed(c) \subseteq crossed'
      /\ \A k \in Known : Met(c, k) => k \in crossed'
      /\ remote' = remote /\ begun' = begun
  BY UndeleteIs DEF AgreeInv
<1>2. \A k : Doubtful(k) => Doubtful(k)'
  BY <1>1, DoubtEnds
<1>3. FetchesInv'
  <2>1. unsure \subseteq unsure' /\ Running(c)
    BY <1>1 DEF Threw, Removing
  <2>2. QED
    BY <1>1, <1>2, <2>1, FetchesEnd DEF AgreeInv
<1>4. ASSUME NEW k \in Known', ~ Doubtful(k)' PROVE TaskInv(k)'
  <2>1. k \in Known /\ ~ Doubtful(k) /\ TaskInv(k) /\ Rem(k)' = Rem(k)
    BY <1>1, <1>2, <1>4 DEF AgreeInv, TasksInv, Known, Rem
  <2>2. ~ Met(c, k)
    BY <1>1, <1>4, <2>1 DEF Doubtful
  <2>3. RemovalInv(c, k) /\ Once(calls[c].before, k)
    BY <1>1, <2>1 DEF TaskInv, RemovalInv
  <2>4. CASE Editing(c, k)
    <3>1. k = calls[c].id /\ EditInv(c, k)
      BY <2>1, <2>4 DEF TaskInv, Editing
    <3>2. ASSUME k \notin unsure' PROVE Rem(k) = Versions(calls[c].before, k)
      <4>1. calls[c].at = "sent" /\ k \notin unsure
        BY <1>1, <3>1, <3>2 DEF Threw, Removing
      <4>2. QED
        BY <1>1, <3>1, <4>1 DEF EditInv, Removing
    <3>3. QED
      BY <1>1, <2>1, <2>3, <2>4, <3>2, TaskAlone
  <2>5. CASE ~ Editing(c, k)
    <3>1. k # calls[c].id
      BY <1>1, <2>5 DEF Editing, Edits, Removing
    <3>2. k \in unsure' <=> k \in unsure
      BY <1>1, <3>1 DEF Threw
    <3>3. k \notin unsure' => Versions(calls[c].before, k) = Rem(k)'
      BY <2>1, <2>2, <2>3, <3>1, <3>2 DEF RemovalInv
    <3>4. NoEdit(k)'
      <4> SUFFICES ASSUME NEW d \in Calls, Editing(d, k)' PROVE FALSE
        BY DEF NoEdit
      <4>1. d # c /\ calls'[d] = calls[d]
        BY <1>1 DEF Ended, Editing, Edits
      <4>2. Running(d) /\ calls[d].id = k
        BY <4>1 DEF Editing, Edits, Running
      <4>3. k \in calls[c].met
        BY <1>1, <4>1, <4>2 DEF ClientInv, MeetInv, Removing
      <4>4. QED
        BY <2>2, <4>3 DEF Met
    <3>5. ASSUME NEW d \in Calls, Removing(d)' PROVE RemovalInv(d, k)'
      <4>1. d # c /\ calls'[d] = calls[d]
        BY <1>1, <3>5 DEF Ended, Removing
      <4>2. Removing(d)
        BY <3>5, <4>1 DEF Removing, Running
      <4>3. RemovalInv(d, k)
        BY <2>1, <4>2 DEF TaskInv
      <4>4. QED
        BY <2>1, <3>2, <4>1, <4>3 DEF RemovalInv, Met
    <3>6. QED
      BY <1>1, <2>3, <3>3, <3>4, <3>5, TaskRests
  <2>6. QED
    BY <2>4, <2>5
<1>5. QED
  BY <1>1, <1>3, <1>4 DEF AgreeInv, TasksInv

LEMMA AgreeFetched == ASSUME AgreeInv, NEW c \in Calls, Fetched(c) PROVE AgreeInv'
<1>1. /\ ClientInv /\ ClientInv' /\ Ended(c) /\ Fetching(c) /\ calls[c].at = "answered"
      /\ items' = calls[c].list
      /\ crossed' = IF calls[c].met = {} THEN {} ELSE crossed \cup unsure
      /\ unsure' = IF calls[c].met = {} THEN LeftOut(calls[c].list) ELSE unsure
      /\ cache' = cache /\ remote' = remote /\ begun' = begun
  BY FetchedIs DEF AgreeInv
<1>2. FetchInv(c) /\ Running(c) /\ Known' = Known /\ AllTasks \notin Known
  BY <1>1, KnownGrows DEF AgreeInv, FetchesInv, Fetching, Known, ClientInv
<1>3. \A d \in Calls : Running(d)' => d # c /\ Running(d) /\ calls'[d] = calls[d]
  BY <1>1 DEF Ended, Running
<1>4. CASE calls[c].met = {}
  <2>1. \A d \in Calls : ~ Running(d)'
    BY <1>2, <1>3, <1>4 DEF ClientInv, AgreeInv, MeetInv
  <2>2. FetchesInv'
    BY <2>1 DEF FetchesInv, Fetching
  <2>3. ASSUME NEW k \in Known' PROVE TaskInv(k)'
    <3>1. Once(calls[c].list, k) /\ Versions(calls[c].list, k) \subseteq Rem(k) /\ cache = calls[c].list
      BY <1>1, <1>2, <1>4 DEF FetchInv
    <3>2. NoEdit(k)' /\ \A d \in Calls : ~ Removing(d)'
      BY <2>1 DEF NoEdit, Editing, Edits, Removing
    <3>3. Rem(k)' = Rem(k) /\ (k \notin unsure' => Versions(calls[c].list, k) = Rem(k))
      BY <1>1, <1>4, <3>1, ListedShows DEF Rem, ClientInv
    <3>4. QED
      BY <1>1, <3>1, <3>2, <3>3, TaskRests
  <2>4. QED
    BY <1>1, <2>2, <2>3 DEF AgreeInv, TasksInv
<1>5. CASE calls[c].met # {}
  <2>1. ASSUME NEW k, Doubtful(k) PROVE Doubtful(k)'
    <3>1. CASE k \in crossed
      BY <1>1, <1>5, <3>1 DEF Doubtful
    <3>2. CASE \E e \in Calls : Editing(e, k) /\ Met(e, k)
      <4>1. PICK e \in Calls : Editing(e, k) /\ Met(e, k)
        BY <3>2
      <4>2. e # c
        BY <1>1, <4>1 DEF Editing, Edits, Fetching
      <4>3. calls'[e] = calls[e]
        BY <1>1, <4>2 DEF Ended
      <4>4. Editing(e, k)' /\ Met(e, k)'
        BY <4>1, <4>3 DEF Editing, Edits, Running, Met
      <4>5. QED
        BY <4>4 DEF Doubtful
    <3>3. QED
      BY <2>1, <3>1, <3>2 DEF Doubtful
  <2>2. FetchesInv'
    BY <1>1, <1>2, <1>5, <2>1, FetchesEnd DEF AgreeInv
  <2>3. ASSUME NEW k \in Known', ~ Doubtful(k)' PROVE TaskInv(k)'
    <3>1. k \in Known /\ ~ Doubtful(k) /\ TaskInv(k) /\ Rem(k)' = Rem(k)
      BY <1>1, <1>2, <2>1, <2>3 DEF AgreeInv, TasksInv, Rem
    <3>2. k \notin unsure /\ k \notin unsure'
      BY <1>1, <1>5, <2>3 DEF Doubtful
    <3>3. k \notin calls[c].met
      BY <1>2, <3>1, <3>2 DEF FetchInv
    <3>4. Once(calls[c].list, k) /\ Versions(calls[c].list, k) = Rem(k)
      BY <1>1, <1>2, <3>1, <3>2, <3>3 DEF FetchInv
    <3>5. NoEdit(k) /\ NoEdit(k)'
      <4>1. \A d \in Calls : ~ Editing(d, k)
        BY <1>1, <1>2, <3>3 DEF ClientInv, MeetInv, Editing, Edits, Fetching
      <4>2. \A d \in Calls : ~ Editing(d, k)'
        BY <1>3, <4>1 DEF Editing, Edits
      <4>3. QED
        BY <4>1, <4>2 DEF NoEdit
    <3>6. Once(cache, k) /\ Versions(cache, k) = Rem(k)
      BY <3>1, <3>2, <3>5 DEF TaskInv
    <3>7. ASSUME NEW d \in Calls, Removing(d)' PROVE RemovalInv(d, k)'
      <4>1. Running(d) /\ calls'[d] = calls[d]
        BY <1>3, <3>7 DEF Removing
      <4>2. RemovalInv(d, k)
        BY <3>1, <3>7, <4>1 DEF TaskInv, Removing
      <4>3. QED
        BY <3>1, <3>2, <4>1, <4>2 DEF RemovalInv, Met
    <3>8. QED
      BY <1>1, <3>1, <3>2, <3>4, <3>5, <3>6, <3>7, TaskRests
  <2>4. QED
    BY <1>1, <2>2, <2>3 DEF AgreeInv, TasksInv
<1>6. QED
  BY <1>4, <1>5

---------------------------------------------------------------------------
(* The task list of the client: a request goes on *)

LEMMA DoubtMoves ==
    ASSUME NEW c \in Calls, NEW at, NEW list, Moved(c, at, list), crossed' = crossed, NEW k
    PROVE  Doubtful(k)' <=> Doubtful(k)
<1>1. ASSUME NEW e \in Calls
      PROVE  (Editing(e, k)' <=> Editing(e, k)) /\ (Running(e) => (Met(e, k)' <=> Met(e, k)))
  BY DEF Moved, Editing, Edits, Running, Met
<1>2. QED
  BY <1>1 DEF Doubtful, Editing, Edits

\* Nobody else is at work on the task of a request that goes on.
LEMMA TaskMoves ==
    ASSUME ClientInv, NEW c \in Calls, NEW k, Editing(c, k), ~ Doubtful(k), TaskInv(k),
           NEW at, NEW list, Moved(c, at, list),
           Once(items', k), Once(cache', k), EditInv(c, k)'
    PROVE  TaskInv(k)'
<1>1. Editing(c, k)'
  BY DEF Editing, Edits, Moved
<1>2. ASSUME NEW e \in Calls, Editing(e, k)' PROVE e = c
  <2>1. SUFFICES ASSUME e # c PROVE FALSE
    OBVIOUS
  <2>2. calls'[e] = calls[e]
    BY <2>1 DEF Moved
  <2>3. Editing(e, k) /\ Running(e)
    BY <1>2, <2>2 DEF Editing, Edits, Running
  <2>4. QED
    BY <2>1, <2>3, Alone
<1>3. ASSUME NEW d \in Calls, Removing(d)' PROVE RemovalInv(d, k)'
  <2>1. Removing(d) /\ calls'[d].before = calls[d].before /\ calls'[d].id = calls[d].id
        /\ calls'[d].met = calls[d].met
    BY <1>3 DEF Moved, Removing, Running
  <2>2. Once(calls[d].before, k)
    BY <2>1 DEF TaskInv, RemovalInv
  <2>3. d = c \/ k \in calls[d].met
    BY <2>1 DEF ClientInv, MeetInv, Editing, Edits, Removing
  <2>4. d = c => calls[d].id = k
    BY DEF Editing
  <2>5. QED
    BY <2>1, <2>2, <2>3, <2>4 DEF RemovalInv, Met
<1>4. QED
  BY <1>1, <1>2, <1>3 DEF TaskInv, NoEdit

LEMMA OthersStay ==
    ASSUME NEW c \in Calls, NEW at, NEW list, Moved(c, at, list), NEW k, ~ Editing(c, k)
    PROVE  /\ \A d \in Calls : Editing(d, k) \/ Editing(d, k)' => Alike(d)
           /\ \A d \in Calls : Removing(d)' => SameCall(d)
<1>1. ASSUME NEW d \in Calls, Editing(d, k) \/ Editing(d, k)' PROVE Alike(d)
  <2>1. d # c
    BY <1>1 DEF Editing, Edits, Moved
  <2>2. calls'[d] = calls[d]
    BY <2>1 DEF Moved
  <2>3. Running(d)
    BY <1>1, <2>2 DEF Editing, Edits, Running
  <2>4. QED
    BY <2>2, <2>3, SameIsAlike
<1>2. ASSUME NEW d \in Calls, Removing(d)' PROVE SameCall(d)
  BY <1>2 DEF Moved, SameCall, Removing, Running
<1>3. QED
  BY <1>1, <1>2

LEMMA AgreeServe == ASSUME AgreeInv, NEW c \in Calls, Serve(c) PROVE AgreeInv'
<1> DEFINE list == calls'[c].list
<1>1. /\ ClientInv /\ ClientInv' /\ Running(c) /\ calls[c].at = "sent"
      /\ Moved(c, "served", list)
      /\ items' = items /\ cache' = cache /\ begun' = begun
      /\ crossed' = crossed /\ unsure \subseteq unsure'
      /\ calls[c].op = "fetch" => remote' = remote
  BY ServeIs DEF AgreeInv, screen
<1>2. ASSUME NEW k
      PROVE  Rem(k)' = IF ~ Editing(c, k) THEN Rem(k)
                       ELSE IF calls[c].op = "delete" THEN {} ELSE {calls[c].ver}
  <2>1. CASE calls[c].op = "fetch"
    BY <1>1, <2>1 DEF Rem, Editing, Edits
  <2>2. CASE calls[c].op # "fetch"
    <3>1. Rem(k)' = IF k # calls[c].id THEN Rem(k)
                    ELSE IF calls[c].op = "delete" THEN {} ELSE {calls[c].ver}
      BY <1>1, <2>2, ServeIs
    <3>2. Editing(c, k) <=> k = calls[c].id
      BY <1>1, <2>2 DEF Editing, Edits
    <3>3. QED
      BY <3>1, <3>2
  <2>3. QED
    BY <2>1, <2>2
<1>3. ASSUME calls[c].op = "fetch", NEW k
      PROVE  /\ Once(list, k) /\ Versions(list, k) \subseteq Rem(k)
             /\ k \notin unsure' => Versions(list, k) = Rem(k)
  BY <1>1, <1>3, ServeIs
<1> HIDE DEF list
<1>4. \A k : Doubtful(k)' <=> Doubtful(k)
  BY <1>1, DoubtMoves
<1>5. ASSUME NEW f \in Calls, Fetching(f)' PROVE FetchInv(f)'
  <2>1. Fetching(f) /\ FetchInv(f)
    BY <1>1, <1>5 DEF Moved, Fetching, Running, AgreeInv, FetchesInv
  <2>2. CASE f = c
    <3>1. \A k : Rem(k)' = Rem(k)
      BY <1>1, <2>1, <2>2 DEF Rem, Fetching
    <3>2. /\ calls'[f].at = "served" /\ calls'[f].met = calls[f].met
          /\ calls'[f].list = list /\ calls[f].op = "fetch"
      BY <1>1, <2>1, <2>2 DEF Moved, Fetching
    <3>3. \A k \in calls'[f].met : k # AllTasks => Doubtful(k)' \/ k \in unsure'
      BY <1>1, <1>4, <2>1, <3>2 DEF FetchInv
    <3>4. \A k : /\ Once(calls'[f].list, k) /\ Versions(calls'[f].list, k) \subseteq Rem(k)'
                 /\ k \notin unsure' => Versions(calls'[f].list, k) = Rem(k)'
      BY <1>3, <2>2, <3>1, <3>2
    <3>5. QED
      BY <3>2, <3>3, <3>4 DEF FetchInv
  <2>3. CASE f # c
    <3>1. calls'[f] = calls[f] /\ Alike(f)
      BY <1>1, <2>1, <2>3, SameIsAlike DEF Moved, Fetching
    <3>2. calls[c].id \in calls[f].met
      BY <1>1, <2>1, <2>3 DEF ClientInv, MeetInv, Fetching
    <3>3. \A k \in Known : k \notin calls'[f].met => Rem(k)' = Rem(k)
      BY <1>2, <3>1, <3>2 DEF Editing
    <3>4. Known' = Known
      BY <1>1 DEF Known
    <3>5. QED
      BY <1>1, <1>4, <2>1, <3>1, <3>3, <3>4, FetchKept
  <2>4. QED
    BY <2>2, <2>3
<1>6. ASSUME NEW k \in Known', ~ Doubtful(k)' PROVE TaskInv(k)'
  <2>1. k \in Known /\ ~ Doubtful(k) /\ TaskInv(k)
    BY <1>1, <1>4, <1>6 DEF AgreeInv, TasksInv, Known
  <2>2. Once(items, k) /\ Once(cache, k)
    BY <2>1 DEF TaskInv
  <2>3. CASE Editing(c, k)
    <3>1. EditInv(c, k) /\ Rem(k)' = IF calls[c].op = "delete" THEN {} ELSE {calls[c].ver}
      BY <1>2, <2>1, <2>3 DEF TaskInv
    <3>2. calls'[c].at = "served" /\ calls'[c].op = calls[c].op /\ calls'[c].ver = calls[c].ver
      BY <1>1 DEF Moved
    <3>3. EditInv(c, k)'
      BY <1>1, <3>1, <3>2 DEF EditInv
    <3>4. QED
      BY <1>1, <2>1, <2>2, <2>3, <3>3, TaskMoves
  <2>4. CASE ~ Editing(c, k)
    <3>1. Rem(k)' = Rem(k)
      BY <1>2, <2>4
    <3>2. \A f \in Calls : Is(f, "fetch", "answered") => Is(f, "fetch", "answered")'
      BY <1>1 DEF Moved, Is
    <3>3. QED
      BY <1>1, <2>1, <2>2, <2>4, <3>1, <3>2, OthersStay, TaskKept
  <2>5. QED
    BY <2>3, <2>4
<1>7. QED
  BY <1>1, <1>5, <1>6 DEF AgreeInv, FetchesInv, TasksInv

LEMMA AgreeAnswer == ASSUME AgreeInv, NEW c \in Calls, AnswerCall(c) PROVE AgreeInv'
<1>1. /\ ClientInv /\ ClientInv' /\ Running(c)
      /\ calls[c].at = "served" /\ calls[c].op # "delete"
      /\ Moved(c, "answered", calls[c].list)
      /\ items' = items /\ remote' = remote /\ begun' = begun
      /\ crossed' = crossed /\ unsure' = unsure
      /\ calls[c].op = "fetch" => cache' = calls[c].list
      /\ calls[c].op # "fetch" => \A k : MergedAt(k, calls[c], cache, cache')
  BY AnswerIs DEF AgreeInv, screen
<1>2. \A k : Doubtful(k)' <=> Doubtful(k)
  BY <1>1, DoubtMoves
<1>3. Known' = Known /\ AllTasks \notin Known /\ \A k : Rem(k)' = Rem(k)
  BY <1>1, KnownGrows DEF Known, Rem, ClientInv
<1>4. ASSUME NEW f \in Calls, Fetching(f)' PROVE FetchInv(f)'
  <2>1. Fetching(f) /\ FetchInv(f)
    BY <1>1, <1>4 DEF Moved, Fetching, Running, AgreeInv, FetchesInv
  <2>2. CASE f = c
    <3>1. /\ calls'[f].at = "answered" /\ calls'[f].met = calls[f].met
          /\ calls'[f].list = calls[f].list /\ calls[f].op = "fetch"
      BY <1>1, <2>1, <2>2 DEF Moved, Fetching
    <3>2. \A k \in calls'[f].met : k # AllTasks => Doubtful(k)' \/ k \in unsure'
      BY <1>1, <1>2, <2>1, <3>1 DEF FetchInv
    <3>3. \A k \in Known' :
             /\ Once(calls'[f].list, k)
             /\ k \notin calls'[f].met =>
                   /\ Versions(calls'[f].list, k) \subseteq Rem(k)'
                   /\ k \notin unsure' => Versions(calls'[f].list, k) = Rem(k)'
      BY <1>1, <1>3, <2>1, <2>2, <3>1 DEF FetchInv
    <3>4. cache' = calls'[f].list
      BY <1>1, <2>2, <3>1
    <3>5. QED
      BY <3>2, <3>3, <3>4 DEF FetchInv
  <2>3. CASE f # c
    <3>1. calls'[f] = calls[f] /\ Alike(f)
      BY <1>1, <2>1, <2>3, SameIsAlike DEF Moved, Fetching
    <3>2. calls'[f].met # {}
      BY <1>1, <2>1, <2>3, <3>1 DEF ClientInv, MeetInv, Fetching
    <3>3. QED
      BY <1>1, <1>2, <1>3, <2>1, <3>1, <3>2, FetchKept
  <2>4. QED
    BY <2>2, <2>3
<1>5. ASSUME NEW k \in Known', ~ Doubtful(k)' PROVE TaskInv(k)'
  <2>1. k \in Known /\ ~ Doubtful(k) /\ TaskInv(k) /\ Rem(k)' = Rem(k)
    BY <1>1, <1>2, <1>3, <1>5 DEF AgreeInv, TasksInv
  <2>2. Once(items, k) /\ Once(cache, k)
    BY <2>1 DEF TaskInv
  <2>3. CASE Fetching(c)
    <3>1. FetchInv(c) /\ calls[c].op = "fetch" /\ cache' = calls[c].list
      BY <1>1, <2>3 DEF AgreeInv, FetchesInv, Fetching
    <3>2. Once(cache', k) /\ (k \notin calls[c].met /\ k \notin unsure => Versions(cache', k) = Rem(k))
      BY <1>1, <2>1, <3>1 DEF FetchInv
    <3>3. k \notin unsure => k \notin calls[c].met
      BY <1>3, <2>1, <3>1 DEF FetchInv
    <3>4. Is(c, "fetch", "answered")'
      BY <1>1, <3>1 DEF Is, Moved
    <3>5. \A d \in Calls : ~ Editing(d, k)
      BY <1>1, <2>1, <2>3, Alone DEF Editing, Edits, Fetching
    <3>6. NoEdit(k) /\ NoEdit(k)'
      BY <1>1, <3>5 DEF NoEdit, Editing, Edits, Moved, Running
    <3>7. k \notin unsure => Versions(items, k) = Rem(k)
      BY <2>1, <3>6 DEF TaskInv
    <3>8. ASSUME NEW d \in Calls, Removing(d)' PROVE RemovalInv(d, k)'
      <4>1. /\ Removing(d) /\ calls'[d].before = calls[d].before
            /\ calls'[d].id = calls[d].id /\ calls'[d].met = calls[d].met
        BY <1>1, <3>8 DEF Moved, Removing, Running
      <4>2. RemovalInv(d, k)
        BY <2>1, <4>1 DEF TaskInv
      <4>3. QED
        BY <1>1, <2>1, <4>1, <4>2 DEF RemovalInv, Met
    <3>9. QED
      BY <1>1, <2>1, <2>2, <3>2, <3>3, <3>4, <3>6, <3>7, <3>8, TaskRests
  <2>4. CASE Editing(c, k)
    <3>1. EditInv(c, k) /\ calls[c].op \in {"create", "update"} /\ k = calls[c].id
      BY <1>1, <2>1, <2>4, CallFields DEF TaskInv, Editing, Edits, Ops, ClientInv
    <3>2. calls'[c].at = "answered" /\ calls'[c].op = calls[c].op /\ calls'[c].ver = calls[c].ver
      BY <1>1 DEF Moved
    <3>3. MergedAt(k, calls[c], cache, cache')
      BY <1>1, <3>1
    <3>4. Once(cache', k)
      BY <1>1, <2>2, <3>1, <3>3 DEF EditInv, MergedAt
    <3>5. EditInv(c, k)'
      BY <1>1, <2>1, <3>1, <3>2 DEF EditInv
    <3>6. QED
      BY <1>1, <2>1, <2>2, <2>4, <3>4, <3>5, TaskMoves
  <2>5. CASE ~ Fetching(c) /\ ~ Editing(c, k)
    <3>1. calls[c].op # "fetch" /\ k # calls[c].id
      BY <1>1, <2>5 DEF Fetching, Editing, Edits
    <3>2. Versions(cache', k) = Versions(cache, k) /\ Once(cache', k)
      BY <1>1, <2>2, <3>1 DEF MergedAt
    <3>3. \A f \in Calls : Is(f, "fetch", "answered") => Is(f, "fetch", "answered")'
      BY <1>1 DEF Moved, Is
    <3>4. QED
      BY <1>1, <2>1, <2>2, <2>5, <3>2, <3>3, OthersStay, TaskKept
  <2>6. QED
    BY <2>3, <2>4, <2>5
<1>6. QED
  BY <1>1, <1>4, <1>5 DEF AgreeInv, FetchesInv, TasksInv

---------------------------------------------------------------------------
(* The task list of the client: a request starts *)

LEMMA DoubtGrows ==
    ASSUME crossed' = crossed, NEW k, Doubtful(k),
           \A d \in Calls : Running(d) => Kept(d) /\ calls[d].met \subseteq calls'[d].met
    PROVE  Doubtful(k)'
<1>1. ASSUME NEW e \in Calls, Editing(e, k), Met(e, k) PROVE Editing(e, k)' /\ Met(e, k)'
  BY <1>1 DEF Editing, Edits, Kept, Met
<1>2. QED
  BY <1>1 DEF Doubtful

LEMMA StartKeeps ==
    ASSUME NEW c \in Calls, NEW op, NEW id, Started(c, op, id),
           NEW d \in Calls, d # c, Running(d) \/ Running(d)'
    PROVE  Alike(d) /\ Kept(d) /\ calls'[d].met = calls[d].met \cup {id}
BY KeptIsAlike DEF Started

LEMMA FetchesStart ==
    ASSUME AgreeInv, NEW c \in Calls, NEW op \in Ops, NEW id \in Nat, Starts(c, op, id)
    PROVE  FetchesInv' /\ \A k : Doubtful(k) => Doubtful(k)'
<1>1. /\ ClientInv /\ ClientInv' /\ Started(c, op, id)
      /\ remote' = remote /\ crossed' = crossed /\ unsure' = unsure
      /\ begun' = begun + 1
  BY TypesStart DEF AgreeInv, Starts, Started
<1>2. /\ Running(c)' /\ calls'[c].op = op /\ calls'[c].at = "sent" /\ calls'[c].id = id
      /\ calls'[c].met = {calls[e].id : e \in {x \in Calls : Running(x)}}
      /\ ~ Running(c)
      /\ op = "fetch" <=> id = AllTasks
  BY <1>1 DEF Started, Starts
<1>3. ASSUME NEW k, Doubtful(k) PROVE Doubtful(k)'
  <2>1. \A d \in Calls : Running(d) => Kept(d) /\ calls[d].met \subseteq calls'[d].met
    BY <1>1, <1>2, StartKeeps
  <2>2. QED
    BY <1>1, <1>3, <2>1, DoubtGrows
<1>4. ASSUME NEW f \in Calls, Fetching(f)' PROVE FetchInv(f)'
  <2>1. CASE f = c
    <3>1. op = "fetch" /\ id = AllTasks
      BY <1>2, <1>4, <2>1 DEF Fetching
    <3>2. ASSUME NEW k \in calls'[f].met, k # AllTasks PROVE Doubtful(k)'
      <4>1. PICK e \in Calls : Running(e) /\ calls[e].id = k
        BY <1>2, <2>1
      <4>2. e # c /\ calls[e].op # "fetch"
        BY <1>1, <1>2, <3>2, <4>1, CallFields DEF ClientInv
      <4>3. Kept(e) /\ calls'[e].met = calls[e].met \cup {id}
        BY <1>1, <4>1, <4>2, StartKeeps
      <4>4. Editing(e, k)' /\ Met(e, k)'
        BY <3>1, <4>1, <4>2, <4>3 DEF Kept, Editing, Edits, Met
      <4>5. QED
        BY <4>4 DEF Doubtful
    <3>3. QED
      BY <1>2, <2>1, <3>2 DEF FetchInv
  <2>2. CASE f # c
    <3>1. Alike(f) /\ Kept(f) /\ calls'[f].met = calls[f].met \cup {id}
      BY <1>1, <1>4, <2>2, StartKeeps DEF Fetching
    <3>2. Fetching(f) /\ FetchInv(f) /\ calls'[f].list = calls[f].list
      BY <1>4, <3>1 DEF Kept, Fetching, AgreeInv, FetchesInv
    <3>3. ASSUME id # AllTasks PROVE Doubtful(id)'
      <4>1. calls[f].id = AllTasks
        BY <1>1, <3>2, CallFields DEF ClientInv, Fetching
      <4>2. AllTasks \in calls'[c].met
        BY <1>2, <3>2, <4>1 DEF Fetching
      <4>3. Editing(c, id)' /\ Met(c, id)'
        BY <1>2, <3>3, <4>2 DEF Editing, Edits, Met
      <4>4. QED
        BY <4>3 DEF Doubtful
    <3>4. \A k : Rem(k)' = Rem(k)
      BY <1>1 DEF Rem
    <3>5. \A k \in Known' \ Known : Versions(calls[f].list, k) = {} /\ Rem(k)' = {}
      BY <1>1, <3>2, <3>4, UnknownIsNowhere DEF Fetching
    <3>6. QED
      BY <1>1, <1>3, <3>1, <3>2, <3>3, <3>4, <3>5, FetchKept
  <2>3. QED
    BY <2>1, <2>2
<1>5. QED
  BY <1>3, <1>4 DEF FetchesInv

LEMMA ListsStart ==
    ASSUME ClientInv, NEW c \in Calls, NEW op \in Ops, NEW id \in Nat, Starts(c, op, id), NEW k
    PROVE  /\ op # "delete" => items' = items /\ cache' = cache
           /\ op = "delete" =>
                 /\ cache' = items'
                 /\ Versions(items', k) = IF k = id THEN {} ELSE Versions(items, k)
                 /\ Once(items, k) => Once(items', k)
<1>1. items \in Seq(Task)
  BY DEF ClientInv, ScreenTypeOK
<1>2. op = "delete" => items' = Without(items, id) /\ cache' = items'
  BY DEF Starts
<1>3. QED
  BY <1>1, <1>2, WithoutShows DEF Starts

\* The task of which a new request gives out the id.
LEMMA StartsNew ==
    ASSUME AgreeInv, NEW c \in Calls, NEW op \in Ops, NEW id \in Nat, Starts(c, op, id),
           NEW k, k \notin Known
    PROVE  TaskInv(k)'
<1>1. /\ ClientInv /\ Started(c, op, id) /\ Rem(k)' = Rem(k) /\ unsure' = unsure
      /\ calls'[c].op = op /\ calls'[c].at = "sent" /\ calls'[c].id = id
      /\ calls'[c].before = items
      /\ op = "fetch" <=> id = AllTasks
      /\ op \in {"update", "delete"} => id \in Known
  BY DEF AgreeInv, Starts, Started, Rem
<1>2. Versions(items, k) = {} /\ Versions(cache, k) = {} /\ Rem(k) = {} /\ NoEdit(k)
  BY <1>1, UnknownIsNowhere
<1>3. Versions(items', k) = {} /\ Versions(cache', k) = {}
  BY <1>1, <1>2, ListsStart
<1>4. ASSUME NEW d \in Calls, Editing(d, k)' PROVE EditInv(d, k)'
  <2>1. d = c
    <3>1. SUFFICES ASSUME d # c PROVE FALSE
      OBVIOUS
    <3>2. Kept(d)
      BY <1>1, <1>4, <3>1, StartKeeps DEF Editing, Edits
    <3>3. Editing(d, k)
      BY <1>4, <3>2 DEF Editing, Edits, Kept
    <3>4. QED
      BY <1>2, <3>3 DEF NoEdit
  <2>2. op = "create"
    BY <1>1, <1>4, <2>1 DEF Editing, Edits, Ops
  <2>3. QED
    BY <1>1, <1>2, <1>3, <2>1, <2>2 DEF EditInv
<1>5. ASSUME NEW d \in Calls, Removing(d)' PROVE Versions(calls'[d].before, k) = {}
  <2>1. CASE d = c
    BY <1>1, <1>2, <2>1
  <2>2. CASE d # c
    <3>1. Kept(d)
      BY <1>1, <1>5, <2>2, StartKeeps DEF Removing
    <3>2. QED
      BY <1>1, <3>1, UnknownIsNowhere DEF Kept
  <2>3. QED
    BY <2>1, <2>2
<1>6. QED
  BY <1>1, <1>2, <1>3, <1>4, <1>5, TaskNowhere

\* A task that a new request is not about.
LEMMA StartsElsewhere ==
    ASSUME AgreeInv, NEW c \in Calls, NEW op \in Ops, NEW id \in Nat, Starts(c, op, id),
           NEW k, k # id, TaskInv(k)
    PROVE  TaskInv(k)'
<1>1. /\ ClientInv /\ Started(c, op, id) /\ Rem(k)' = Rem(k) /\ unsure' = unsure
      /\ calls'[c].op = op /\ calls'[c].id = id /\ calls'[c].before = items
      /\ calls'[c].met = {calls[e].id : e \in {x \in Calls : Running(x)}}
      /\ ~ Running(c)
  BY DEF AgreeInv, Starts, Started, Rem
<1>2. Once(items, k) /\ Once(cache, k)
  BY DEF TaskInv
<1>3. /\ Versions(items', k) = Versions(items, k) /\ Once(items', k) /\ Once(cache', k)
      /\ Versions(cache', k) \in {Versions(cache, k), Versions(items, k)}
  BY <1>1, <1>2, ListsStart
<1>4. ASSUME NEW d \in Calls, Editing(d, k) \/ Editing(d, k)' PROVE Alike(d)
  <2>1. d # c
    BY <1>1, <1>4 DEF Editing, Edits
  <2>2. QED
    BY <1>1, <1>4, <2>1, StartKeeps DEF Editing, Edits
<1>5. ASSUME NEW d \in Calls, Removing(d)' PROVE SameCall(d) \/ RemovalInv(d, k)'
  <2>1. CASE d # c
    BY <1>1, <1>5, <2>1, StartKeeps DEF Removing, Alike
  <2>2. CASE d = c
    <3>1. ASSUME ~ Met(c, k)', k \notin unsure PROVE Versions(items, k) = Rem(k)
      <4>1. \A e \in Calls : Running(e) => calls[e].id # k
        BY <1>1, <3>1 DEF Met
      <4>2. NoEdit(k)
        BY <4>1 DEF NoEdit, Editing, Edits
      <4>3. QED
        BY <3>1, <4>2 DEF TaskInv
    <3>2. QED
      BY <1>1, <1>2, <2>2, <3>1 DEF RemovalInv
  <2>3. QED
    BY <2>1, <2>2
<1>6. \A f \in Calls : Is(f, "fetch", "answered") => Is(f, "fetch", "answered")'
  <2> SUFFICES ASSUME NEW f \in Calls, Is(f, "fetch", "answered")
               PROVE  Is(f, "fetch", "answered")'
    OBVIOUS
  <2>1. Running(f)
    BY DEF Is, Running, Idle
  <2>2. Kept(f)
    BY <1>1, <2>1, StartKeeps
  <2>3. QED
    BY <2>2 DEF Kept, Is
<1>7. QED
  BY <1>1, <1>3, <1>4, <1>5, <1>6, TaskKept

\* The task that a new request is about, if the request runs alone.
LEMMA StartsHere ==
    ASSUME AgreeInv, NEW c \in Calls, NEW op \in Ops, NEW id \in Nat, Starts(c, op, id),
           id \in Known, ~ Doubtful(id)', TaskInv(id)
    PROVE  TaskInv(id)'
<1>1. /\ ClientInv /\ Started(c, op, id) /\ Rem(id)' = Rem(id) /\ unsure' = unsure
      /\ Running(c)' /\ calls'[c].op = op /\ calls'[c].at = "sent" /\ calls'[c].id = id
      /\ calls'[c].before = items /\ ~ Running(c)
      /\ calls'[c].met = {calls[e].id : e \in {x \in Calls : Running(x)}}
      /\ op = "fetch" <=> id = AllTasks
      /\ op = "create" => id = Seed + begun + 1
      /\ op \in {"update", "delete"} => Versions(items, id) # {}
  BY DEF AgreeInv, Starts, Started, Rem
<1>2. op \in {"update", "delete"}
  <2>1. AllTasks \notin Known /\ Seed + begun + 1 \notin Known
    BY <1>1, TasksAssumption DEF Known, ClientInv, ScreenTypeOK, AllTasks
  <2>2. QED
    BY <1>1, <2>1 DEF Ops
<1>3. Editing(c, id)' /\ ~ Met(c, id)'
  BY <1>1, <1>2 DEF Editing, Edits, Doubtful
<1>4. \A e \in Calls : Running(e) => calls[e].id # id /\ calls[e].id # AllTasks
  BY <1>1, <1>3 DEF Met
<1>5. NoEdit(id)
  BY <1>4 DEF NoEdit, Editing, Edits
<1>6. \A f \in Calls : ~ Is(f, "fetch", "answered")
  <2> SUFFICES ASSUME NEW f \in Calls, Is(f, "fetch", "answered") PROVE FALSE
    OBVIOUS
  <2>1. Running(f)
    BY DEF Is, Running, Idle
  <2>2. calls[f].id = AllTasks
    BY <1>1, <2>1, CallFields DEF Is, ClientInv
  <2>3. QED
    BY <1>4, <2>1, <2>2
<1>7. /\ Once(items, id) /\ Once(cache, id)
      /\ Versions(items, id) = Versions(cache, id)
      /\ id \notin unsure => Rem(id) = Versions(items, id)
  BY <1>5, <1>6 DEF TaskInv
<1>8. Once(items', id) /\ Once(cache', id)
  BY <1>1, <1>7, ListsStart
<1>9. EditInv(c, id)'
  <2>1. CASE op = "update"
    <3>1. items' = items /\ cache' = cache
      BY <1>1, <2>1, ListsStart
    <3>2. QED
      BY <1>1, <1>7, <2>1, <3>1 DEF EditInv
  <2>2. CASE op = "delete"
    <3>1. Versions(items', id) = {} /\ Versions(cache', id) = {}
      BY <1>1, <2>2, ListsStart
    <3>2. QED
      BY <1>1, <1>7, <2>2, <3>1 DEF EditInv
  <2>3. QED
    BY <1>2, <2>1, <2>2
<1>10. ASSUME NEW d \in Calls, Editing(d, id)' PROVE d = c
  <2>1. SUFFICES ASSUME d # c PROVE FALSE
    OBVIOUS
  <2>2. Kept(d)
    BY <1>1, <1>10, <2>1, StartKeeps DEF Editing, Edits
  <2>3. QED
    BY <1>4, <1>10, <2>2 DEF Editing, Edits, Kept
<1>11. ASSUME NEW d \in Calls, Removing(d)' PROVE RemovalInv(d, id)'
  <2>1. CASE d = c
    BY <1>1, <1>7, <2>1 DEF RemovalInv
  <2>2. CASE d # c
    <3>1. Kept(d) /\ calls'[d].met = calls[d].met \cup {id}
      BY <1>1, <1>11, <2>2, StartKeeps DEF Removing
    <3>2. RemovalInv(d, id)
      BY <1>11, <3>1 DEF TaskInv, Removing, Kept
    <3>3. QED
      BY <3>1, <3>2 DEF RemovalInv, Met, Kept
  <2>3. QED
    BY <2>1, <2>2
<1>12. QED
  BY <1>3, <1>8, <1>9, <1>10, <1>11 DEF TaskInv, NoEdit

LEMMA AgreeStart == ASSUME AgreeInv, NEW c \in Calls, Start(c) PROVE AgreeInv'
<1>1. PICK op \in Ops, id \in Nat : Starts(c, op, id)
  BY StartStarts DEF AgreeInv
<1>2. ClientInv' /\ FetchesInv' /\ \A k : Doubtful(k) => Doubtful(k)'
  BY <1>1, TypesStart, FetchesStart DEF AgreeInv
<1>3. ASSUME NEW k \in Known', ~ Doubtful(k)' PROVE TaskInv(k)'
  <2>1. CASE k \notin Known
    BY <1>1, <2>1, StartsNew
  <2>2. CASE k \in Known
    <3>1. TaskInv(k)
      BY <1>2, <1>3, <2>2 DEF AgreeInv, TasksInv
    <3>2. CASE k # id
      BY <1>1, <3>1, <3>2, StartsElsewhere
    <3>3. CASE k = id
      <4>1. id \in Known /\ ~ Doubtful(id)' /\ TaskInv(id)
        BY <1>3, <2>2, <3>1, <3>3
      <4>2. TaskInv(id)'
        BY <1>1, <4>1, StartsHere
      <4>3. QED
        BY <3>3, <4>2
    <3>4. QED
      BY <3>2, <3>3
  <2>3. QED
    BY <2>1, <2>2
<1>4. QED
  BY <1>2, <1>3 DEF AgreeInv, TasksInv

---------------------------------------------------------------------------
(* The task list of the client: restarts and the writes of others *)

LEMMA AgreeRestart == ASSUME AgreeInv, Restart PROVE AgreeInv'
<1>1. PICK c \in Calls :
         /\ ClientInv'
         /\ Fetching(c)' /\ calls'[c].at = "sent" /\ calls'[c].met = {}
         /\ \A d \in Calls \ {c} : ~ Running(d)'
         /\ items' = cache /\ cache' = cache /\ remote' = remote /\ begun' = begun + 1
         /\ unsure' = unsure \cup InFlight
         /\ crossed' = crossed \cup UNION {Crossed(d) : d \in {e \in Calls : Edits(e)}}
  BY RestartIs DEF AgreeInv
<1>2. FetchesInv'
  <2> SUFFICES ASSUME NEW f \in Calls, Fetching(f)' PROVE FetchInv(f)'
    BY DEF FetchesInv
  <2>1. f = c
    BY <1>1 DEF Fetching
  <2>2. QED
    BY <1>1, <2>1 DEF FetchInv
<1>3. \A d \in Calls : ~ Edits(d)'
  BY <1>1 DEF Edits, Fetching
<1>4. ASSUME NEW k \in Known', ~ Doubtful(k)' PROVE TaskInv(k)'
  <2>1. NoEdit(k)' /\ \A d \in Calls : ~ Removing(d)'
    BY <1>1, <1>3 DEF NoEdit, Editing, Edits, Removing, Fetching
  <2>2. Rem(k)' = Rem(k)
    BY <1>1 DEF Rem
  <2>3. CASE k \notin Known
    <3>1. Versions(cache, k) = {} /\ Rem(k) = {}
      BY <2>3, UnknownIsNowhere DEF AgreeInv
    <3>2. QED
      BY <1>1, <2>1, <2>2, <3>1, TaskNowhere DEF NoEdit
  <2>4. CASE k \in Known
    <3>1. ~ Doubtful(k)
      <4>1. SUFFICES ASSUME NEW e \in Calls, Editing(e, k), Met(e, k) PROVE k \in crossed'
        BY <1>1, <1>4 DEF Doubtful
      <4>2. k \in Crossed(e) /\ Edits(e)
        BY <4>1, CrossedIs DEF Editing
      <4>3. QED
        BY <1>1, <4>2
    <3>2. TaskInv(k)
      BY <2>4, <3>1 DEF AgreeInv, TasksInv
    <3>3. ASSUME k \notin unsure' PROVE Versions(cache, k) = Rem(k)
      <4>1. k \notin unsure /\ k \notin InFlight
        BY <1>1, <3>3
      <4>2. NoEdit(k)
        BY <4>1 DEF NoEdit, Editing, InFlight
      <4>3. QED
        BY <3>2, <4>1, <4>2 DEF TaskInv
    <3>4. Once(cache, k)
      BY <3>2 DEF TaskInv
    <3>5. QED
      BY <1>1, <2>1, <2>2, <3>3, <3>4, TaskRests
  <2>5. QED
    BY <2>3, <2>4
<1>5. QED
  BY <1>1, <1>2, <1>4 DEF AgreeInv, TasksInv

LEMMA AgreeOthers == ASSUME AgreeInv, OthersChange PROVE AgreeInv'
<1>1. PICK x \in Known :
         /\ ClientInv'
         /\ \A d \in Calls : KeptButMet(d, {x})
         /\ \A k : k # x => Rem(k)' = Rem(k)
         /\ unsure' = unsure \cup {x} /\ begun' = begun + 1
         /\ items' = items /\ cache' = cache /\ crossed' = crossed
  BY OthersIs DEF AgreeInv
<1>2. ClientInv
  BY DEF AgreeInv
<1>3. ASSUME NEW d \in Calls, Running(d) \/ Running(d)'
      PROVE  Alike(d) /\ Kept(d) /\ calls'[d].met = calls[d].met \cup {x}
  BY <1>1, <1>3, KeptIsAlike
<1>4. ASSUME NEW k, Doubtful(k) PROVE Doubtful(k)'
  <2>1. \A d \in Calls : Running(d) => Kept(d) /\ calls[d].met \subseteq calls'[d].met
    BY <1>3
  <2>2. QED
    BY <1>1, <1>4, <2>1, DoubtGrows
<1>5. ASSUME NEW f \in Calls, Fetching(f)' PROVE FetchInv(f)'
  <2>1. Alike(f) /\ Kept(f) /\ calls'[f].met = calls[f].met \cup {x}
    BY <1>3, <1>5 DEF Fetching
  <2>2. Fetching(f) /\ FetchInv(f) /\ calls'[f].list = calls[f].list
    BY <1>5, <2>1 DEF Kept, Fetching, AgreeInv, FetchesInv
  <2>3. \A k \in Known' \ Known : Versions(calls[f].list, k) = {} /\ Rem(k)' = {}
    BY <1>1, <1>2, <2>2, UnknownIsNowhere DEF Fetching
  <2>4. QED
    BY <1>1, <1>4, <2>1, <2>2, <2>3, FetchKept
<1>6. \A f \in Calls : Is(f, "fetch", "answered") => Is(f, "fetch", "answered")'
  <2> SUFFICES ASSUME NEW f \in Calls, Is(f, "fetch", "answered")
               PROVE  Is(f, "fetch", "answered")'
    OBVIOUS
  <2>1. Running(f)
    BY DEF Is, Running, Idle
  <2>2. Kept(f)
    BY <1>3, <2>1
  <2>3. QED
    BY <2>2 DEF Kept, Is
<1>7. ASSUME NEW k \in Known', ~ Doubtful(k)' PROVE TaskInv(k)'
  <2>1. ASSUME NEW d \in Calls, Editing(d, k)' PROVE Editing(d, k)
    <3>1. Kept(d)
      BY <1>3, <2>1 DEF Editing, Edits
    <3>2. QED
      BY <2>1, <3>1 DEF Editing, Edits, Kept
  <2>2. CASE k \notin Known
    <3>1. /\ Versions(items, k) = {} /\ Versions(cache, k) = {} /\ Rem(k) = {} /\ NoEdit(k)
          /\ \A d \in Calls : Running(d) => Versions(calls[d].before, k) = {}
      BY <1>2, <2>2, UnknownIsNowhere
    <3>2. Rem(k)' = {} /\ \A d \in Calls : ~ Editing(d, k)'
      BY <1>1, <2>1, <2>2, <3>1 DEF NoEdit
    <3>3. ASSUME NEW d \in Calls, Removing(d)' PROVE Versions(calls'[d].before, k) = {}
      <4>1. Kept(d)
        BY <1>3, <3>3 DEF Removing
      <4>2. QED
        BY <3>1, <4>1 DEF Kept
    <3>4. QED
      BY <1>1, <3>1, <3>2, <3>3, TaskNowhere
  <2>3. CASE k \in Known /\ k # x
    <3>1. TaskInv(k)
      BY <1>4, <1>7, <2>3 DEF AgreeInv, TasksInv
    <3>2. Once(items, k) /\ Once(cache, k)
      BY <3>1 DEF TaskInv
    <3>3. /\ \A d \in Calls : Editing(d, k) \/ Editing(d, k)' => Alike(d)
          /\ \A d \in Calls : Removing(d)' => SameCall(d)
      BY <1>3 DEF Editing, Edits, Removing, Alike
    <3>4. QED
      BY <1>1, <1>6, <2>3, <3>1, <3>2, <3>3, TaskKept
  <2>4. CASE k = x
    <3>1. TaskInv(k)
      BY <1>1, <1>4, <1>7, <2>4 DEF AgreeInv, TasksInv
    <3>2. \A d \in Calls : ~ Editing(d, k)'
      <4> SUFFICES ASSUME NEW d \in Calls, Editing(d, k)' PROVE FALSE
        OBVIOUS
      <4>1. k \in calls'[d].met
        BY <1>3, <2>4 DEF Editing, Edits
      <4>2. QED
        BY <1>7, <4>1 DEF Doubtful, Met
    <3>3. NoEdit(k) /\ NoEdit(k)'
      <4>1. ASSUME NEW d \in Calls, Editing(d, k) PROVE Editing(d, k)'
        <5>1. Kept(d)
          BY <1>3, <4>1 DEF Editing, Edits
        <5>2. QED
          BY <4>1, <5>1 DEF Editing, Edits, Kept
      <4>2. QED
        BY <3>2, <4>1 DEF NoEdit
    <3>4. /\ Once(items, k) /\ Once(cache, k)
          /\ \/ Versions(items, k) = Versions(cache, k)
             \/ \E f \in Calls : Is(f, "fetch", "answered")'
      BY <1>6, <3>1, <3>3 DEF TaskInv
    <3>5. ASSUME NEW d \in Calls, Removing(d)' PROVE RemovalInv(d, k)'
      <4>1. Kept(d) /\ calls'[d].met = calls[d].met \cup {x}
        BY <1>3, <3>5 DEF Removing
      <4>2. RemovalInv(d, k)
        BY <3>1, <3>5, <4>1 DEF TaskInv, Removing, Kept
      <4>3. QED
        BY <2>4, <4>1, <4>2 DEF RemovalInv, Met, Kept
    <3>6. k \in unsure'
      BY <1>1, <2>4
    <3>7. QED
      BY <1>1, <3>3, <3>4, <3>5, <3>6, TaskRests
  <2>5. QED
    BY <2>2, <2>3, <2>4
<1>8. QED
  BY <1>1, <1>5, <1>7 DEF AgreeInv, FetchesInv, TasksInv

LEMMA AgreeStutter == ASSUME AgreeInv, UNCHANGED screenVars PROVE AgreeInv'
<1>1. /\ items' = items /\ cache' = cache /\ calls' = calls /\ remote' = remote
      /\ begun' = begun /\ crossed' = crossed /\ unsure' = unsure
  BY DEF screenVars
<1>2. ClientInv'
  BY TypesStutter DEF AgreeInv
<1>3. Known' = Known /\ \A k : Rem(k)' = Rem(k) /\ (Doubtful(k)' <=> Doubtful(k))
  BY <1>1 DEF Known, Rem, Doubtful, Editing, Edits, Running, Met
<1>4. \A d \in Calls : Running(d)' => Running(d) /\ Alike(d)
  BY <1>1, SameIsAlike DEF Running
<1>5. ASSUME NEW f \in Calls, Fetching(f)' PROVE FetchInv(f)'
  <2>1. FetchInv(f) /\ Alike(f) /\ calls'[f] = calls[f]
    BY <1>1, <1>4, <1>5 DEF AgreeInv, FetchesInv, Fetching
  <2>2. QED
    BY <1>1, <1>3, <2>1, FetchKept
<1>6. ASSUME NEW k \in Known', ~ Doubtful(k)' PROVE TaskInv(k)'
  <2>1. TaskInv(k)
    BY <1>3, <1>6 DEF AgreeInv, TasksInv
  <2>2. Once(items, k) /\ Once(cache, k)
    BY <2>1 DEF TaskInv
  <2>3. \A d \in Calls : Editing(d, k) => Editing(d, k)'
    BY <1>1 DEF Editing, Edits, Running
  <2>4. /\ \A d \in Calls : Editing(d, k) \/ Editing(d, k)' => Alike(d)
        /\ \A d \in Calls : Removing(d)' => SameCall(d)
    BY <1>4, <2>3 DEF Editing, Edits, Removing, Alike
  <2>5. \A f \in Calls : Is(f, "fetch", "answered") => Is(f, "fetch", "answered")'
    BY <1>1 DEF Is
  <2>6. QED
    BY <1>1, <1>3, <2>1, <2>2, <2>4, <2>5, TaskKept
<1>7. QED
  BY <1>2, <1>5, <1>6 DEF AgreeInv, FetchesInv, TasksInv

LEMMA AgreeInit == ASSUME ScreenInit PROVE AgreeInv
<1>1. /\ ClientInv
      /\ items = <<>> /\ cache = <<>> /\ remote = Seeds /\ unsure = Ids(Seeds)
  BY TypesInit DEF ScreenInit
<1>2. PICK c \in Calls : calls = [d \in Calls |->
           IF d = c THEN [op |-> "fetch", at |-> "sent", id |-> AllTasks, ver |-> 1,
                          list |-> <<>>, before |-> <<>>, met |-> {}]
           ELSE Idle]
  BY DEF ScreenInit
<1>3. /\ calls[c].op = "fetch" /\ calls[c].at = "sent" /\ calls[c].met = {}
      /\ \A d \in Calls : Running(d) => d = c
  BY <1>2 DEF Running
<1>4. FetchesInv
  BY <1>3 DEF FetchesInv, FetchInv, Fetching
<1>5. ASSUME NEW k PROVE TaskInv(k)
  <2>1. NoEdit(k) /\ \A d \in Calls : ~ Removing(d)
    BY <1>3 DEF NoEdit, Editing, Edits, Removing
  <2>2. Versions(<<>>, k) = {} /\ Once(<<>>, k)
    BY VersionsNone, NoneIsOnce
  <2>3. k \notin unsure => Rem(k) = {}
    BY <1>1, RemIs DEF Ids
  <2>4. QED
    BY <1>1, <2>1, <2>2, <2>3 DEF TaskInv, NoEdit
<1>6. QED
  BY <1>1, <1>4, <1>5 DEF AgreeInv, TasksInv

---------------------------------------------------------------------------
(* The task list of the client: the theorems *)

LEMMA AgreeStep == ASSUME AgreeInv, [ScreenNext]_screenVars PROVE AgreeInv'
<1>1. CASE UNCHANGED screenVars
  BY <1>1, AgreeStutter
<1>2. ASSUME NEW c \in Calls, Continue(c) PROVE AgreeInv'
  BY <1>2, AgreeServe, AgreeAnswer, AgreeDeleted, AgreeFetched, AgreeMerge, AgreeFail,
     AgreeUndelete DEF Continue
<1>3. CASE Restart
  BY <1>3, AgreeRestart
<1>4. CASE OthersChange
  BY <1>4, AgreeOthers
<1>5. QED
  BY <1>1, <1>2, <1>3, <1>4, AgreeStart DEF ScreenNext

LEMMA AlwaysAgree == ScreenSpec => []AgreeInv
<1>1. ScreenInit => AgreeInv
  BY AgreeInit
<1>2. AgreeInv /\ [ScreenNext]_screenVars => AgreeInv'
  BY AgreeStep
<1>3. QED
  BY <1>1, <1>2, PTL DEF ScreenSpec

\* Every variable of the client keeps its type, whatever order requests are
\* answered in and whatever of them fails: screen, cache and server hold tasks,
\* and a request is about all tasks if and only if it is a fetch.
THEOREM ScreenTypes == ScreenSpec => []ScreenTypeOK
<1>1. AgreeInv => ScreenTypeOK
  BY DEF AgreeInv, ClientInv
<1>2. QED
  BY <1>1, AlwaysAgree, PTL

\* A task about which no requests crossed, of which no request is in flight
\* and whose last write the client was told of is on the screen as the server
\* has it, once, or on neither (tasks_controller.dart rewrites the list of
\* now in create, update and remove; a failed remove brings the old one back).
THEOREM ScreenShowsServer == ScreenSpec => []ScreenIsServer
<1>1. ASSUME AgreeInv PROVE ScreenIsServer
  <2> SUFFICES ASSUME NEW id \in Known \ (InFlight \cup crossed \cup unsure)
               PROVE  /\ Once(items, id)
                      /\ Versions(items, id) = {t.ver : t \in {u \in remote : u.id = id}}
    BY DEF ScreenIsServer
  <2>1. NoEdit(id)
    BY DEF NoEdit, Editing, InFlight
  <2>2. TaskInv(id)
    BY <1>1, <2>1 DEF AgreeInv, TasksInv, Doubtful, NoEdit
  <2>3. QED
    BY <2>1, <2>2 DEF TaskInv, Rem
<1>2. QED
  BY <1>1, AlwaysAgree, PTL

\* The next start shows what the screen shows, however often requests failed:
\* a task without a request in flight, about which none crossed, is in the
\* cache as it is on the screen, once, unless a fetch has written the cache
\* and its list is on the way to the screen (the repository saves each answer,
\* the controller saves again what it makes of it).
THEOREM CacheShowsScreen == ScreenSpec => []CacheIsScreen
<1>1. ASSUME AgreeInv PROVE CacheIsScreen
  <2> SUFFICES ASSUME NEW id \in Known \ (InFlight \cup crossed)
               PROVE  \/ Versions(items, id) = Versions(cache, id) /\ Once(cache, id)
                      \/ \E c \in Calls : Is(c, "fetch", "answered")
    BY DEF CacheIsScreen
  <2>1. NoEdit(id)
    BY DEF NoEdit, Editing, InFlight
  <2>2. TaskInv(id)
    BY <1>1, <2>1 DEF AgreeInv, TasksInv, Doubtful, NoEdit
  <2>3. QED
    BY <2>1, <2>2 DEF TaskInv
<1>2. QED
  BY <1>1, AlwaysAgree, PTL
=============================================================================
