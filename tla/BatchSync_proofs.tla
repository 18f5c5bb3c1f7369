-------------------------- MODULE BatchSync_proofs --------------------------
(***************************************************************************)
(* Proofs about BatchSync for any number of overlapping batches, tasks,    *)
(* operations and failures, and of the store it implements.                *)
(***************************************************************************)
EXTENDS BatchSync, WellFoundedInduction, TLAPS

---------------------------------------------------------------------------
(* Types of what the handlers compute *)

LEMMA OperationType ==
  ASSUME NEW op \in Operations
  PROVE  /\ op.action \in {"upsert", "delete"}
         /\ op.id \in ClientId \cup {NoId}
         /\ op.fields \subseteq Field
         /\ op.title \in Title \cup {Null}
         /\ op.deleted \in BOOLEAN
         /\ op.updated_at \in Nat
         /\ op.updated_at > 0
<1>1. op \in BatchSyncOperation
  BY BatchSyncAssumption
<1>2. op.updated_at \in Nat \ {0}
  BY <1>1 DEF BatchSyncOperation
<1>3. QED
  BY <1>1, <1>2 DEF BatchSyncOperation

LEMMA AbsentType == Absent \in Row /\ ~ Exists(Absent)
BY DEF Absent, Row, Exists

LEMMA NoRowsType == NoRows \in [TaskId -> Row]
BY AbsentType DEF NoRows

LEMMA SomeTaskType == SomeTask \in TaskId
<1>1. \E t \in TaskId : TRUE
  BY BatchSyncAssumption DEF TaskId
<1>2. QED
  BY <1>1 DEF SomeTask

LEMMA NoChangeType == NoChange(SomeTask) \in Change
BY AbsentType, SomeTaskType DEF NoChange, Change, Field

LEMMA ViewType ==
  ASSUME TypeOK, NEW s \in Sessions, NEW t \in TaskId
  PROVE  View(s, t) \in Row
BY DEF TypeOK, View

LEMMA FoundType ==
  ASSUME TypeOK, NEW s \in Sessions, NEW id \in ClientId \cup {NoId}
  PROVE  /\ Found(s, id) \in Row
         /\ Exists(Found(s, id)) => id \in TaskId /\ Found(s, id) = View(s, id)
<1>1. CASE id \in ClientId \ Foreign
  <2>1. id \in TaskId
    BY <1>1 DEF TaskId
  <2>2. QED
    BY <1>1, <2>1, ViewType DEF Found
<1>2. CASE id \notin ClientId \ Foreign
  BY <1>2, AbsentType DEF Found
<1>3. QED
  BY <1>1, <1>2

LEMMA UpdateOfType ==
  ASSUME NEW op \in Operations, op.id \in TaskId, NEW row \in Row
  PROVE  /\ UpdateOf(op, row) \in Change
         /\ UpdateOf(op, row).task = op.id
         /\ ~ UpdateOf(op, row).insert
         /\ UpdateOf(op, row).row.updated_at = op.updated_at
<1> DEFINE new == [title |-> op.title,
                   deleted |-> op.action = "delete" \/ op.deleted,
                   updated_at |-> op.updated_at]
           named == IF op.action = "delete" THEN {"deleted"} ELSE op.fields
           f == {x \in named : new[x] # row[x]}
<1>1. (op.action = "delete" \/ op.deleted) \in BOOLEAN
  OBVIOUS
<1>2. new \in Row
  BY <1>1, OperationType DEF Row
<1>3. f \subseteq Field
  BY OperationType DEF Field
<1>4. UpdateOf(op, row) = [task |-> op.id, insert |-> FALSE, fields |-> f, row |-> new]
  BY DEF UpdateOf
<1>5. UpdateOf(op, row) \in Change
  BY <1>2, <1>3, <1>4 DEF Change
<1>6. new.updated_at = op.updated_at
  OBVIOUS
<1>7. QED
  BY <1>4, <1>5, <1>6

LEMMA InsertOfType ==
  ASSUME NEW op \in Operations, NEW t \in TaskId
  PROVE  /\ InsertOf(op, t) \in Change
         /\ InsertOf(op, t).insert
         /\ InsertOf(op, t).task = t
         /\ InsertOf(op, t).row.updated_at = op.updated_at
<1> DEFINE new == [title |-> op.title,
                   deleted |-> "deleted" \in op.fields /\ op.deleted,
                   updated_at |-> op.updated_at]
<1>1. ("deleted" \in op.fields /\ op.deleted) \in BOOLEAN
  OBVIOUS
<1>2. new \in Row
  BY <1>1, OperationType DEF Row
<1>3. InsertOf(op, t) = [task |-> t, insert |-> TRUE, fields |-> Field, row |-> new]
  BY DEF InsertOf
<1>4. InsertOf(op, t) \in Change
  BY <1>2, <1>3 DEF Change
<1>5. new.updated_at = op.updated_at
  OBVIOUS
<1>6. QED
  BY <1>3, <1>4, <1>5

LEMMA PatchedType ==
  ASSUME NEW row \in Row, NEW c \in Change
  PROVE  Patched(row, c) \in Row /\ Patched(row, c).updated_at = c.row.updated_at
<1>1. c.row \in Row
  BY DEF Change
<1>2. PICK title \in Title \cup {Null} :
         title = IF "title" \in c.fields THEN c.row.title ELSE row.title
  BY <1>1 DEF Row
<1>3. PICK deleted \in BOOLEAN :
         deleted = IF "deleted" \in c.fields THEN c.row.deleted ELSE row.deleted
  BY <1>1, Zenon DEF Row
<1>4. Patched(row, c) = [title |-> title, deleted |-> deleted,
                         updated_at |-> c.row.updated_at]
  BY <1>2, <1>3, Zenon DEF Patched
<1>5. c.row.updated_at \in Nat
  BY <1>1 DEF Row
<1>6. QED
  BY <1>4, <1>5 DEF Row

LEMMA HeadTail ==
  ASSUME TypeOK, NEW s \in Sessions, todo[s] # <<>>
  PROVE  Head(todo[s]) \in Operations /\ Tail(todo[s]) \in Seq(Operations)
BY DEF TypeOK

---------------------------------------------------------------------------
(* Type correctness *)

LEMMA CloseType ==
  ASSUME TypeOK, NEW s \in Sessions, Close(s)
  PROVE  /\ pc' \in [Sessions -> {"idle", "select", "flush"}]
         /\ batch' \in [Sessions -> Seq(Operations)]
         /\ todo' \in [Sessions -> Seq(Operations)]
         /\ own' \in [Sessions -> [TaskId -> Row]]
         /\ change' \in [Sessions -> Change]
         /\ applied' \in [Sessions -> SUBSET Operations]
         /\ \A u \in Sessions : pc'[u] = "flush" => todo'[u] # <<>>
<1>1. <<>> \in Seq(Operations)
  OBVIOUS
<1>2. QED
  BY <1>1, NoRowsType, NoChangeType DEF Close, TypeOK

LEMMA TypeInit == Init => TypeOK
<1> SUFFICES ASSUME Init PROVE TypeOK
  OBVIOUS
<1>1. <<>> \in Seq(Operations)
  OBVIOUS
<1>2. failures \in 0 .. MaxFailures
  BY BatchSyncAssumption DEF Init
<1>3. QED
  BY <1>1, <1>2, NoRowsType, NoChangeType DEF Init, TypeOK

LEMMA TypeNext == TypeOK /\ [Next]_vars => TypeOK'
<1> SUFFICES ASSUME TypeOK, [Next]_vars PROVE TypeOK'
  OBVIOUS
<1>1. ASSUME NEW s \in Sessions, NEW ops \in Batches, Submit(s, ops)
      PROVE  TypeOK'
  <2>1. ops \in Seq(Operations)
    BY BatchSyncAssumption DEF Batches
  <2>2. batch' \in [Sessions -> Seq(Operations)] /\ todo' \in [Sessions -> Seq(Operations)]
    BY <1>1, <2>1 DEF Submit, TypeOK
  <2>3. QED
    BY <1>1, <2>2 DEF Submit, TypeOK, database, history
<1>2. ASSUME NEW s \in Sessions, Select(s) PROVE TypeOK'
  <2> DEFINE op == Head(todo[s])
             row == Found(s, op.id)
  <2>1. op \in Operations /\ Tail(todo[s]) \in Seq(Operations)
    BY <1>2, HeadTail DEF Select
  <2>2. row \in Row /\ (Exists(row) => op.id \in TaskId)
    BY <2>1, FoundType, OperationType
  <2>3. todo' \in [Sessions -> Seq(Operations)]
    BY <1>2, <2>1 DEF Select, TypeOK
  <2>4. pc' \in [Sessions -> {"idle", "select", "flush"}]
    BY <1>2 DEF Select, TypeOK
  <2>5. \A t \in NewId(op) : ~ Exists(row) => op.id # NoId \/ t \in TaskId
    BY DEF NewId, TaskId
  <2>6. \A t \in NewId(op) : t \in TaskId
    BY <2>1, OperationType DEF NewId, TaskId
  <2>7. \/ change' = change
        \/ /\ Exists(row)
           /\ change' = [change EXCEPT ![s] = UpdateOf(op, row)]
        \/ \E t \in NewId(op) : change' = [change EXCEPT ![s] = InsertOf(op, t)]
    BY <1>2 DEF Select
  <2>8. change' \in [Sessions -> Change]
    <3>1. CASE change' = change
      BY <3>1 DEF TypeOK
    <3>2. CASE /\ Exists(row)
               /\ change' = [change EXCEPT ![s] = UpdateOf(op, row)]
      <4>1. UpdateOf(op, row) \in Change
        BY <2>1, <2>2, <3>2, UpdateOfType
      <4> HIDE DEF op, row
      <4>2. QED
        BY <3>2, <4>1 DEF TypeOK
    <3>3. ASSUME NEW t \in NewId(op),
                 change' = [change EXCEPT ![s] = InsertOf(op, t)]
          PROVE  change' \in [Sessions -> Change]
      <4>1. InsertOf(op, t) \in Change
        BY <2>1, <2>6, InsertOfType
      <4> HIDE DEF op, row
      <4>2. QED
        BY <3>3, <4>1 DEF TypeOK
    <3>4. QED
      BY <2>7, <3>1, <3>2, <3>3
  <2>9. \A u \in Sessions : pc'[u] = "flush" => todo'[u] # <<>>
    BY <1>2 DEF Select, TypeOK
  <2>10. QED
    BY <1>2, <2>3, <2>4, <2>8, <2>9 DEF Select, TypeOK, database, history
<1>3. ASSUME NEW s \in Sessions, Flush(s) PROVE TypeOK'
  <2> DEFINE t == change[s].task
  <2>1. change[s] \in Change /\ t \in TaskId
    BY DEF TypeOK, Change
  <2>2. Patched(View(s, t), change[s]) \in Row
    BY <2>1, ViewType, PatchedType
  <2>3. own' \in [Sessions -> [TaskId -> Row]]
    BY <1>3, <2>1, <2>2 DEF Flush, TypeOK
  <2>4. Head(todo[s]) \in Operations /\ Tail(todo[s]) \in Seq(Operations)
    BY <1>3, HeadTail DEF Flush, TypeOK
  <2>5. applied' \in [Sessions -> SUBSET Operations]
    BY <1>3, <2>4 DEF Flush, TypeOK
  <2>6. todo' \in [Sessions -> Seq(Operations)]
    BY <1>3, <2>4 DEF Flush, TypeOK
  <2>7. /\ pc' \in [Sessions -> {"idle", "select", "flush"}]
        /\ \A u \in Sessions : pc'[u] = "flush" => todo'[u] # <<>>
    BY <1>3 DEF Flush, TypeOK
  <2>8. QED
    BY <1>3, <2>3, <2>5, <2>6, <2>7, NoChangeType DEF Flush, TypeOK, history
<1>4. ASSUME NEW s \in Sessions, FlushThrows(s) PROVE TypeOK'
  BY <1>4, CloseType DEF FlushThrows, TypeOK, history
<1>5. ASSUME NEW s \in Sessions, DeadlockAborts(s) PROVE TypeOK'
  BY <1>5, CloseType DEF DeadlockAborts, TypeOK, history
<1>6. ASSUME NEW s \in Sessions, Abort(s) PROVE TypeOK'
  <2>1. failures' \in 0 .. MaxFailures
    BY <1>6, BatchSyncAssumption DEF Abort, TypeOK
  <2>2. QED
    BY <1>6, <2>1, CloseType DEF Abort, TypeOK, history
<1>7. ASSUME NEW s \in Sessions, Commit(s) PROVE TypeOK'
  <2>1. committed' \in [TaskId -> Row]
    BY <1>7, ViewType DEF Commit
  <2>2. failures' \in 0 .. MaxFailures
    BY <1>7, BatchSyncAssumption DEF Commit, TypeOK
  <2>3. Ops(batch[s]) \subseteq Operations
    BY DEF Ops, TypeOK
  <2>4. \A u \in Sessions : change[u].task \in TaskId
    BY DEF TypeOK, Change
  <2>5. stored' \subseteq Operations /\ answered' \subseteq Operations
    BY <1>7, <2>3 DEF Commit, TypeOK
  <2>6. raced' \subseteq TaskId
    BY <1>7, <2>4 DEF Commit, TypeOK
  <2>7. Close(s)
    BY <1>7 DEF Commit
  <2>8. QED
    BY <2>1, <2>2, <2>5, <2>6, <2>7, CloseType DEF TypeOK
<1>8. CASE UNCHANGED vars
  BY <1>8 DEF TypeOK, vars, database, session, history
<1>9. QED
  BY <1>1, <1>2, <1>3, <1>4, <1>5, <1>6, <1>7, <1>8 DEF Next, Step

\* Every variable keeps its type, for any number of concurrent batches.
THEOREM TypeCorrect == Spec => []TypeOK
BY TypeInit, TypeNext, PTL DEF Spec

---------------------------------------------------------------------------
(* A task only goes back to an older version after a race.                 *)
(*                                                                         *)
(* Stamps are compared with the row a session loaded.  The proof carries   *)
(* that comparison to the commit: rows are locked by one session at a      *)
(* time, a change that is about to be flushed is newer than what the       *)
(* session sees now, and a row that was written is newer than the          *)
(* committed one, each unless the task was raced for.                      *)

Exclusive ==
  \A s, u \in Sessions, t \in TaskId : Holds(s, t) /\ Holds(u, t) => s = u

ChangeIsNewer ==
  \A s \in Sessions, t \in TaskId :
     pc[s] = "flush" /\ change[s].task = t =>
        /\ change[s].row.updated_at > 0
        /\ \/ change[s].insert
           \/ t \in raced
           \/ change[s].row.updated_at > View(s, t).updated_at

OwnIsNewer ==
  \A s \in Sessions, t \in TaskId :
     Holds(s, t) => \/ t \in raced
                    \/ own[s][t].updated_at > committed[t].updated_at

IInv == TypeOK /\ Exclusive /\ ChangeIsNewer /\ OwnIsNewer

LEMMA StampType ==
  ASSUME TypeOK, NEW s \in Sessions, NEW t \in TaskId
  PROVE  /\ committed[t].updated_at \in Nat
         /\ own[s][t].updated_at \in Nat
         /\ View(s, t).updated_at \in Nat
         /\ change[s].task \in TaskId
         /\ change[s].row.updated_at \in Nat
<1>1. committed[t] \in Row /\ own[s][t] \in Row /\ View(s, t) \in Row
  BY ViewType DEF TypeOK
<1>2. change[s] \in Change
  BY DEF TypeOK
<1>3. QED
  BY <1>1, <1>2 DEF Row, Change

LEMMA IInvInit == Init => IInv
<1> SUFFICES ASSUME Init PROVE IInv
  OBVIOUS
<1>1. \A s \in Sessions, t \in TaskId : ~ Holds(s, t)
  BY AbsentType DEF Init, Holds, NoRows
<1>2. Exclusive /\ OwnIsNewer
  BY <1>1 DEF Exclusive, OwnIsNewer
<1>3. ChangeIsNewer
  BY DEF Init, ChangeIsNewer
<1>4. QED
  BY <1>2, <1>3, TypeInit DEF IInv

\* Giving up a session's rows keeps the invariant if nothing else changes.
LEMMA CloseKeeps ==
  ASSUME IInv, NEW s \in Sessions, Close(s), UNCHANGED <<committed, history>>
  PROVE  Exclusive' /\ ChangeIsNewer' /\ OwnIsNewer'
<1>1. /\ pc' = [pc EXCEPT ![s] = "idle"]
      /\ change' = [change EXCEPT ![s] = NoChange(SomeTask)]
      /\ own' = [own EXCEPT ![s] = NoRows]
      /\ committed' = committed /\ raced' = raced
  BY DEF Close, history
<1>2. \A t \in TaskId : ~ Holds(s, t)'
  BY <1>1, AbsentType DEF Holds, NoRows, IInv, TypeOK
<1>3. \A u \in Sessions \ {s} : /\ own'[u] = own[u]
                                /\ pc'[u] = pc[u]
                                /\ change'[u] = change[u]
  BY <1>1 DEF IInv, TypeOK
<1>4. \A u \in Sessions \ {s}, t \in TaskId :
         (Holds(u, t)' <=> Holds(u, t)) /\ View(u, t)' = View(u, t)
  BY <1>1, <1>3 DEF Holds, View
<1>5. pc'[s] = "idle"
  BY <1>1 DEF IInv, TypeOK
<1>6. Exclusive'
  BY <1>2, <1>4 DEF Exclusive, IInv
<1>7. ChangeIsNewer'
  BY <1>1, <1>3, <1>4, <1>5, StampType DEF ChangeIsNewer, IInv
<1>8. OwnIsNewer'
  BY <1>1, <1>2, <1>3, <1>4 DEF OwnIsNewer, IInv
<1>9. QED
  BY <1>6, <1>7, <1>8

LEMMA SelectKeeps ==
  ASSUME IInv, NEW s \in Sessions, Select(s)
  PROVE  Exclusive' /\ ChangeIsNewer' /\ OwnIsNewer'
<1> DEFINE op == Head(todo[s])
           row == Found(s, op.id)
<1>1. op \in Operations /\ op.id \in ClientId \cup {NoId}
      /\ op.updated_at \in Nat /\ op.updated_at > 0
  BY HeadTail, OperationType DEF Select, IInv
<1>2. committed' = committed /\ own' = own /\ raced' = raced
  BY DEF Select, database, history
<1>3. \A u \in Sessions, t \in TaskId :
         (Holds(u, t)' <=> Holds(u, t)) /\ View(u, t)' = View(u, t)
  BY <1>2 DEF Holds, View
<1>4. Exclusive' /\ OwnIsNewer'
  BY <1>2, <1>3 DEF Exclusive, OwnIsNewer, IInv
<1>5. \A u \in Sessions \ {s} : pc'[u] = pc[u] /\ change'[u] = change[u]
  BY DEF Select, IInv, TypeOK
<1>6. ASSUME pc'[s] = "flush"
      PROVE  /\ change'[s].row.updated_at > 0
             /\ \/ change'[s].insert
                \/ \A t \in TaskId : change'[s].task = t =>
                      change'[s].row.updated_at > View(s, t).updated_at
  <2>1. \/ /\ ~ Refused(row, op) /\ Exists(row)
           /\ change' = [change EXCEPT ![s] = UpdateOf(op, row)]
        \/ \E t \in NewId(op) : change' = [change EXCEPT ![s] = InsertOf(op, t)]
    BY <1>6 DEF Select
  <2>2. CASE /\ ~ Refused(row, op) /\ Exists(row)
             /\ change' = [change EXCEPT ![s] = UpdateOf(op, row)]
    <3>1. row \in Row /\ op.id \in TaskId /\ row = View(s, op.id)
      BY <1>1, <2>2, FoundType DEF IInv
    <3>2. row.updated_at < op.updated_at
      <4>1. ~ Stale(row, op)
        BY <2>2 DEF Refused, RefusesDelete, RefusesUpsert
      <4>2. row.updated_at \in Nat
        BY <3>1 DEF Row
      <4>3. QED
        BY <1>1, <4>1, <4>2 DEF Stale
    <3>3. change'[s] = UpdateOf(op, row)
      BY <2>2 DEF IInv, TypeOK
    <3>4. change'[s].task = op.id /\ change'[s].row.updated_at = op.updated_at
      BY <1>1, <3>1, <3>3, UpdateOfType
    <3>5. QED
      BY <1>1, <3>1, <3>2, <3>4
  <2>3. ASSUME NEW t \in NewId(op), change' = [change EXCEPT ![s] = InsertOf(op, t)]
        PROVE  change'[s].insert /\ change'[s].row.updated_at > 0
    <3>1. t \in TaskId
      BY <1>1 DEF NewId, TaskId
    <3>2. change'[s] = InsertOf(op, t)
      BY <2>3 DEF IInv, TypeOK
    <3>3. QED
      BY <1>1, <3>1, <3>2, InsertOfType
  <2>4. QED
    BY <2>1, <2>2, <2>3
<1>8. ChangeIsNewer'
  <2> SUFFICES ASSUME NEW u \in Sessions, NEW t \in TaskId,
                      pc'[u] = "flush", change'[u].task = t
               PROVE  /\ change'[u].row.updated_at > 0
                      /\ \/ change'[u].insert
                         \/ t \in raced'
                         \/ change'[u].row.updated_at > View(u, t)'.updated_at
    BY DEF ChangeIsNewer
  <2>1. CASE u = s
    BY <1>3, <1>6, <2>1
  <2>2. CASE u # s
    BY <1>2, <1>3, <1>5, <2>2 DEF ChangeIsNewer, IInv
  <2>3. QED
    BY <2>1, <2>2
<1>9. QED
  BY <1>4, <1>8

LEMMA FlushKeeps ==
  ASSUME IInv, NEW s \in Sessions, Flush(s)
  PROVE  Exclusive' /\ ChangeIsNewer' /\ OwnIsNewer'
<1> DEFINE k == change[s].task
           new == Patched(View(s, k), change[s])
<1>1. /\ k \in TaskId /\ change[s] \in Change /\ View(s, k) \in Row
      /\ change[s].row.updated_at \in Nat
  BY StampType, ViewType DEF IInv, TypeOK, Change
<1>2. /\ own' = [own EXCEPT ![s][k] = new]
      /\ committed' = committed /\ raced' = raced
      /\ pc' = [pc EXCEPT ![s] = "select"]
      /\ change' = [change EXCEPT ![s] = NoChange(SomeTask)]
  BY DEF Flush, history
<1>3. new.updated_at = change[s].row.updated_at
  BY <1>1, PatchedType
<1> HIDE DEF new
<1>4. own'[s][k] = new
  BY <1>1, <1>2 DEF IInv, TypeOK
<1>5. \A u \in Sessions, t \in TaskId : u # s \/ t # k => own'[u][t] = own[u][t]
  BY <1>1, <1>2 DEF IInv, TypeOK
<1>6. \A u \in Sessions \ {s} : ~ Holds(u, k)
  BY DEF Flush, WaitsFor
<1>7. \A u \in Sessions \ {s}, t \in TaskId :
         (Holds(u, t)' <=> Holds(u, t)) /\ View(u, t)' = View(u, t)
  BY <1>2, <1>5 DEF Holds, View
<1>8. \A t \in TaskId \ {k} : Holds(s, t)' <=> Holds(s, t)
  BY <1>5 DEF Holds
<1>9. Exclusive'
  BY <1>1, <1>6, <1>7, <1>8 DEF Exclusive, IInv
<1>10. ChangeIsNewer'
  <2> SUFFICES ASSUME NEW u \in Sessions, NEW t \in TaskId,
                      pc'[u] = "flush", change'[u].task = t
               PROVE  /\ change'[u].row.updated_at > 0
                      /\ \/ change'[u].insert
                         \/ t \in raced'
                         \/ change'[u].row.updated_at > View(u, t)'.updated_at
    BY DEF ChangeIsNewer
  <2>1. u # s /\ pc[u] = "flush" /\ change'[u] = change[u]
    BY <1>2 DEF IInv, TypeOK
  <2>3. View(u, t)' = View(u, t)
    BY <1>7, <2>1
  <2>4. QED
    BY <1>2, <2>1, <2>3 DEF ChangeIsNewer, IInv
<1>11. \/ k \in raced
       \/ change[s].row.updated_at > committed[k].updated_at
  <2>1. committed[k].updated_at \in Nat /\ own[s][k].updated_at \in Nat
    BY <1>1, StampType DEF IInv
  <2>2. pc[s] = "flush" /\ ~ Throws(s, change[s])
    BY DEF Flush
  <2>3. CASE change[s].insert
    <3>1. ~ Exists(View(s, k))
      BY <2>2, <2>3 DEF Throws
    <3>2. View(s, k) = committed[k]
      BY <3>1 DEF View, Holds
    <3>3. change[s].row.updated_at > 0
      BY <1>1, <2>2 DEF IInv, ChangeIsNewer
    <3>4. QED
      BY <2>1, <3>1, <3>2, <3>3 DEF Exists
  <2>4. CASE ~ change[s].insert /\ k \notin raced
    <3>1. change[s].row.updated_at > View(s, k).updated_at
      BY <1>1, <2>2, <2>4 DEF IInv, ChangeIsNewer
    <3>2. CASE Holds(s, k)
      <4>1. own[s][k].updated_at > committed[k].updated_at
        BY <1>1, <2>4, <3>2 DEF IInv, OwnIsNewer
      <4>2. QED
        BY <1>1, <2>1, <3>1, <3>2, <4>1 DEF View
    <3>3. CASE ~ Holds(s, k)
      BY <3>1, <3>3 DEF View
    <3>4. QED
      BY <3>2, <3>3
  <2>5. QED
    BY <2>3, <2>4
<1>12. OwnIsNewer'
  BY <1>1, <1>2, <1>3, <1>4, <1>5, <1>7, <1>8, <1>11 DEF OwnIsNewer, IInv
<1>13. QED
  BY <1>9, <1>10, <1>12

LEMMA CommitKeeps ==
  ASSUME IInv, NEW s \in Sessions, Commit(s)
  PROVE  Exclusive' /\ ChangeIsNewer' /\ OwnIsNewer'
<1>1. /\ committed' = [t \in TaskId |-> View(s, t)]
      /\ raced' = raced \cup {change[u].task : u \in {v \in Sessions :
                     /\ WaitsFor(v, s)
                     /\ ~ change[v].insert}}
      /\ pc' = [pc EXCEPT ![s] = "idle"]
      /\ change' = [change EXCEPT ![s] = NoChange(SomeTask)]
      /\ own' = [own EXCEPT ![s] = NoRows]
  BY DEF Commit, Close
<1>2. \A t \in TaskId : ~ Holds(s, t)'
  BY <1>1, AbsentType DEF Holds, NoRows, IInv, TypeOK
<1>3. \A u \in Sessions \ {s} : /\ own'[u] = own[u]
                                /\ pc'[u] = pc[u]
                                /\ change'[u] = change[u]
  BY <1>1 DEF IInv, TypeOK
<1>4. \A u \in Sessions \ {s}, t \in TaskId : Holds(u, t)' <=> Holds(u, t)
  BY <1>3 DEF Holds
<1>5. \A t \in TaskId : ~ Holds(s, t) => committed'[t] = committed[t]
  BY <1>1 DEF View
<1>6. Exclusive'
  BY <1>2, <1>4 DEF Exclusive, IInv
<1>7. OwnIsNewer'
  <2> SUFFICES ASSUME NEW u \in Sessions, NEW t \in TaskId, Holds(u, t)'
               PROVE  t \in raced' \/ own'[u][t].updated_at > committed'[t].updated_at
    BY DEF OwnIsNewer
  <2>1. u # s /\ Holds(u, t)
    BY <1>2, <1>4
  <2>2. committed'[t] = committed[t]
    BY <1>5, <2>1 DEF IInv, Exclusive
  <2>3. QED
    BY <1>1, <1>3, <2>1, <2>2 DEF IInv, OwnIsNewer
<1>8. ChangeIsNewer'
  <2> SUFFICES ASSUME NEW u \in Sessions, NEW t \in TaskId,
                      pc'[u] = "flush", change'[u].task = t
               PROVE  /\ change'[u].row.updated_at > 0
                      /\ \/ change'[u].insert
                         \/ t \in raced'
                         \/ change'[u].row.updated_at > View(u, t)'.updated_at
    BY DEF ChangeIsNewer
  <2>1. u # s /\ pc[u] = "flush" /\ change'[u] = change[u]
    BY <1>1, <1>3 DEF IInv, TypeOK
  <2>2. change[u].row.updated_at > 0
    BY <2>1 DEF IInv, ChangeIsNewer
  <2>3. CASE ~ change[u].insert /\ t \notin raced'
    <3>2. ~ Holds(s, t)
      BY <1>1, <2>1, <2>3 DEF WaitsFor
    <3>3. View(u, t)' = View(u, t)
      BY <1>3, <1>4, <1>5, <2>1, <3>2 DEF View
    <3>4. t \notin raced
      BY <1>1, <2>3
    <3>5. QED
      BY <2>1, <2>2, <2>3, <3>3, <3>4 DEF IInv, ChangeIsNewer
  <2>4. QED
    BY <2>1, <2>2, <2>3
<1>9. QED
  BY <1>6, <1>7, <1>8

LEMMA IInvNext == IInv /\ [Next]_vars => IInv'
<1> SUFFICES ASSUME IInv, [Next]_vars PROVE IInv'
  OBVIOUS
<1>1. TypeOK'
  BY TypeNext DEF IInv
<1>2. ASSUME NEW s \in Sessions, NEW ops \in Batches, Submit(s, ops)
      PROVE  Exclusive' /\ ChangeIsNewer' /\ OwnIsNewer'
  <2>1. /\ committed' = committed /\ own' = own /\ raced' = raced
        /\ change' = change
    BY <1>2 DEF Submit, database, history
  <2>2. \A u \in Sessions : pc'[u] = "flush" => pc[u] = "flush"
    BY <1>2 DEF Submit, IInv, TypeOK
  <2>3. \A u \in Sessions, t \in TaskId :
           (Holds(u, t)' <=> Holds(u, t)) /\ View(u, t)' = View(u, t)
    BY <2>1 DEF Holds, View
  <2>4. Exclusive' /\ OwnIsNewer'
    BY <2>1, <2>3 DEF IInv, Exclusive, OwnIsNewer
  <2>5. ChangeIsNewer'
    BY <2>1, <2>2, <2>3 DEF IInv, ChangeIsNewer
  <2>6. QED
    BY <2>4, <2>5
<1>3. ASSUME NEW s \in Sessions, FlushThrows(s) \/ DeadlockAborts(s) \/ Abort(s)
      PROVE  Exclusive' /\ ChangeIsNewer' /\ OwnIsNewer'
  <2>1. Close(s) /\ UNCHANGED <<committed, history>>
    BY <1>3 DEF FlushThrows, DeadlockAborts, Abort
  <2>2. QED
    BY <2>1, CloseKeeps
<1>4. ASSUME UNCHANGED vars
      PROVE  Exclusive' /\ ChangeIsNewer' /\ OwnIsNewer'
  <2>1. /\ committed' = committed /\ own' = own /\ raced' = raced
        /\ change' = change /\ pc' = pc
    BY <1>4 DEF vars, database, session, history
  <2>2. \A u \in Sessions, t \in TaskId :
           (Holds(u, t)' <=> Holds(u, t)) /\ View(u, t)' = View(u, t)
    BY <2>1 DEF Holds, View
  <2>3. QED
    BY <2>1, <2>2 DEF IInv, Exclusive, ChangeIsNewer, OwnIsNewer
<1>5. Exclusive' /\ ChangeIsNewer' /\ OwnIsNewer'
  BY <1>2, <1>3, <1>4, SelectKeeps, FlushKeeps, CommitKeeps DEF Next, Step
<1>6. QED
  BY <1>1, <1>5 DEF IInv

LEMMA StepRegressesOnlyIfRaced ==
  ASSUME IInv, [Next]_vars, NEW t \in TaskId \ raced
  PROVE  committed'[t].updated_at >= committed[t].updated_at
<1>1. committed[t].updated_at \in Nat
  BY DEF IInv, TypeOK, Row
<1>2. ASSUME NEW s \in Sessions, Commit(s)
      PROVE  committed'[t].updated_at >= committed[t].updated_at
  <2>1. committed'[t] = View(s, t)
    BY <1>2 DEF Commit
  <2>2. CASE Holds(s, t)
    BY <1>1, <2>1, <2>2, StampType DEF IInv, OwnIsNewer, View
  <2>3. CASE ~ Holds(s, t)
    BY <1>1, <2>1, <2>3 DEF View
  <2>4. QED
    BY <2>2, <2>3
<1>3. ASSUME committed' = committed
      PROVE  committed'[t].updated_at >= committed[t].updated_at
  BY <1>1, <1>3
<1>4. QED
  BY <1>2, <1>3 DEF Next, Step, Submit, Select, Flush, FlushThrows,
                    DeadlockAborts, Abort, vars, database

\* A committed task goes back to an older version only if another batch
\* committed it between the SELECT and the flush of the batch that does it:
\* for any number of sessions, tasks and operations.
THEOREM OnlyRacesLoseWrites == Spec => RegressesOnlyIfRaced
<1>1. IInv /\ [Next]_vars =>
         [\A t \in TaskId \ raced :
             committed'[t].updated_at >= committed[t].updated_at]_vars
  BY StepRegressesOnlyIfRaced
<1>2. QED
  BY IInvInit, IInvNext, <1>1, PTL DEF Spec, RegressesOnlyIfRaced

---------------------------------------------------------------------------
(* A task shows the newest operation that was applied.  The change a       *)
(* session is about to flush would turn the row it sees now into one that  *)
(* shows the operation, and each row it wrote shows the newest of the      *)
(* operations it applied to it; both unless the task was raced for.        *)

On(t, ops) == {op \in ops : op.id = t}

ShowsNewest(row, ops) ==
  \E op \in ops : /\ Shows(row, op)
                  /\ \A o \in ops : o.updated_at <= op.updated_at

ChangeShows ==
  \A s \in Sessions, t \in TaskId :
     pc[s] = "flush" /\ change[s].task = t =>
        /\ \/ Head(todo[s]).id = t
           \/ Head(todo[s]).id = NoId /\ t \in GeneratedId
        /\ change[s].insert => change[s].fields = Field
        /\ \/ t \in raced
           \/ Shows(Patched(View(s, t), change[s]), Head(todo[s]))

OwnShowsNewest ==
  \A s \in Sessions, t \in ClientId \ raced :
     IF Holds(s, t) THEN ShowsNewest(own[s][t], On(t, applied[s]))
                    ELSE On(t, applied[s]) = {}

NInv == IInv /\ ChangeShows /\ OwnShowsNewest /\ NewestApplied

LEMMA NoIdIsNoTask == \A t \in TaskId : t # NoId
BY BatchSyncAssumption

LEMMA NewIdType ==
  ASSUME NEW op \in Operations, NEW i \in NewId(op)
  PROVE  /\ i \in TaskId
         /\ op.id = i \/ (op.id = NoId /\ i \in GeneratedId)
<1>1. CASE op.id = NoId
  BY <1>1 DEF NewId, TaskId
<1>2. CASE op.id # NoId
  <2>1. i = op.id /\ op.id \in ClientId
    BY <1>2, OperationType DEF NewId
  <2>2. QED
    BY <2>1 DEF TaskId
<1>3. QED
  BY <1>1, <1>2

LEMMA WhatIsFlushed ==
  ASSUME NInv, NEW s \in Sessions, NEW t \in TaskId,
         pc[s] = "flush", change[s].task = t
  PROVE  /\ \/ Head(todo[s]).id = t
            \/ Head(todo[s]).id = NoId /\ t \in GeneratedId
         /\ t \in raced \/ Shows(Patched(View(s, t), change[s]), Head(todo[s]))
BY DEF NInv, ChangeShows

LEMMA UpdateShows ==
  ASSUME NEW op \in Operations, NEW row \in Row
  PROVE  Shows(Patched(row, UpdateOf(op, row)), op)
<1> DEFINE del == op.action = "delete" \/ op.deleted
           new == [title |-> op.title, deleted |-> del, updated_at |-> op.updated_at]
           named == IF op.action = "delete" THEN {"deleted"} ELSE op.fields
           changed == {x \in named : new[x] # row[x]}
           p == Patched(row, UpdateOf(op, row))
<1>1. op.action \in {"upsert", "delete"} /\ op.deleted \in BOOLEAN
  BY OperationType
<1>2. /\ new["title"] = op.title /\ new["deleted"] = del
      /\ row["title"] = row.title /\ row["deleted"] = row.deleted
  OBVIOUS
<1>3. /\ p.title = IF "title" \in changed THEN op.title ELSE row.title
      /\ p.deleted = IF "deleted" \in changed THEN del ELSE row.deleted
      /\ p.updated_at = op.updated_at
  BY Zenon DEF Patched, UpdateOf
<1>4. "title" \in named => p.title = op.title
  BY <1>2, <1>3
<1>5. row.deleted \in BOOLEAN /\ del \in BOOLEAN
  BY DEF Row
<1>6. "deleted" \in named => p.deleted = del
  <2>1. CASE new["deleted"] # row["deleted"]
    BY <1>3, <2>1
  <2>2. CASE new["deleted"] = row["deleted"]
    <3>1. row.deleted = del
      BY <1>2, <2>2, Zenon
    <3>2. QED
      BY <1>3, <3>1
  <2>3. QED
    BY <2>1, <2>2
<1> HIDE DEF p
<1>7. CASE op.action = "delete"
  <2>1. del = TRUE /\ "deleted" \in named
    BY <1>7
  <2>2. p.deleted
    BY <1>6, <2>1
  <2>3. QED
    BY <1>3, <1>7, <2>2 DEF Shows, p
<1>8. CASE op.action = "upsert"
  <2>1. named = op.fields /\ del = op.deleted
    BY <1>1, <1>8
  <2>2. QED
    BY <1>3, <1>4, <1>6, <1>8, <2>1 DEF Shows, p
<1>9. QED
  BY <1>1, <1>7, <1>8

LEMMA InsertShows ==
  ASSUME NEW op \in Operations, op.action = "upsert", NEW t, NEW row
  PROVE  /\ Shows(Patched(row, InsertOf(op, t)), op)
         /\ InsertOf(op, t).fields = Field
<1> DEFINE del == "deleted" \in op.fields /\ op.deleted
           p == Patched(row, InsertOf(op, t))
<1>1. op.deleted \in BOOLEAN
  BY OperationType
<1>2. InsertOf(op, t).fields = Field
  BY DEF InsertOf
<1>3. /\ p.title = op.title
      /\ p.deleted = del
      /\ p.updated_at = op.updated_at
  BY Zenon DEF Patched, InsertOf, Field
<1>4. "deleted" \in op.fields => del = op.deleted
  BY <1>1
<1> HIDE DEF p
<1>5. QED
  BY <1>2, <1>3, <1>4 DEF Shows, p

LEMMA ReplacedShows ==
  ASSUME NEW c, c.fields = Field, NEW a, NEW b
  PROVE  Patched(a, c) = Patched(b, c)
BY DEF Patched, Field

\* What keeps the shown change of one session: its own state, and the row it
\* sees unless the change is a whole row.
LEMMA ChangeStillShows ==
  ASSUME NInv, raced \subseteq raced', NEW u \in Sessions, NEW t \in TaskId,
         pc[u] = "flush", change[u].task = t,
         change'[u] = change[u], todo'[u] = todo[u],
         \/ t \in raced'
         \/ change[u].insert
         \/ View(u, t)' = View(u, t)
  PROVE  /\ \/ Head(todo'[u]).id = t
            \/ Head(todo'[u]).id = NoId /\ t \in GeneratedId
         /\ change'[u].insert => change'[u].fields = Field
         /\ \/ t \in raced'
            \/ Shows(Patched(View(u, t)', change'[u]), Head(todo'[u]))
<1>1. /\ \/ Head(todo[u]).id = t
         \/ Head(todo[u]).id = NoId /\ t \in GeneratedId
      /\ change[u].insert => change[u].fields = Field
      /\ \/ t \in raced
         \/ Shows(Patched(View(u, t), change[u]), Head(todo[u]))
  BY DEF NInv, ChangeShows
<1>2. CASE change[u].insert
  <2>1. Patched(View(u, t)', change[u]) = Patched(View(u, t), change[u])
    BY <1>1, <1>2, ReplacedShows
  <2>2. QED
    BY <1>1, <2>1
<1>3. CASE ~ change[u].insert
  BY <1>1, <1>3
<1>4. QED
  BY <1>2, <1>3

LEMMA NInvInit == Init => NInv
<1> SUFFICES ASSUME Init PROVE NInv
  OBVIOUS
<1>1. \A s \in Sessions, t \in TaskId : ~ Holds(s, t)
  BY AbsentType DEF Init, Holds, NoRows
<1>2. OwnShowsNewest
  BY <1>1 DEF Init, OwnShowsNewest, On, TaskId
<1>3. NewestApplied
  BY AbsentType DEF Init, NewestApplied, NoRows, TaskId
<1>4. ChangeShows
  BY DEF Init, ChangeShows
<1>5. QED
  BY <1>2, <1>3, <1>4, IInvInit DEF NInv

LEMMA CloseShows ==
  ASSUME NInv, NEW s \in Sessions, Close(s), UNCHANGED <<committed, history>>
  PROVE  ChangeShows' /\ OwnShowsNewest' /\ NewestApplied'
<1> USE DEF NInv, IInv
<1>1. committed' = committed /\ raced' = raced /\ stored' = stored
  BY DEF history
<1>2. NewestApplied'
  BY <1>1 DEF NewestApplied
<1>3. \A u \in Sessions \ {s} :
         /\ own'[u] = own[u] /\ pc'[u] = pc[u] /\ change'[u] = change[u]
         /\ todo'[u] = todo[u] /\ applied'[u] = applied[u]
  BY DEF Close, TypeOK
<1>4. /\ pc'[s] = "idle" /\ applied'[s] = {}
      /\ \A t \in TaskId : ~ Holds(s, t)'
  BY AbsentType DEF Close, TypeOK, Holds, NoRows
<1>5. \A u \in Sessions \ {s}, t \in TaskId :
         (Holds(u, t)' <=> Holds(u, t)) /\ View(u, t)' = View(u, t)
  BY <1>1, <1>3 DEF Holds, View
<1>6. OwnShowsNewest'
  <2> SUFFICES ASSUME NEW u \in Sessions, NEW t \in ClientId \ raced
               PROVE  IF Holds(u, t)' THEN ShowsNewest(own'[u][t], On(t, applied'[u]))
                                      ELSE On(t, applied'[u]) = {}
    BY <1>1 DEF OwnShowsNewest, On, ShowsNewest, Shows
  <2>1. t \in TaskId
    BY DEF TaskId
  <2>2. CASE u = s
    BY <1>4, <2>1, <2>2 DEF On
  <2>3. CASE u # s
    BY <1>3, <1>5, <2>1, <2>3 DEF OwnShowsNewest
  <2>4. QED
    BY <2>2, <2>3
<1>7. ChangeShows'
  <2> SUFFICES ASSUME NEW u \in Sessions, NEW t \in TaskId,
                      pc'[u] = "flush", change'[u].task = t
               PROVE  /\ \/ Head(todo'[u]).id = t
                         \/ Head(todo'[u]).id = NoId /\ t \in GeneratedId
                      /\ change'[u].insert => change'[u].fields = Field
                      /\ \/ t \in raced'
                         \/ Shows(Patched(View(u, t)', change'[u]), Head(todo'[u]))
    BY DEF ChangeShows
  <2>1. u # s
    BY <1>4
  <2>2. QED
    BY <1>1, <1>3, <1>5, <2>1, ChangeStillShows
<1>8. QED
  BY <1>2, <1>6, <1>7

LEMMA SelectShows ==
  ASSUME NInv, NEW s \in Sessions, Select(s)
  PROVE  ChangeShows' /\ OwnShowsNewest' /\ NewestApplied'
<1> USE DEF NInv, IInv
<1> DEFINE op == Head(todo[s])
           row == Found(s, op.id)
<1>1. /\ committed' = committed /\ own' = own /\ raced' = raced /\ stored' = stored
      /\ applied' = applied
  BY DEF Select, database, history
<1>2. \A u \in Sessions, t \in TaskId :
         (Holds(u, t)' <=> Holds(u, t)) /\ View(u, t)' = View(u, t)
  BY <1>1 DEF Holds, View
<1>3. NewestApplied'
  BY <1>1 DEF NewestApplied
<1>4. OwnShowsNewest'
  BY <1>1, <1>2 DEF OwnShowsNewest, TaskId
<1>5. \A u \in Sessions \ {s} :
         pc'[u] = pc[u] /\ change'[u] = change[u] /\ todo'[u] = todo[u]
  BY DEF Select, TypeOK
<1>6. /\ op \in Operations /\ op.id \in ClientId \cup {NoId}
      /\ op.action \in {"upsert", "delete"}
  BY HeadTail, OperationType DEF Select
<1>7. ASSUME pc'[s] = "flush", NEW t \in TaskId, change'[s].task = t
      PROVE  /\ \/ Head(todo'[s]).id = t
                \/ Head(todo'[s]).id = NoId /\ t \in GeneratedId
             /\ change'[s].insert => change'[s].fields = Field
             /\ Shows(Patched(View(s, t)', change'[s]), Head(todo'[s]))
  <2>1. todo' = todo /\ ~ Refused(row, op)
    BY <1>7 DEF Select, TypeOK
  <2>2. \/ Exists(row) /\ change' = [change EXCEPT ![s] = UpdateOf(op, row)]
        \/ /\ ~ Exists(row)
           /\ \E i \in NewId(op) : change' = [change EXCEPT ![s] = InsertOf(op, i)]
    BY <1>7 DEF Select
  <2>3. CASE Exists(row) /\ change' = [change EXCEPT ![s] = UpdateOf(op, row)]
    <3>1. row \in Row /\ op.id \in TaskId /\ row = View(s, op.id)
      BY <1>6, <2>3, FoundType
    <3>2. change'[s] = UpdateOf(op, row)
      BY <2>3 DEF TypeOK
    <3>3. change'[s].task = op.id /\ ~ change'[s].insert
      BY <1>6, <3>1, <3>2, UpdateOfType
    <3>4. Shows(Patched(row, UpdateOf(op, row)), op)
      BY <1>6, <3>1, UpdateShows
    <3>5. View(s, t)' = row
      BY <1>2, <1>7, <3>1, <3>3
    <3>6. QED
      BY <1>7, <2>1, <3>2, <3>3, <3>4, <3>5
  <2>4. ASSUME ~ Exists(row), NEW i \in NewId(op),
               change' = [change EXCEPT ![s] = InsertOf(op, i)]
        PROVE  /\ \/ Head(todo'[s]).id = t
                  \/ Head(todo'[s]).id = NoId /\ t \in GeneratedId
               /\ change'[s].insert => change'[s].fields = Field
               /\ Shows(Patched(View(s, t)', change'[s]), Head(todo'[s]))
    <3>1. op.action = "upsert"
      BY <1>6, <2>1, <2>4 DEF Refused, RefusesDelete
    <3>2. change'[s] = InsertOf(op, i)
      BY <2>4 DEF TypeOK
    <3>3. i \in TaskId /\ (op.id = i \/ (op.id = NoId /\ i \in GeneratedId))
      BY <1>6, NewIdType
    <3>4. i = t
      BY <1>6, <1>7, <3>2, <3>3, InsertOfType
    <3>5. Shows(Patched(View(s, t)', InsertOf(op, i)), op) /\ InsertOf(op, i).fields = Field
      BY <1>6, <3>1, InsertShows
    <3>6. QED
      BY <2>1, <3>2, <3>3, <3>4, <3>5
  <2>5. QED
    BY <2>2, <2>3, <2>4
<1>8. ChangeShows'
  <2> SUFFICES ASSUME NEW u \in Sessions, NEW t \in TaskId,
                      pc'[u] = "flush", change'[u].task = t
               PROVE  /\ \/ Head(todo'[u]).id = t
                         \/ Head(todo'[u]).id = NoId /\ t \in GeneratedId
                      /\ change'[u].insert => change'[u].fields = Field
                      /\ \/ t \in raced'
                         \/ Shows(Patched(View(u, t)', change'[u]), Head(todo'[u]))
    BY DEF ChangeShows
  <2>1. CASE u = s
    BY <1>7, <2>1
  <2>2. CASE u # s
    BY <1>1, <1>2, <1>5, <2>2, ChangeStillShows
  <2>3. QED
    BY <2>1, <2>2
<1>9. QED
  BY <1>3, <1>4, <1>8

LEMMA FlushShows ==
  ASSUME NInv, NEW s \in Sessions, Flush(s)
  PROVE  ChangeShows' /\ OwnShowsNewest' /\ NewestApplied'
<1> USE DEF NInv, IInv
<1>0. PICK k \in TaskId : k = change[s].task
  <2>1. change[s] \in Change
    BY DEF TypeOK
  <2>2. QED
    BY <2>1 DEF Change
<1> DEFINE new == Patched(View(s, k), change[s])
           op == Head(todo[s])
<1>1. /\ own' = [own EXCEPT ![s][k] = new]
      /\ committed' = committed /\ raced' = raced /\ stored' = stored
      /\ applied' = [applied EXCEPT ![s] = @ \cup {op}]
      /\ pc' = [pc EXCEPT ![s] = "select"]
      /\ change' = [change EXCEPT ![s] = NoChange(SomeTask)]
      /\ todo' = [todo EXCEPT ![s] = Tail(todo[s])]
  BY <1>0 DEF Flush, history
<1>2. /\ k \in TaskId /\ change[s] \in Change /\ View(s, k) \in Row
      /\ pc[s] = "flush" /\ change[s].task = k
  BY <1>0, ViewType DEF Flush, TypeOK
<1>3. new.updated_at = change[s].row.updated_at /\ new.updated_at \in Nat
  BY <1>2, PatchedType, StampType
<1>4. k \in raced \/ Shows(new, op)
  BY <1>2, WhatIsFlushed
<1>5. op.id = k \/ (op.id = NoId /\ k \in GeneratedId)
  BY <1>2, WhatIsFlushed
<1> HIDE DEF new
<1>6. /\ own'[s][k] = new
      /\ \A u \in Sessions, t \in TaskId : u # s \/ t # k => own'[u][t] = own[u][t]
  BY <1>1, <1>2 DEF TypeOK
<1>7. \A u \in Sessions \ {s}, t \in TaskId :
         (Holds(u, t)' <=> Holds(u, t)) /\ View(u, t)' = View(u, t)
  BY <1>1, <1>6 DEF Holds, View
<1>8. \A u \in Sessions \ {s} :
         /\ pc'[u] = pc[u] /\ change'[u] = change[u]
         /\ todo'[u] = todo[u] /\ applied'[u] = applied[u]
  BY <1>1 DEF TypeOK
<1>9. pc'[s] = "select" /\ applied'[s] = applied[s] \cup {op}
  BY <1>1 DEF TypeOK
<1>10. NewestApplied'
  BY <1>1 DEF NewestApplied
<1>11. ChangeShows'
  <2> SUFFICES ASSUME NEW u \in Sessions, NEW t \in TaskId,
                      pc'[u] = "flush", change'[u].task = t
               PROVE  /\ \/ Head(todo'[u]).id = t
                         \/ Head(todo'[u]).id = NoId /\ t \in GeneratedId
                      /\ change'[u].insert => change'[u].fields = Field
                      /\ \/ t \in raced'
                         \/ Shows(Patched(View(u, t)', change'[u]), Head(todo'[u]))
    BY DEF ChangeShows
  <2>1. u # s
    BY <1>9
  <2>2. QED
    BY <1>1, <1>7, <1>8, <2>1, ChangeStillShows
<1>12. ASSUME k \in ClientId \ raced
       PROVE  /\ Holds(s, k)'
              /\ ShowsNewest(new, On(k, applied'[s]))
  <2>1. op.id = k
    BY <1>5, <1>12, BatchSyncAssumption
  <2>2. op \in Operations /\ op.updated_at \in Nat
    BY <1>2, HeadTail, OperationType DEF TypeOK
  <2>3. Shows(new, op) /\ new.updated_at = op.updated_at
    BY <1>4, <1>12 DEF Shows
  <2>4. new.updated_at > 0
    BY <1>2, <1>3 DEF ChangeIsNewer
  <2>5. Holds(s, k)'
    BY <1>6, <2>4 DEF Holds, Exists
  <2>6. On(k, applied'[s]) = On(k, applied[s]) \cup {op}
    BY <1>9, <2>1 DEF On
  <2>7. \A o \in On(k, applied[s]) : o.updated_at <= op.updated_at
    <3>1. CASE Holds(s, k)
      <4>1. PICK q \in On(k, applied[s]) :
               /\ Shows(own[s][k], q)
               /\ \A o \in On(k, applied[s]) : o.updated_at <= q.updated_at
        BY <1>12, <3>1 DEF OwnShowsNewest, ShowsNewest
      <4>2. View(s, k) = own[s][k] /\ View(s, k).updated_at = q.updated_at
        BY <3>1, <4>1 DEF View, Shows
      <4>3. ~ change[s].insert
        <5>1. Exists(View(s, k))
          BY <3>1, <4>2 DEF Holds
        <5>2. QED
          BY <1>2, <5>1 DEF Flush, Throws
      <4>4. new.updated_at > View(s, k).updated_at
        BY <1>2, <1>3, <1>12, <4>3 DEF ChangeIsNewer
      <4>5. q.updated_at \in Nat
        BY <1>2, <4>2, StampType
      <4>6. \A o \in On(k, applied[s]) : o.updated_at \in Nat
        BY OperationType DEF On, TypeOK
      <4>7. QED
        BY <2>2, <2>3, <4>1, <4>2, <4>4, <4>5, <4>6
    <3>2. CASE ~ Holds(s, k)
      BY <1>12, <3>2 DEF OwnShowsNewest
    <3>3. QED
      BY <3>1, <3>2
  <2>8. QED
    BY <2>2, <2>3, <2>5, <2>6, <2>7 DEF ShowsNewest
<1>13. OwnShowsNewest'
  <2> SUFFICES ASSUME NEW u \in Sessions, NEW t \in ClientId \ raced
               PROVE  IF Holds(u, t)' THEN ShowsNewest(own'[u][t], On(t, applied'[u]))
                                      ELSE On(t, applied'[u]) = {}
    BY <1>1 DEF OwnShowsNewest, On, ShowsNewest, Shows
  <2>1. t \in TaskId
    BY DEF TaskId
  <2>2. CASE u # s
    BY <1>6, <1>7, <1>8, <2>1, <2>2 DEF OwnShowsNewest
  <2>3. CASE u = s /\ t = k
    BY <1>6, <1>12, <2>3
  <2>4. CASE u = s /\ t # k
    <3>1. op.id # t
      BY <1>5, <2>1, <2>4, NoIdIsNoTask
    <3>2. On(t, applied'[s]) = On(t, applied[s])
      BY <1>9, <3>1 DEF On
    <3>3. own'[s][t] = own[s][t] /\ (Holds(s, t)' <=> Holds(s, t))
      BY <1>6, <2>1, <2>4 DEF Holds
    <3>4. QED
      BY <2>4, <3>2, <3>3 DEF OwnShowsNewest
  <2>5. QED
    BY <2>2, <2>3, <2>4
<1>14. QED
  BY <1>10, <1>11, <1>13

LEMMA CommitShows ==
  ASSUME NInv, NEW s \in Sessions, Commit(s)
  PROVE  ChangeShows' /\ OwnShowsNewest' /\ NewestApplied'
<1> USE DEF NInv, IInv
<1>1. /\ committed' = [t \in TaskId |-> View(s, t)]
      /\ raced' = raced \cup {change[u].task : u \in {v \in Sessions :
                     /\ WaitsFor(v, s)
                     /\ ~ change[v].insert}}
      /\ stored' = stored \cup applied[s]
      /\ Close(s)
  BY DEF Commit
<1>2. raced \subseteq raced'
  BY <1>1
<1>3. \A u \in Sessions \ {s} :
         /\ own'[u] = own[u] /\ pc'[u] = pc[u] /\ change'[u] = change[u]
         /\ todo'[u] = todo[u] /\ applied'[u] = applied[u]
  BY <1>1 DEF Close, TypeOK
<1>4. /\ pc'[s] = "idle" /\ applied'[s] = {}
      /\ \A t \in TaskId : ~ Holds(s, t)'
  BY <1>1, AbsentType DEF Close, TypeOK, Holds, NoRows
<1>5. \A u \in Sessions \ {s}, t \in TaskId : Holds(u, t)' <=> Holds(u, t)
  BY <1>3 DEF Holds
<1>6. OwnShowsNewest'
  <2> SUFFICES ASSUME NEW u \in Sessions, NEW t \in ClientId \ raced'
               PROVE  IF Holds(u, t)' THEN ShowsNewest(own'[u][t], On(t, applied'[u]))
                                      ELSE On(t, applied'[u]) = {}
    BY DEF OwnShowsNewest, On, ShowsNewest, Shows
  <2>1. t \in TaskId /\ t \notin raced
    BY <1>2 DEF TaskId
  <2>2. CASE u = s
    BY <1>4, <2>1, <2>2 DEF On
  <2>3. CASE u # s
    BY <1>3, <1>5, <2>1, <2>3 DEF OwnShowsNewest
  <2>4. QED
    BY <2>2, <2>3
<1>7. ChangeShows'
  <2> SUFFICES ASSUME NEW u \in Sessions, NEW t \in TaskId,
                      pc'[u] = "flush", change'[u].task = t
               PROVE  /\ \/ Head(todo'[u]).id = t
                         \/ Head(todo'[u]).id = NoId /\ t \in GeneratedId
                      /\ change'[u].insert => change'[u].fields = Field
                      /\ \/ t \in raced'
                         \/ Shows(Patched(View(u, t)', change'[u]), Head(todo'[u]))
    BY DEF ChangeShows
  <2>1. u # s /\ pc[u] = "flush" /\ change[u].task = t
    BY <1>3, <1>4
  <2>2. CASE Holds(s, t)
    <3>1. WaitsFor(u, s)
      BY <2>1, <2>2 DEF WaitsFor
    <3>2. t \in raced' \/ change[u].insert
      BY <1>1, <2>1, <3>1
    <3>3. QED
      BY <1>2, <1>3, <2>1, <3>2, ChangeStillShows
  <2>3. CASE ~ Holds(s, t)
    <3>1. View(u, t)' = View(u, t)
      BY <1>1, <1>3, <1>5, <2>1, <2>3 DEF View
    <3>2. QED
      BY <1>2, <1>3, <2>1, <3>1, ChangeStillShows
  <2>4. QED
    BY <2>2, <2>3
<1>8. NewestApplied'
  <2> SUFFICES ASSUME NEW t \in ClientId, t \notin raced'
               PROVE  IF On(t, stored') = {} THEN ~ Exists(committed'[t])
                      ELSE ShowsNewest(committed'[t], On(t, stored'))
    BY DEF NewestApplied, On, ShowsNewest, Shows
  <2>1. t \in TaskId /\ t \notin raced
    BY <1>2 DEF TaskId
  <2>2. On(t, stored') = On(t, stored) \cup On(t, applied[s])
    BY <1>1 DEF On
  <2>3. IF On(t, stored) = {} THEN ~ Exists(committed[t])
        ELSE ShowsNewest(committed[t], On(t, stored))
    BY <2>1 DEF NewestApplied, On, ShowsNewest
  <2>4. \A o \in On(t, stored) \cup On(t, applied[s]) : o.updated_at \in Nat
    BY OperationType DEF On, TypeOK
  <2>5. CASE Holds(s, t)
    <3>1. committed'[t] = own[s][t]
      BY <1>1, <2>1, <2>5 DEF View
    <3>2. PICK q \in On(t, applied[s]) :
             /\ Shows(own[s][t], q)
             /\ \A o \in On(t, applied[s]) : o.updated_at <= q.updated_at
      BY <2>1, <2>5 DEF OwnShowsNewest, ShowsNewest
    <3>3. own[s][t].updated_at = q.updated_at
      BY <3>2 DEF Shows
    <3>4. own[s][t].updated_at > committed[t].updated_at
      BY <2>1, <2>5 DEF OwnIsNewer
    <3>5. \A o \in On(t, stored) : o.updated_at <= committed[t].updated_at
      BY <2>3 DEF ShowsNewest, Shows
    <3>6. committed[t].updated_at \in Nat
      BY <2>1, StampType
    <3>7. \A o \in On(t, stored) : o.updated_at <= q.updated_at
      BY <2>4, <3>3, <3>4, <3>5, <3>6
    <3>8. QED
      BY <2>2, <3>1, <3>2, <3>7 DEF ShowsNewest
  <2>6. CASE ~ Holds(s, t)
    <3>1. committed'[t] = committed[t]
      BY <1>1, <2>1, <2>6 DEF View
    <3>2. On(t, applied[s]) = {}
      BY <2>1, <2>6 DEF OwnShowsNewest
    <3>3. QED
      BY <2>2, <2>3, <3>1, <3>2
  <2>7. QED
    BY <2>5, <2>6
<1>9. QED
  BY <1>6, <1>7, <1>8

LEMMA NInvNext == NInv /\ [Next]_vars => NInv'
<1> SUFFICES ASSUME NInv, [Next]_vars PROVE NInv'
  OBVIOUS
<1>1. IInv'
  BY IInvNext DEF NInv
<1>2. ASSUME NEW s \in Sessions, NEW ops \in Batches, Submit(s, ops)
      PROVE  ChangeShows' /\ OwnShowsNewest' /\ NewestApplied'
  <2>1. /\ committed' = committed /\ own' = own /\ raced' = raced
        /\ stored' = stored /\ change' = change /\ applied' = applied
    BY <1>2 DEF Submit, database, history
  <2>2. \A u \in Sessions : pc'[u] = "flush" => pc[u] = "flush" /\ todo'[u] = todo[u]
    BY <1>2 DEF Submit, NInv, IInv, TypeOK
  <2>3. \A u \in Sessions, t \in TaskId :
           (Holds(u, t)' <=> Holds(u, t)) /\ View(u, t)' = View(u, t)
    BY <2>1 DEF Holds, View
  <2>4. NewestApplied' /\ OwnShowsNewest'
    BY <2>1, <2>3 DEF NInv, NewestApplied, OwnShowsNewest, TaskId
  <2>5. ChangeShows'
    BY <2>1, <2>2, <2>3 DEF NInv, ChangeShows
  <2>6. QED
    BY <2>4, <2>5
<1>3. ASSUME NEW s \in Sessions, FlushThrows(s) \/ DeadlockAborts(s) \/ Abort(s)
      PROVE  ChangeShows' /\ OwnShowsNewest' /\ NewestApplied'
  <2>1. Close(s) /\ UNCHANGED <<committed, history>>
    BY <1>3 DEF FlushThrows, DeadlockAborts, Abort
  <2>2. QED
    BY <2>1, CloseShows
<1>4. ASSUME UNCHANGED vars
      PROVE  ChangeShows' /\ OwnShowsNewest' /\ NewestApplied'
  <2>1. /\ committed' = committed /\ own' = own /\ raced' = raced
        /\ stored' = stored /\ change' = change /\ pc' = pc
        /\ todo' = todo /\ applied' = applied
    BY <1>4 DEF vars, database, session, history
  <2>2. \A u \in Sessions, t \in TaskId :
           (Holds(u, t)' <=> Holds(u, t)) /\ View(u, t)' = View(u, t)
    BY <2>1 DEF Holds, View
  <2>3. NewestApplied' /\ OwnShowsNewest'
    BY <2>1, <2>2 DEF NInv, NewestApplied, OwnShowsNewest, TaskId
  <2>4. ChangeShows'
    BY <2>1, <2>2 DEF NInv, ChangeShows
  <2>5. QED
    BY <2>3, <2>4
<1>5. ChangeShows' /\ OwnShowsNewest' /\ NewestApplied'
  BY <1>2, <1>3, <1>4, SelectShows, FlushShows, CommitShows DEF Next, Step
<1>6. QED
  BY <1>1, <1>5 DEF NInv

\* Unless it was raced for, a task shows the newest of the operations on it
\* that were reported as applied, in whatever order, batches and sessions they
\* arrived and whatever was aborted; without one it does not exist.
THEOREM TasksShowTheNewest == Spec => []NewestApplied
<1>1. NInv => NewestApplied
  BY DEF NInv
<1>2. QED
  BY NInvInit, NInvNext, <1>1, PTL DEF Spec

---------------------------------------------------------------------------
(* With one batch open at a time, batch sync implements LastWriteWins.     *)
(*                                                                         *)
(* A batch is read and flushed operation by operation; the store is        *)
(* changed at its commit.  So the invariant relates what a session sees of *)
(* the rows to the stages the store would go through, as far as the        *)
(* session has come in its batch.                                          *)

LEMMA LeastNumber ==
  ASSUME NEW S \in SUBSET Nat, S # {}
  PROVE  \E n \in S : \A m \in S : n <= m
<1>1. PICK n \in S : \A m \in S : <<m, n>> \notin OpToRel(<, Nat)
  BY WFMin, NatLessThanWellFounded
<1>2. \A m \in S : ~ (m < n)
  BY <1>1 DEF OpToRel
<1>3. QED
  BY <1>2

\* The stages of a batch are what their definition says.
LEMMA StagesAre ==
  ASSUME NEW rows, NEW ops \in Seq(Operations)
  PROVE  /\ LWW!Stages(rows, ops)[0] = rows
         /\ \A n \in 1 .. Len(ops) : LWW!Stages(rows, ops)[n] =
               LWW!After(LWW!Stages(rows, ops)[n - 1], ops[n])
<1> DEFINE Solves(f, n) ==
             f = [m \in 0 .. n |-> IF m = 0 THEN rows ELSE LWW!After(f[m - 1], ops[m])]
<1> DEFINE Unsolved == {n \in Nat : ~ \E f : Solves(f, n)}
<1>1. Unsolved = {}
  <2>1. SUFFICES ASSUME Unsolved # {} PROVE FALSE
    OBVIOUS
  <2>2. PICK n \in Unsolved : \A m \in Unsolved : n <= m
    <3>1. Unsolved \in SUBSET Nat
      OBVIOUS
    <3>2. QED
      BY <2>1, <3>1, LeastNumber
  <2>3. CASE n = 0
    <3> DEFINE f == [m \in 0 .. 0 |-> rows]
    <3>1. Solves(f, 0)
      OBVIOUS
    <3>2. QED
      BY <2>2, <2>3, <3>1
  <2>4. CASE n # 0
    <3>1. n - 1 \in Nat /\ n - 1 \notin Unsolved
      BY <2>2, <2>4
    <3>2. PICK g : Solves(g, n - 1)
      BY <3>1
    <3> DEFINE last == LWW!After(g[n - 1], ops[n])
    <3> DEFINE f == [m \in 0 .. n |-> IF m = n THEN last ELSE g[m]]
    <3> HIDE DEF last
    <3>3. \A m \in 0 .. n : f[m] = IF m = 0 THEN rows ELSE LWW!After(f[m - 1], ops[m])
      <4> SUFFICES ASSUME NEW m \in 0 .. n
                   PROVE  f[m] = IF m = 0 THEN rows ELSE LWW!After(f[m - 1], ops[m])
        OBVIOUS
      <4>1. CASE m = n
        <5>1. f[m] = last /\ f[m - 1] = g[m - 1]
          BY <2>2, <2>4, <4>1
        <5>2. QED
          BY <2>4, <4>1, <5>1 DEF last
      <4>2. CASE m # n
        <5>1. m \in 0 .. n - 1 /\ f[m] = g[m]
          BY <2>2, <4>2
        <5>2. g[m] = IF m = 0 THEN rows ELSE LWW!After(g[m - 1], ops[m])
          BY <3>2, <5>1
        <5>3. m # 0 => f[m - 1] = g[m - 1]
          BY <2>2, <5>1
        <5>4. QED
          BY <5>1, <5>2, <5>3
      <4>3. QED
        BY <4>1, <4>2
    <3> HIDE DEF f
    <3>4. f = [m \in 0 .. n |-> f[m]]
      BY DEF f
    <3>5. Solves(f, n)
      BY <3>3, <3>4
    <3>6. QED
      BY <2>2, <3>5
  <2>5. QED
    BY <2>3, <2>4
<1>2. \E f : Solves(f, Len(ops))
  BY <1>1
<1>3. Solves(LWW!Stages(rows, ops), Len(ops))
  <2>1. LWW!Stages(rows, ops) = CHOOSE f : Solves(f, Len(ops))
    BY DEF LWW!Stages
  <2>2. QED
    BY <1>2, <2>1
<1>4. QED
  BY <1>3

\* The store, what a session sees of it, and how far it is in its batch.
Store == [t \in Kept |-> committed[t]]
Seen(s) == [t \in Kept |-> View(s, t)]
Done(s) == Len(batch[s]) - Len(todo[s])

\* A row that does not exist is not marked as deleted.
AbsentIsLive == \A t \in TaskId : ~ Exists(committed[t]) => ~ committed[t].deleted

\* What a session still has to do is the rest of its batch, and what it sees
\* is the stage of the store its batch has come to.
AtItsStage(s) ==
    IF pc[s] = "idle" THEN own[s] = NoRows
    ELSE /\ batch[s] \in Batches
         /\ Done(s) \in 0 .. Len(batch[s])
         /\ \A i \in 1 .. Len(todo[s]) : todo[s][i] = batch[s][Done(s) + i]
         /\ Seen(s) = LWW!Stages(Store, batch[s])[Done(s)]

\* What a session flushes is what its operation makes of the row it sees.
FlushesItsOperation(s) ==
    pc[s] = "flush" =>
        LET op == Head(todo[s])
            row == Found(s, op.id)
        IN  /\ ~ Refused(row, op)
            /\ IF Exists(row) THEN change[s] = UpdateOf(op, row)
               ELSE \E t \in TaskId : /\ change[s] = InsertOf(op, t)
                                      /\ op.id = t \/ (op.id = NoId /\ t \in GeneratedId)

StageInv ==
    /\ TypeOK
    /\ AbsentIsLive
    /\ \A s \in Sessions : AtItsStage(s) /\ FlushesItsOperation(s)

\* No second batch is begun before the first has ended.
OneAtATime == \A s, u \in Sessions : s = u

\* The two ways of writing a row, and of refusing to.
LEMMA RefusedIsNotWritten ==
  ASSUME NEW op \in Operations, NEW row \in Row, op.id # NoId, Refused(row, op)
  PROVE  LWW!Written(row, op) = row
<1>1. /\ op.action \in {"upsert", "delete"}
      /\ op.updated_at \in Nat /\ row.updated_at \in Nat
  BY OperationType DEF Row
<1>2. Stale(row, op) => op.updated_at <= row.updated_at
  BY <1>1 DEF Stale
<1>3. CASE Stale(row, op)
  BY <1>2, <1>3 DEF LWW!Written
<1>4. CASE ~ Stale(row, op)
  <2>1. ~ LWW!WellFormed(row, op)
    BY <1>1, <1>4 DEF Refused, RefusesDelete, RefusesUpsert, LWW!WellFormed, LWW!Exists,
                      Exists, LWW!Null, Null
  <2>2. QED
    BY <2>1 DEF LWW!Written
<1>5. QED
  BY <1>3, <1>4

LEMMA FlushedIsWritten ==
  ASSUME NEW op \in Operations, NEW row \in Row, ~ Refused(row, op),
         ~ Exists(row) => ~ row.deleted,
         NEW c, c = IF Exists(row) THEN UpdateOf(op, row) ELSE InsertOf(op, op.id)
  PROVE  Patched(row, c) = LWW!Written(row, op)
<1> DEFINE title == IF "title" \in LWW!Named(op) THEN op.title ELSE row.title
           deleted == IF op.action = "delete" THEN TRUE
                      ELSE IF "deleted" \in LWW!Named(op) THEN op.deleted ELSE row.deleted
<1>1. /\ op.action \in {"upsert", "delete"} /\ op.fields \subseteq Field
      /\ op.deleted \in BOOLEAN /\ row.deleted \in BOOLEAN
      /\ op.updated_at \in Nat /\ op.updated_at > 0 /\ row.updated_at \in Nat
  BY OperationType DEF Row
<1>2. LWW!WellFormed(row, op) /\ op.updated_at > row.updated_at
  BY <1>1 DEF Refused, RefusesDelete, RefusesUpsert, Stale, LWW!WellFormed, LWW!Exists,
              Exists, LWW!Null, Null
<1>3. LWW!Written(row, op) =
         [title |-> title, deleted |-> deleted, updated_at |-> op.updated_at]
  BY <1>1, <1>2 DEF LWW!Written
<1>4. CASE Exists(row)
  <2> DEFINE del == op.action = "delete" \/ op.deleted
             new == [title |-> op.title, deleted |-> del, updated_at |-> op.updated_at]
             named == IF op.action = "delete" THEN {"deleted"} ELSE op.fields
             changed == {f \in named : new[f] # row[f]}
             p == Patched(row, UpdateOf(op, row))
  <2>1. p = [title      |-> IF "title" \in changed THEN op.title ELSE row.title,
             deleted    |-> IF "deleted" \in changed THEN del ELSE row.deleted,
             updated_at |-> op.updated_at]
    BY Zenon DEF Patched, UpdateOf
  <2>2. /\ new["title"] = op.title /\ new["deleted"] = del
        /\ row["title"] = row.title /\ row["deleted"] = row.deleted
    OBVIOUS
  <2>3. /\ "title" \in changed <=> ("title" \in named /\ op.title # row.title)
        /\ "deleted" \in changed <=> ("deleted" \in named /\ (new["deleted"] # row["deleted"]))
    BY <2>2
  <2>4. (IF "title" \in changed THEN op.title ELSE row.title) = title
    BY <1>1, <2>3 DEF LWW!Named
  <2>5. (IF "deleted" \in changed THEN del ELSE row.deleted) = deleted
    <3>1. del \in BOOLEAN
      OBVIOUS
    <3>2. CASE "deleted" \in named
      <4>1. deleted = del
        BY <1>1, <3>1, <3>2 DEF LWW!Named
      <4>2. CASE new["deleted"] = row["deleted"]
        <5>1. row.deleted = del
          BY <2>2, <4>2, Zenon
        <5>2. QED
          BY <2>3, <4>1, <4>2, <5>1
      <4>3. CASE new["deleted"] # row["deleted"]
        BY <2>3, <3>2, <4>1, <4>3
      <4>4. QED
        BY <4>2, <4>3
    <3>3. CASE "deleted" \notin named
      BY <1>1, <2>3, <3>3 DEF LWW!Named
    <3>4. QED
      BY <3>2, <3>3
  <2>6. QED
    BY <1>3, <1>4, <2>1, <2>4, <2>5, Zenon
<1>5. CASE ~ Exists(row)
  <2> DEFINE del == "deleted" \in op.fields /\ op.deleted
             p == Patched(row, InsertOf(op, op.id))
  <2>1. p = [title |-> op.title, deleted |-> del, updated_at |-> op.updated_at]
    BY Zenon DEF Patched, InsertOf, Field
  <2>2. op.action = "upsert" /\ "title" \in op.fields
    BY <1>1, <1>5 DEF Refused, RefusesDelete, RefusesUpsert
  <2>3. title = op.title
    BY <2>2 DEF LWW!Named
  <2>4. deleted = del
    <3>1. row.deleted = FALSE
      BY <1>1, <1>5
    <3>2. CASE "deleted" \in op.fields
      BY <1>1, <2>2, <3>2 DEF LWW!Named
    <3>3. CASE "deleted" \notin op.fields
      <4>1. deleted = row.deleted /\ del = FALSE
        BY <2>2, <3>3 DEF LWW!Named
      <4>2. QED
        BY <3>1, <4>1
    <3>4. QED
      BY <3>2, <3>3
  <2>5. QED
    BY <1>3, <1>5, <2>1, <2>3, <2>4, Zenon
<1>6. QED
  BY <1>4, <1>5

\* What one write does to the store.
LEMMA AfterIs ==
  ASSUME NEW rows \in [Kept -> Row], NEW op \in Operations
  PROVE  LWW!After(rows, op) =
            [t \in Kept |-> IF t = op.id THEN LWW!Written(rows[t], op) ELSE rows[t]]
BY DEF LWW!After

LEMMA SeenType ==
  ASSUME TypeOK, NEW s \in Sessions
  PROVE  Seen(s) \in [Kept -> Row] /\ Kept \subseteq TaskId
<1>1. Kept \subseteq TaskId
  BY DEF Kept, TaskId
<1>2. QED
  BY <1>1, ViewType DEF Seen

\* A session that has refused or flushed an operation is a stage further.
LEMMA StageFurther ==
  ASSUME StageInv, NEW s \in Sessions, pc[s] # "idle", todo[s] # <<>>,
         todo'[s] = Tail(todo[s]), batch'[s] = batch[s], committed' = committed,
         pc'[s] # "idle", Seen(s)' = LWW!After(Seen(s), Head(todo[s]))
  PROVE  AtItsStage(s)'
<1> DEFINE ops == batch[s]
           n == Done(s)
<1>1. ops \in Seq(Operations) /\ todo[s] \in Seq(Operations)
  BY DEF StageInv, TypeOK
<1>2. /\ ops \in Batches /\ n \in 0 .. Len(ops)
      /\ \A i \in 1 .. Len(todo[s]) : todo[s][i] = ops[n + i]
      /\ Seen(s) = LWW!Stages(Store, ops)[n]
  BY DEF StageInv, AtItsStage
<1> DEFINE all == Len(ops)
           left == Len(todo[s])
<1>3. left \in Nat \ {0} /\ all \in Nat /\ n = all - left
  BY <1>1 DEF Done
<1>4. Head(todo[s]) = ops[n + 1]
  <2>1. Head(todo[s]) = todo[s][1] /\ 1 \in 1 .. Len(todo[s])
    BY <1>1, <1>3
  <2>2. QED
    BY <1>2, <2>1
<1>5. /\ Len(Tail(todo[s])) = left - 1
      /\ \A i \in 1 .. left - 1 : Tail(todo[s])[i] = todo[s][i + 1]
  BY <1>1
<1>6. Done(s)' = n + 1
  <2>1. Done(s)' = all - (left - 1)
    BY <1>5 DEF Done
  <2> HIDE DEF all, left, n
  <2>2. QED
    BY <1>3, <2>1
<1>7. n + 1 \in 1 .. Len(ops)
  <2>1. n \in 0 .. all
    BY <1>2
  <2> HIDE DEF all, left, n
  <2>2. n + 1 \in 1 .. all
    BY <1>3, <2>1
  <2>3. QED
    BY <2>2 DEF all
<1>8. \A i \in 1 .. left - 1 : Tail(todo[s])[i] = ops[(n + 1) + i]
  <2> SUFFICES ASSUME NEW i \in 1 .. left - 1
               PROVE  Tail(todo[s])[i] = ops[(n + 1) + i]
    OBVIOUS
  <2>1. i + 1 \in 1 .. left /\ n + (i + 1) = (n + 1) + i
    <3> HIDE DEF all, left, n
    <3>1. QED
      BY <1>3
  <2>2. QED
    BY <1>2, <1>5, <2>1
<1> HIDE DEF n
<1>9. LWW!Stages(Store, ops)[n + 1] = LWW!After(LWW!Stages(Store, ops)[n], ops[n + 1])
  <2>1. (n + 1) - 1 = n
    BY <1>2
  <2>2. QED
    BY <1>1, <1>7, <2>1, StagesAre
<1>10. Seen(s)' = LWW!Stages(Store, ops)[n + 1]
  BY <1>2, <1>4, <1>9
<1>11. Store' = Store
  BY DEF Store
<1>12. \A i \in 1 .. Len(todo'[s]) : todo'[s][i] = ops[Done(s)' + i]
  BY <1>5, <1>6, <1>8
<1>13. Done(s)' \in 0 .. Len(ops)
  BY <1>6, <1>7
<1>14. Seen(s)' = LWW!Stages(Store', ops)[Done(s)']
  BY <1>6, <1>10, <1>11
<1>15. QED
  BY <1>2, <1>12, <1>13, <1>14 DEF AtItsStage

\* A session that does not get further in its batch stays at its stage.
LEMMA StageStays ==
  ASSUME NEW s \in Sessions, AtItsStage(s), pc[s] # "idle", pc'[s] # "idle",
         todo'[s] = todo[s], batch'[s] = batch[s],
         committed' = committed, own' = own
  PROVE  AtItsStage(s)'
<1>1. Store' = Store /\ Seen(s)' = Seen(s) /\ Done(s)' = Done(s)
  BY DEF Store, Seen, View, Holds, Done
<1>2. QED
  BY <1>1 DEF AtItsStage

LEMMA ClosedIsAtItsStage ==
  ASSUME TypeOK, NEW s \in Sessions, Close(s)
  PROVE  AtItsStage(s)' /\ FlushesItsOperation(s)' /\ pc'[s] = "idle"
BY DEF TypeOK, Close, AtItsStage, FlushesItsOperation

LEMMA SubmitKeepsStages ==
  ASSUME StageInv, NEW s \in Sessions, NEW ops \in Batches, Submit(s, ops)
  PROVE  AbsentIsLive' /\ AtItsStage(s)' /\ FlushesItsOperation(s)'
<1>1. /\ committed' = committed /\ own' = own
      /\ pc'[s] = "select" /\ batch'[s] = ops /\ todo'[s] = ops
  BY DEF Submit, database, StageInv, TypeOK
<1>2. ops \in Seq(Operations)
  BY BatchSyncAssumption DEF Batches
<1>3. own[s] = NoRows
  BY DEF Submit, StageInv, AtItsStage
<1>4. Seen(s)' = Store /\ Store' = Store
  BY <1>1, <1>3, AbsentType DEF Seen, Store, View, Holds, NoRows, Kept, TaskId
<1>5. Done(s)' = 0 /\ Len(ops) \in Nat
  BY <1>1, <1>2 DEF Done
<1>6. LWW!Stages(Store, ops)[0] = Store
  BY <1>2, StagesAre
<1>7. AtItsStage(s)'
  BY <1>1, <1>4, <1>5, <1>6 DEF AtItsStage
<1>8. QED
  BY <1>1, <1>7 DEF AbsentIsLive, FlushesItsOperation, StageInv

\* What a session reads of a row it does not refuse to look at.
LEMMA FoundIs ==
  ASSUME StageInv, NEW s \in Sessions, NEW op \in Operations
  PROVE  /\ Found(s, op.id) \in Row
         /\ ~ Exists(Found(s, op.id)) => ~ Found(s, op.id).deleted
         /\ op.id \in Kept => Found(s, op.id) = Seen(s)[op.id] /\ op.id # NoId
<1>1. op.id \in ClientId \cup {NoId}
  BY OperationType
<1>2. Found(s, op.id) \in Row
  BY <1>1, FoundType DEF StageInv
<1>3. ASSUME op.id \in Kept
      PROVE  /\ Found(s, op.id) = View(s, op.id) /\ Seen(s)[op.id] = View(s, op.id)
             /\ op.id \in TaskId /\ op.id # NoId
  BY <1>3, NoIdIsNoTask DEF Kept, Found, Seen, TaskId
<1>4. ASSUME ~ Exists(Found(s, op.id)) PROVE ~ Found(s, op.id).deleted
  <2>1. CASE op.id \in Kept
    <3>1. Found(s, op.id) = committed[op.id]
      BY <1>3, <1>4, <2>1 DEF View, Holds
    <3>2. QED
      BY <1>3, <1>4, <2>1, <3>1 DEF StageInv, AbsentIsLive
  <2>2. CASE op.id \notin Kept
    BY <2>2 DEF Found, Kept, Absent
  <2>3. QED
    BY <2>1, <2>2
<1>5. QED
  BY <1>2, <1>3, <1>4

LEMMA SelectKeepsStages ==
  ASSUME StageInv, NEW s \in Sessions, Select(s)
  PROVE  AbsentIsLive' /\ AtItsStage(s)' /\ FlushesItsOperation(s)'
<1> DEFINE op == Head(todo[s])
           row == Found(s, op.id)
<1>1. op \in Operations /\ op.id \in ClientId \cup {NoId}
  BY HeadTail, OperationType DEF Select, StageInv
<1>2. /\ committed' = committed /\ own' = own /\ batch'[s] = batch[s]
      /\ pc[s] = "select" /\ todo[s] # <<>>
  BY DEF Select, database
<1>3. AbsentIsLive'
  BY <1>2 DEF AbsentIsLive, StageInv
<1>4. CASE /\ Refused(row, op)
           /\ todo' = [todo EXCEPT ![s] = Tail(todo[s])]
           /\ UNCHANGED <<pc, change>>
  <2>1. todo'[s] = Tail(todo[s]) /\ pc'[s] = "select"
    BY <1>2, <1>4 DEF StageInv, TypeOK
  <2>2. Seen(s) \in [Kept -> Row]
    BY SeenType DEF StageInv
  <2>3. op.id \in Kept => LWW!Written(Seen(s)[op.id], op) = Seen(s)[op.id]
    BY <1>1, <1>4, FoundIs, RefusedIsNotWritten
  <2>4. LWW!After(Seen(s), op) = Seen(s)
    BY <1>1, <2>2, <2>3, AfterIs
  <2>5. Seen(s)' = Seen(s)
    BY <1>2 DEF Seen, View, Holds
  <2>6. AtItsStage(s)'
    BY <1>2, <2>1, <2>4, <2>5, StageFurther
  <2>7. QED
    BY <1>3, <2>1, <2>6 DEF FlushesItsOperation
<1>5. CASE /\ ~ Refused(row, op)
           /\ pc' = [pc EXCEPT ![s] = "flush"]
           /\ \/ /\ Exists(row)
                 /\ change' = [change EXCEPT ![s] = UpdateOf(op, row)]
              \/ /\ ~ Exists(row)
                 /\ \E t \in NewId(op) :
                       change' = [change EXCEPT ![s] = InsertOf(op, t)]
           /\ UNCHANGED todo
  <2>1. todo'[s] = todo[s] /\ pc'[s] = "flush"
    BY <1>5 DEF StageInv, TypeOK
  <2>2. AtItsStage(s)'
    BY <1>2, <2>1, StageStays DEF StageInv
  <2>3. Found(s, op.id)' = row
    BY <1>2, <2>1 DEF Found, View, Holds
  <2>4. IF Exists(row) THEN change'[s] = UpdateOf(op, row)
        ELSE \E t \in TaskId : /\ change'[s] = InsertOf(op, t)
                               /\ op.id = t \/ (op.id = NoId /\ t \in GeneratedId)
    <3>1. CASE Exists(row)
      BY <1>5, <3>1 DEF StageInv, TypeOK
    <3>2. CASE ~ Exists(row)
      <4>1. PICK t \in NewId(op) : change' = [change EXCEPT ![s] = InsertOf(op, t)]
        BY <1>5, <3>2
      <4>2. change'[s] = InsertOf(op, t)
        BY <4>1 DEF StageInv, TypeOK
      <4>3. QED
        BY <1>1, <3>2, <4>2, NewIdType
    <3>3. QED
      BY <3>1, <3>2
  <2>5. FlushesItsOperation(s)'
    <3>1. Head(todo'[s]) = op
      BY <2>1
    <3>2. QED
      BY <1>5, <2>3, <2>4, <3>1 DEF FlushesItsOperation
  <2>6. QED
    BY <1>3, <2>2, <2>5
<1>6. QED
  BY <1>4, <1>5 DEF Select

\* The rows a session sees after a flush are those a write leaves behind.
LEMMA FlushWrites ==
  ASSUME StageInv, NEW s \in Sessions, Flush(s)
  PROVE  Seen(s)' = LWW!After(Seen(s), Head(todo[s]))
<1> DEFINE op == Head(todo[s])
           row == Found(s, op.id)
           c == change[s]
<1>1. /\ pc[s] = "flush" /\ todo[s] # <<>> /\ ~ Throws(s, c)
      /\ own' = [own EXCEPT ![s][c.task] = Patched(View(s, c.task), c)]
      /\ committed' = committed
  BY DEF Flush, StageInv, TypeOK
<1>2. op \in Operations /\ op.id \in ClientId \cup {NoId}
      /\ op.updated_at \in Nat /\ op.updated_at > 0
  BY <1>1, HeadTail, OperationType DEF StageInv
<1>3. /\ row \in Row /\ (~ Exists(row) => ~ row.deleted)
      /\ op.id \in Kept => row = Seen(s)[op.id] /\ op.id # NoId
  BY <1>2, FoundIs
<1>4. /\ ~ Refused(row, op)
      /\ IF Exists(row) THEN c = UpdateOf(op, row)
         ELSE \E t \in TaskId : /\ c = InsertOf(op, t)
                                /\ op.id = t \/ (op.id = NoId /\ t \in GeneratedId)
  BY <1>1 DEF StageInv, FlushesItsOperation
<1>5. Exists(row) => op.id \in Kept
  BY AbsentType DEF Found, Kept
<1>6. c.task \in TaskId /\ c \in Change
  BY DEF StageInv, TypeOK, Change
<1>7. \A t \in Kept : t \in TaskId /\ Seen(s)[t] = View(s, t)
  BY SeenType DEF Seen, StageInv
<1>8. \A t \in Kept : t # c.task => View(s, t)' = Seen(s)[t]
  <2>1. \A t \in TaskId : t # c.task => own'[s][t] = own[s][t]
    BY <1>1, <1>6 DEF StageInv, TypeOK
  <2>2. QED
    BY <1>1, <1>7, <2>1 DEF View, Holds
<1>9. ASSUME NEW t \in Kept, t = op.id, c.task = t,
             c = IF Exists(row) THEN UpdateOf(op, row) ELSE InsertOf(op, op.id)
      PROVE  View(s, t)' = LWW!Written(Seen(s)[t], op)
  <2>1. own'[s][t] = Patched(View(s, t), c)
    BY <1>1, <1>6, <1>9 DEF StageInv, TypeOK
  <2>2. View(s, t) = row
    BY <1>3, <1>7, <1>9
  <2>3. Patched(row, c) = LWW!Written(row, op)
    BY <1>2, <1>3, <1>4, <1>9, FlushedIsWritten
  <2>4. c.row.updated_at = op.updated_at
    BY <1>2, <1>3, <1>6, <1>9, UpdateOfType, InsertOfType
  <2>5. Exists(Patched(row, c))
    <3>1. Patched(row, c).updated_at = op.updated_at
      BY <1>3, <1>6, <2>4, PatchedType
    <3>2. QED
      BY <1>2, <3>1 DEF Exists
  <2>6. View(s, t)' = Patched(row, c)
    BY <2>1, <2>2, <2>5 DEF View, Holds
  <2>7. QED
    BY <1>3, <1>9, <2>3, <2>6
<1>10. \/ /\ c.task = op.id /\ op.id \in Kept
          /\ c = IF Exists(row) THEN UpdateOf(op, row) ELSE InsertOf(op, op.id)
       \/ op.id \notin Kept /\ c.task \notin Kept
  <2>1. CASE Exists(row)
    <3>1. c = UpdateOf(op, row) /\ op.id \in Kept /\ op.id \in TaskId
      BY <1>4, <1>5, <1>7, <2>1
    <3>2. QED
      BY <1>2, <1>3, <2>1, <3>1, UpdateOfType
  <2>2. CASE ~ Exists(row)
    <3>1. PICK t \in TaskId : /\ c = InsertOf(op, t)
                              /\ op.id = t \/ (op.id = NoId /\ t \in GeneratedId)
      BY <1>4, <2>2
    <3>2. c.task = t /\ c.insert
      BY <1>2, <3>1, InsertOfType
    <3>3. CASE op.id = t
      <4>1. t \in ClientId /\ t \notin Foreign
        BY <1>1, <1>2, <3>2, <3>3, NoIdIsNoTask DEF Throws
      <4>2. QED
        BY <2>2, <3>1, <3>2, <3>3, <4>1 DEF Kept
    <3>4. CASE op.id = NoId /\ t \in GeneratedId
      BY <3>2, <3>4, BatchSyncAssumption DEF Kept, TaskId
    <3>5. QED
      BY <3>1, <3>3, <3>4
  <2>3. QED
    BY <2>1, <2>2
<1>11. \A t \in Kept : View(s, t)' = IF t = op.id THEN LWW!Written(Seen(s)[t], op)
                                     ELSE Seen(s)[t]
  BY <1>8, <1>9, <1>10
<1>12. Seen(s)' = [t \in Kept |-> IF t = op.id THEN LWW!Written(Seen(s)[t], op)
                                  ELSE Seen(s)[t]]
  BY <1>11 DEF Seen
<1>13. QED
  BY <1>2, <1>12, AfterIs, SeenType DEF StageInv

LEMMA FlushKeepsStages ==
  ASSUME StageInv, NEW s \in Sessions, Flush(s)
  PROVE  AbsentIsLive' /\ AtItsStage(s)' /\ FlushesItsOperation(s)'
<1>1. /\ committed' = committed /\ batch'[s] = batch[s]
      /\ pc[s] = "flush" /\ pc'[s] = "select"
      /\ todo[s] # <<>> /\ todo'[s] = Tail(todo[s])
  BY DEF Flush, StageInv, TypeOK
<1>2. AtItsStage(s)'
  BY <1>1, FlushWrites, StageFurther
<1>3. QED
  BY <1>1, <1>2 DEF AbsentIsLive, FlushesItsOperation, StageInv

\* A commit applies the batch to the store.
LEMMA CommitAppliesTheBatch ==
  ASSUME StageInv, NEW s \in Sessions, Commit(s)
  PROVE  /\ AbsentIsLive' /\ AtItsStage(s)' /\ FlushesItsOperation(s)'
         /\ batch[s] \in Batches
         /\ Store' = LWW!Stages(Store, batch[s])[Len(batch[s])]
<1>1. /\ pc[s] = "select" /\ todo[s] = <<>> /\ Close(s)
      /\ committed' = [t \in TaskId |-> View(s, t)]
  BY DEF Commit
<1>2. AbsentIsLive'
  <2> SUFFICES ASSUME NEW t \in TaskId, ~ Exists(View(s, t))
               PROVE  ~ View(s, t).deleted
    BY <1>1 DEF AbsentIsLive
  <2>1. View(s, t) = committed[t]
    BY DEF View, Holds
  <2>2. QED
    BY <2>1 DEF StageInv, AbsentIsLive
<1>3. Store' = Seen(s)
  BY <1>1, SeenType DEF Store, Seen, StageInv
<1>4. batch[s] \in Batches /\ Seen(s) = LWW!Stages(Store, batch[s])[Done(s)]
  BY <1>1 DEF StageInv, AtItsStage
<1>5. Done(s) = Len(batch[s])
  <2>1. batch[s] \in Seq(Operations)
    BY DEF StageInv, TypeOK
  <2>2. QED
    BY <1>1, <2>1 DEF Done
<1>6. QED
  BY <1>1, <1>2, <1>3, <1>4, <1>5, ClosedIsAtItsStage DEF StageInv

LEMMA StageInit == Init => StageInv
<1> SUFFICES ASSUME Init PROVE StageInv
  OBVIOUS
<1>1. AbsentIsLive
  BY DEF Init, AbsentIsLive, NoRows, Absent
<1>2. \A s \in Sessions : AtItsStage(s) /\ FlushesItsOperation(s)
  BY DEF Init, AtItsStage, FlushesItsOperation
<1>3. QED
  BY <1>1, <1>2, TypeInit DEF StageInv

LEMMA StageNext ==
  ASSUME OneAtATime, StageInv, [Next]_vars
  PROVE  StageInv' /\ [LWW!Next]_Store
<1>1. TypeOK'
  BY TypeNext DEF StageInv
<1>2. ASSUME NEW s \in Sessions, AbsentIsLive' /\ AtItsStage(s)' /\ FlushesItsOperation(s)'
      PROVE  StageInv'
  BY <1>1, <1>2 DEF StageInv, OneAtATime
<1>3. ASSUME committed' = committed PROVE Store' = Store /\ AbsentIsLive'
  BY <1>3 DEF Store, StageInv, AbsentIsLive
<1>4. ASSUME NEW s \in Sessions, NEW ops \in Batches, Submit(s, ops)
      PROVE  StageInv' /\ [LWW!Next]_Store
  BY <1>2, <1>3, <1>4, SubmitKeepsStages DEF Submit, database
<1>5. ASSUME NEW s \in Sessions, Select(s)
      PROVE  StageInv' /\ [LWW!Next]_Store
  BY <1>2, <1>3, <1>5, SelectKeepsStages DEF Select, database
<1>6. ASSUME NEW s \in Sessions, Flush(s)
      PROVE  StageInv' /\ [LWW!Next]_Store
  BY <1>2, <1>3, <1>6, FlushKeepsStages DEF Flush
<1>7. ASSUME NEW s \in Sessions, FlushThrows(s) \/ DeadlockAborts(s) \/ Abort(s)
      PROVE  StageInv' /\ [LWW!Next]_Store
  <2>1. Close(s) /\ committed' = committed
    BY <1>7 DEF FlushThrows, DeadlockAborts, Abort
  <2>2. QED
    BY <1>2, <1>3, <2>1, ClosedIsAtItsStage DEF StageInv
<1>8. ASSUME NEW s \in Sessions, Commit(s)
      PROVE  StageInv' /\ [LWW!Next]_Store
  <2>1. batch[s] \in LWW!Batches
    BY <1>8, CommitAppliesTheBatch DEF Batches, LWW!Batches
  <2>2. Store' = LWW!Stages(Store, batch[s])[Len(batch[s])]
    BY <1>8, CommitAppliesTheBatch
  <2>3. LWW!Next
    BY <2>1, <2>2 DEF LWW!Next, LWW!ApplyBatch, Store
  <2>4. StageInv'
    BY <1>2, <1>8, CommitAppliesTheBatch
  <2>5. QED
    BY <2>3, <2>4
<1>9. ASSUME UNCHANGED vars
      PROVE  StageInv' /\ [LWW!Next]_Store
  <2>1. Store' = Store
    BY <1>3, <1>9 DEF vars, database
  <2>2. /\ committed' = committed /\ own' = own /\ pc' = pc /\ batch' = batch
        /\ todo' = todo /\ change' = change
    BY <1>9 DEF vars, database, session
  <2>3. ASSUME NEW s \in Sessions PROVE AtItsStage(s)' /\ FlushesItsOperation(s)'
    <3>1. AtItsStage(s)'
      <4>1. CASE pc[s] = "idle"
        BY <2>2, <4>1 DEF StageInv, AtItsStage
      <4>2. CASE pc[s] # "idle"
        BY <2>2, <4>2, StageStays DEF StageInv
      <4>3. QED
        BY <4>1, <4>2
    <3>2. Found(s, Head(todo[s]).id)' = Found(s, Head(todo[s]).id)
      BY <2>2 DEF Found, View, Holds
    <3>3. FlushesItsOperation(s)'
      BY <2>2, <3>2 DEF StageInv, FlushesItsOperation
    <3>4. QED
      BY <3>1, <3>3
  <2>4. QED
    BY <1>1, <1>3, <2>1, <2>2, <2>3 DEF StageInv
<1>10. QED
  BY <1>4, <1>5, <1>6, <1>7, <1>8, <1>9 DEF Next, Step

\* Batch sync with one batch open at a time is a store in which the newest
\* write wins and a batch is applied at once: process_batch_operations reads
\* and flushes operation by operation, may throw or be lost half-way, and is
\* sent again, but every commit is what the writes of one batch, in order,
\* make of the rows, and nothing else changes them.
THEOREM OneAtATimeLastWriteWins == ASSUME OneAtATime PROVE Spec => LastWriteWinsSpec
<1>1. Init => LWW!Init
  BY SeenType DEF Init, LWW!Init, NoRows, Absent, LWW!Absent, LWW!Null, Null, Kept, TaskId
<1>2. StageInv /\ [Next]_vars => StageInv' /\ [LWW!Next]_Store
  BY StageNext
<1>3. QED
  BY <1>1, <1>2, StageInit, PTL DEF Spec, LastWriteWinsSpec, LWW!Spec, Store
============================================================================
