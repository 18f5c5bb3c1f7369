--------------------------- MODULE LastWriteWins ---------------------------
(***************************************************************************)
(* What batch sync promises: a store of task rows to which batches of      *)
(* writes are applied, one batch at a time, and in which the write with    *)
(* the newest time stamp of a row wins.                                    *)
(*                                                                         *)
(* A write is an operation of BatchSyncRequest.  Only some of the fields   *)
(* of a row may be named by an upsert; those it does not name keep their   *)
(* value.  A delete marks the row; a delete of a row that does not exist   *)
(* leaves no trace.                                                        *)
(***************************************************************************)
EXTENDS Naturals, Sequences

CONSTANTS
    TaskId,        \* the ids whose rows are kept
    Operations,    \* the writes clients may send
    MaxOps         \* bound on the writes in one batch

VARIABLE store

Null == "null"

\* A row that does not exist: time stamps of rows and writes are positive.
Absent == [title |-> Null, deleted |-> FALSE, updated_at |-> 0]
Exists(row) == row.updated_at > 0

Batches == UNION {[1 .. n -> Operations] : n \in 1 .. MaxOps}

\* Whether the write is worth looking at for a row in this state.
WellFormed(row, op) ==
    \/ /\ op.action = "delete"
       /\ Exists(row)
    \/ /\ op.action = "upsert"
       /\ op.form = "ok"
       /\ Exists(row) \/ ("title" \in op.fields /\ op.title # Null)

\* The fields a write names; the data of a delete is not looked at.
Named(op) == IF op.action = "delete" THEN {} ELSE op.fields

\* The row after one write: the newest wins.
Written(row, op) ==
    IF ~ WellFormed(row, op) \/ op.updated_at <= row.updated_at THEN row
    ELSE [title      |-> IF "title" \in Named(op) THEN op.title ELSE row.title,
          deleted    |-> IF op.action = "delete" THEN TRUE
                         ELSE IF "deleted" \in Named(op) THEN op.deleted
                         ELSE row.deleted,
          updated_at |-> op.updated_at]

After(rows, op) ==
    IF op.id \in TaskId THEN [rows EXCEPT ![op.id] = Written(rows[op.id], op)]
                        ELSE rows

Init == store = [t \in TaskId |-> Absent]

\* The rows after none, one, ... all of the writes of a batch.
Stages(rows, ops) ==
    LET stage[n \in 0 .. Len(ops)] ==
            IF n = 0 THEN rows ELSE After(stage[n - 1], ops[n])
    IN  stage

ApplyBatch(ops) == store' = Stages(store, ops)[Len(ops)]

Next == \E ops \in Batches : ApplyBatch(ops)

Spec == Init /\ [][Next]_store
=============================================================================
