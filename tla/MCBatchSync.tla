---------------------------- MODULE MCBatchSync ----------------------------
(* Small instances of BatchSync.                                           *)
EXTENDS BatchSync, TLC

CONSTANTS s1, s2, t1, t2, theirs, g1

upsert(id, fields, title, deleted, at) ==
    [action |-> "upsert", id |-> id, form |-> "ok", fields |-> fields,
     title |-> title, deleted |-> deleted, updated_at |-> at]
delete(id, at) ==
    [action |-> "delete", id |-> id, form |-> "ok", fields |-> {},
     title |-> Null, deleted |-> FALSE, updated_at |-> at]

MCTitle == {"a", "b", "c"}

\* Edits of one task at increasing times, one of them partial, one that
\* throws, and a second task the batches may lock in either order.
Edits ==
    {upsert(t1, {"title"}, "a", FALSE, 1),
     upsert(t1, {"title"}, Null, FALSE, 2),
     delete(t1, 2),
     upsert(t1, {"deleted"}, Null, FALSE, 3),
     upsert(t2, {"title"}, "b", FALSE, 1)}

\* The refused and failing ones as well: no data, a null title, a delete with
\* data, a row of another user, no id.
OddEdits ==
    {upsert(t1, {"title"}, "a", FALSE, 1),
     [upsert(t1, {}, Null, FALSE, 2) EXCEPT !.form = "missing"],
     [upsert(t1, {"title"}, "b", FALSE, 2) EXCEPT !.form = "badstatus"],
     upsert(t1, {"title"}, Null, FALSE, 2),
     upsert(t1, {"title", "deleted"}, "c", FALSE, 2),
     [delete(t1, 2) EXCEPT !.fields = {"title"}, !.title = "b"],
     upsert(theirs, {"title"}, "b", FALSE, 1),
     delete(theirs, 1),
     delete(NoId, 1),
     upsert(NoId, {"title"}, "b", FALSE, 1)}
============================================================================
