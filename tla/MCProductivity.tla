--------------------------- MODULE MCProductivity ---------------------------
(* Small instances of Productivity.                                        *)
EXTENDS Productivity, TLC

CONSTANTS r1, r2, a, b

At(state, x, y) == [state |-> state, cols |-> [x |-> x, y |-> y], stamp |-> 0]

\* One row that is there and one that may be created; the inbox note is new; AI
\* rules that are there, still to be stored, or marked deleted.
SmallStores ==
    [table : Tables \ {"inbox_items"},
     rows : {a :> At("live", 0, 2) @@ b :> At("absent", 0, 0)}]
    \cup {[table |-> "inbox_items",
           rows |-> a :> At("live", Null, 0) @@ b :> At("absent", 0, 0)],
          [table |-> "ai_user_rules",
           rows |-> a :> At("absent", 0, 0) @@ b :> At("absent", 0, 0)],
          [table |-> "ai_user_rules",
           rows |-> a :> At("deleted", 0, 2) @@ b :> At("absent", 0, 0)]}

SmallBodies ==
    {[x |-> 1, y |-> Unset], [x |-> Unset, y |-> 1], [x |-> Unset, y |-> 2],
     [x |-> 0, y |-> 1], [x |-> 2, y |-> 2], [x |-> Unset, y |-> Null]}

User(pro, start, end) ==
    [is_pro |-> pro, trial_started_at |-> start, trial_ends_at |-> end, created_at |-> 0]

\* On trial since the signup, from before there were trials, and Pro.
SmallUsers == {User(FALSE, 0, 2), User(FALSE, None, None), User(TRUE, 0, 1)}
=============================================================================
