----------------------------- MODULE MCTasksApi -----------------------------
(* Small instances of TasksApi.                                            *)
EXTENDS TasksApi, TLC

CONSTANTS r1, r2, a, b, c, k1, k2, x, y

Order == a :> 1 @@ b :> 2 @@ c :> 3
Attribute == a :> x @@ b :> y @@ c :> x

Keyings == {r1 :> k1 @@ r2 :> k1, r1 :> k1 @@ r2 :> k2, r1 :> k2 @@ r2 :> k1}

\* The requests are alike: Keyings holds each choice of keys with r1 and r2 swapped.
Alike == Permutations({r1, r2})

At(state, stamp) == [state |-> state, stamp |-> stamp]

\* All different; two alike and one that is still to be created.
Contents ==
    {a :> At("live", 1) @@ b :> At("live", 2) @@ c :> At("live", 0),
     a :> At("live", 1) @@ b :> At("live", 1) @@ c :> At("absent", 0)}

SmallStores == [table : Tables, rows : Contents]

SmallFilters ==
    {[limit |-> 1, attribute |-> None, since |-> 0],
     [limit |-> 2, attribute |-> x, since |-> 1]}
=============================================================================
