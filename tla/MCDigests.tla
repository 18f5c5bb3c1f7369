------------------------------ MODULE MCDigests ------------------------------
(* Small instances of Digests.                                             *)
EXTENDS Digests, TLC

CONSTANTS w1, w2, daily, weekly, d1, d2, d3

\* A "week" of two days.
Periods == daily :> 1 @@ weekly :> 2

Dev(owner, platform, token, enabled) ==
    [owner |-> owner, platform |-> platform, token |-> token, enabled |-> enabled]

SmallSetups ==
    {d1 :> Dev(daily, "android", "long", TRUE)
        @@ d2 :> Dev(weekly, "ios", "long", TRUE)
        @@ d3 :> Dev(weekly, "web", "empty", TRUE),
     d1 :> Dev(daily, "android", "short", TRUE)
        @@ d2 :> Dev(weekly, "desktop", "long", TRUE)
        @@ d3 :> Dev(daily, "ios", "empty", FALSE)}

\* Both due from the first send hour on, or one not at all.
SmallStarts == {daily :> 1 @@ weekly :> 1, daily :> 0 @@ weekly :> None}
==============================================================================
