---------------------------- MODULE MCSyncQueue ----------------------------
(* Small instances of SyncQueue.                                           *)
EXTENDS SyncQueue, TLC

CONSTANTS w1, w2, o1, o2, o3

\* Every kind of operation, next to one that is fine.
Mixed ==
    {o1 :> "applies" @@ o2 :> "refused" @@ o3 :> "throws",
     o1 :> "applies" @@ o2 :> "applies" @@ o3 :> "throws",
     o1 :> "applies" @@ o2 :> "throws" @@ o3 :> "breaks"}
============================================================================
