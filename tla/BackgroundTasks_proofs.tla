---------------------- MODULE BackgroundTasks_proofs ----------------------
(***************************************************************************)
(* Proofs about the two passes of background_tasks.py: process_sync_queue  *)
(* (SyncQueue), for any number of overlapping passes, operations and       *)
(* failures and any payloads, and dispatch_digests (Digests), for any      *)
(* number of overlapping passes, schedules and devices.                    *)
(***************************************************************************)
EXTENDS SyncQueue, Digests, FiniteSetTheorems, TLAPS

---------------------------------------------------------------------------
(* Type correctness *)

LEMMA FreshType == [r \in Operation |-> Fresh] \in [Operation -> SyncOperation]
BY DEF Fresh, SyncOperation

LEMMA AgedType ==
  ASSUME NEW row \in SyncOperation
  PROVE  Aged(row) \in SyncOperation /\ Aged(row).locked = row.locked
<1>1. row.locked \in BOOLEAN /\ FALSE \in BOOLEAN
  BY DEF SyncOperation
<1>2. row.status \in {"pending", "done", "error"} /\ row.attempts \in Nat
  BY DEF SyncOperation
<1>3. Aged(row) \in SyncOperation
  BY <1>1, <1>2, Zenon DEF SyncOperation, Aged
<1>4. Aged(row).locked = row.locked
  BY Zenon DEF Aged
<1>5. QED
  BY <1>3, <1>4

LEMMA LeaveType ==
  ASSUME TypeOK, NEW w \in Workers, Leave(w)
  PROVE  /\ pc' \in [Workers -> {"idle", "take", "run"}]
         /\ ops' \in [Workers -> Seq(Operation)]
         /\ loaded' \in [Workers -> [Operation -> SyncOperation]]
         /\ held' \in [Workers -> SUBSET Operation]
         /\ locked' \in [Workers -> SUBSET Operation]
         /\ recent' \in [Workers -> SUBSET Operation]
         /\ result' \in [Workers -> [Operation -> {"none", "done", "error"}]]
         /\ \A u \in Workers : pc'[u] = "run" => ops'[u] # <<>>
<1>1. <<>> \in Seq(Operation)
  OBVIOUS
<1>2. NoResult \in [Operation -> {"none", "done", "error"}]
  BY DEF NoResult
<1>3. QED
  BY <1>1, <1>2, FreshType DEF Leave, TypeOK

LEMMA SavedType ==
  ASSUME TypeOK, NEW w \in Workers, NEW r \in held[w],
         result[w][r] \in {"done", "error"}
  PROVE  Saved(w, r) \in SyncOperation
<1>1. r \in Operation
  BY DEF TypeOK
<1>2. loaded[w][r] \in SyncOperation /\ queue[r] \in SyncOperation
  BY <1>1 DEF TypeOK
<1>3. OneMore(loaded[w][r].attempts) \in Nat
  BY <1>2 DEF SyncOperation, OneMore
<1>4. (r \in locked[w]) \in BOOLEAN /\ (r \in recent[w]) \in BOOLEAN
  OBVIOUS
<1>5. (IF result[w][r] # loaded[w][r].status THEN result[w][r] ELSE queue[r].status)
         \in {"pending", "done", "error"}
  BY <1>2 DEF SyncOperation
<1>6. QED
  BY <1>3, <1>4, <1>5 DEF Saved, SyncOperation

(* What a pass holds and has not given a status is what it works on.       *)
Progress ==
  \A w \in Workers :
     /\ pc[w] = "run" => \A r \in held[w] : r = Head(ops[w]) \/ result[w][r] # "none"
     /\ pc[w] # "run" => \A r \in held[w] : result[w][r] # "none"

TInv == TypeOK /\ Progress

LEMMA TInvInit == Init => TInv
<1> SUFFICES ASSUME Init PROVE TInv
  OBVIOUS
<1>1. <<>> \in Seq(Operation)
  OBVIOUS
<1>2. crashes \in 0 .. MaxCrashes
  BY SyncQueueAssumption DEF Init
<1>3. NoResult \in [Operation -> {"none", "done", "error"}]
  BY DEF NoResult
<1>4. TypeOK
  BY <1>1, <1>2, <1>3, FreshType, SyncQueueAssumption DEF Init, TypeOK
<1>5. Progress
  BY DEF Init, Progress
<1>6. QED
  BY <1>4, <1>5 DEF TInv

LEMMA TInvNext == TInv /\ [Next]_vars => TInv'
<1> SUFFICES ASSUME TInv, [Next]_vars PROVE TInv'
  OBVIOUS
<1> USE DEF TInv
<1>1. CASE Tick
  <2>1. \A r \in Operation : Aged(queue[r]) \in SyncOperation
    BY AgedType DEF TypeOK
  <2>2. TypeOK'
    BY <1>1, <2>1 DEF Tick, TypeOK, history
  <2>3. Progress'
    BY <1>1 DEF Tick, Progress
  <2>4. QED
    BY <2>2, <2>3
<1>2. ASSUME NEW w \in Workers, Begin(w) PROVE TInv'
  <2>1. PICK selection \in Selections :
           /\ ops' = [ops EXCEPT ![w] = selection]
           /\ selection # <<>>
    BY <1>2 DEF Begin
  <2>2. selection \in Seq(Operation)
    <3> DEFINE due == {r \in Operation : Waiting(r)}
               size == IF Cardinality(due) < BatchSize THEN Cardinality(due)
                       ELSE BatchSize
    <3>1. IsFiniteSet(due)
      BY SyncQueueAssumption, FS_Subset
    <3>2. size \in Nat
      BY <3>1, FS_CardinalityType, SyncQueueAssumption
    <3>3. selection \in [1 .. size -> due]
      BY DEF Selections
    <3> HIDE DEF size
    <3>4. QED
      BY <3>2, <3>3
  <2>3. ops' \in [Workers -> Seq(Operation)]
    BY <2>1, <2>2 DEF TypeOK
  <2>4. overlapped' \subseteq Operation
    BY <1>2 DEF Begin, TypeOK
  <2>5. /\ pc' \in [Workers -> {"idle", "take", "run"}]
        /\ loaded' \in [Workers -> [Operation -> SyncOperation]]
    BY <1>2 DEF Begin, TypeOK
  <2>6. \A u \in Workers : pc'[u] = "run" => ops'[u] # <<>>
    BY <1>2, <2>1 DEF Begin, TypeOK
  <2>7. TypeOK'
    BY <1>2, <2>3, <2>4, <2>5, <2>6 DEF Begin, TypeOK
  <2>8. Progress'
    BY <1>2, <2>1 DEF Begin, Progress, TypeOK
  <2>9. QED
    BY <2>7, <2>8
<1>3. ASSUME NEW w \in Workers, Take(w) PROVE TInv'
  <2>1. Head(ops[w]) \in Operation
    BY <1>3 DEF Take, TypeOK
  <2>2. TypeOK'
    BY <1>3, <2>1 DEF Take, TypeOK, history
  <2>3. Progress'
    BY <1>3 DEF Take, Progress, TypeOK
  <2>4. QED
    BY <2>2, <2>3
<1>4. ASSUME NEW w \in Workers, Run(w) PROVE TInv'
  <2> DEFINE r == Head(ops[w])
  <2>1. r \in Operation /\ Tail(ops[w]) \in Seq(Operation)
    BY <1>4 DEF Run, TypeOK
  <2>2. StatusAfter(r) \in {"done", "error"}
    BY DEF StatusAfter
  <2>3. result' = [result EXCEPT ![w][r] = StatusAfter(r)]
    BY <1>4 DEF Run, Finish
  <2>4. result' \in [Workers -> [Operation -> {"none", "done", "error"}]]
    BY <2>1, <2>2, <2>3 DEF TypeOK
  <2>5. /\ locked' \in [Workers -> SUBSET Operation]
        /\ recent' \in [Workers -> SUBSET Operation]
        /\ ops' \in [Workers -> Seq(Operation)]
        /\ pc' \in [Workers -> {"idle", "take", "run"}]
    BY <1>4, <2>1 DEF Run, Finish, TypeOK
  <2>6. \A u \in Workers : pc'[u] = "run" => ops'[u] # <<>>
    BY <1>4 DEF Run, TypeOK
  <2>7. TypeOK'
    BY <1>4, <2>4, <2>5, <2>6 DEF Run, TypeOK, history
  <2>8. \A q \in held[w] : result'[w][q] # "none"
    BY <1>4, <2>1, <2>2, <2>3 DEF Run, Progress, TypeOK
  <2>9. \A u \in Workers \ {w} : result'[u] = result[u] /\ pc'[u] = pc[u] /\ ops'[u] = ops[u]
    BY <1>4, <2>3 DEF Run, TypeOK
  <2>10. held' = held /\ pc'[w] = "take"
    BY <1>4 DEF Run, TypeOK
  <2>11. Progress'
    BY <2>8, <2>9, <2>10 DEF Progress
  <2>12. QED
    BY <2>7, <2>11
<1>5. ASSUME NEW w \in Workers, Leave(w), UNCHANGED <<outcome, scheduled>>,
             queue' \in [Operation -> SyncOperation], crashes' \in 0 .. MaxCrashes,
             runs' \in [Operation -> Nat], overlapped' \subseteq Operation
      PROVE  TInv'
  <2>1. TypeOK'
    BY <1>5, LeaveType DEF TypeOK
  <2>2. Progress'
    BY <1>5 DEF Leave, Progress, TypeOK
  <2>3. QED
    BY <2>1, <2>2
<1>6. ASSUME NEW w \in Workers, Commit(w) PROVE TInv'
  <2>1. \A r \in held[w] : result[w][r] \in {"done", "error"}
    BY <1>6 DEF Commit, Progress, TypeOK
  <2>2. queue' \in [Operation -> SyncOperation]
    BY <1>6, <2>1, SavedType DEF Commit, TypeOK
  <2>3. runs' \in [Operation -> Nat]
    BY <1>6 DEF Commit, TypeOK, OneMore
  <2>4. /\ Leave(w) /\ outcome' = outcome /\ scheduled' = scheduled
        /\ crashes' = crashes /\ overlapped' = overlapped
    BY <1>6 DEF Commit
  <2>5. crashes' \in 0 .. MaxCrashes /\ overlapped' \subseteq Operation
    BY <2>4 DEF TypeOK
  <2>6. QED
    BY <1>5, <2>2, <2>3, <2>4, <2>5
<1>7. ASSUME NEW w \in Workers, Breaks(w) \/ DeadlockAborts(w) \/ Crash(w) PROVE TInv'
  <2>1. crashes' \in 0 .. MaxCrashes
    <3>1. \/ crashes' = crashes
          \/ crashes < MaxCrashes /\ crashes' = crashes + 1
      BY <1>7, Zenon DEF Breaks, DeadlockAborts, Crash
    <3>2. crashes \in 0 .. MaxCrashes /\ MaxCrashes \in Nat
      BY SyncQueueAssumption DEF TypeOK
    <3>3. QED
      BY <3>1, <3>2
  <2>2. Leave(w) /\ UNCHANGED <<outcome, queue, scheduled, history>>
    BY <1>7 DEF Breaks, DeadlockAborts, Crash
  <2>3. QED
    BY <1>5, <2>1, <2>2 DEF TypeOK, history
<1>8. CASE UNCHANGED vars
  <2>1. TypeOK'
    BY <1>8 DEF TypeOK, vars, pass, history
  <2>2. Progress'
    BY <1>8 DEF Progress, vars, pass, history
  <2>3. QED
    BY <2>1, <2>2
<1>9. CASE ComesDue
  <2>1. TypeOK'
    BY <1>9 DEF ComesDue, TypeOK, pass, history
  <2>2. Progress'
    BY <1>9 DEF ComesDue, Progress, pass
  <2>3. QED
    BY <2>1, <2>2
<1>10. QED
  BY <1>1, <1>2, <1>3, <1>4, <1>6, <1>7, <1>8, <1>9 DEF Next, Step

\* Every variable keeps its type, for any number of overlapping passes.
THEOREM TypeCorrect == Spec => []TypeOK
<1>1. TInv => TypeOK
  BY DEF TInv
<1>2. QED
  BY TInvInit, TInvNext, <1>1, PTL DEF Spec

---------------------------------------------------------------------------
(* No row stays locked.  Within a pass only the operation being run has    *)
(* its attribute set, so none has when the pass commits.                   *)

OnlyTheCurrentOne ==
  \A w \in Workers :
     /\ pc[w] = "run" => locked[w] \subseteq {Head(ops[w])}
     /\ pc[w] # "run" => locked[w] = {}

LInv == TInv /\ NoRowStaysLocked /\ OnlyTheCurrentOne

LEMMA LInvInit == Init => LInv
<1> SUFFICES ASSUME Init PROVE LInv
  OBVIOUS
<1>1. NoRowStaysLocked
  BY DEF Init, NoRowStaysLocked, Fresh
<1>2. OnlyTheCurrentOne
  BY DEF Init, OnlyTheCurrentOne
<1>3. QED
  BY <1>1, <1>2, TInvInit DEF LInv

LEMMA LInvNext == LInv /\ [Next]_vars => LInv'
<1> SUFFICES ASSUME LInv, [Next]_vars PROVE LInv'
  OBVIOUS
<1> USE DEF LInv, TInv
<1>1. TInv'
  BY TInvNext
<1>2. CASE Tick
  <2>1. NoRowStaysLocked'
    BY <1>2, AgedType DEF Tick, NoRowStaysLocked, TypeOK
  <2>2. OnlyTheCurrentOne'
    BY <1>2 DEF Tick, OnlyTheCurrentOne
  <2>3. QED
    BY <1>1, <2>1, <2>2
<1>3. ASSUME NEW w \in Workers, Begin(w) \/ Take(w) \/ Run(w) PROVE LInv'
  <2>1. queue' = queue
    BY <1>3 DEF Begin, Take, Run
  <2>2. NoRowStaysLocked'
    BY <2>1 DEF NoRowStaysLocked
  <2>3. OnlyTheCurrentOne'
    BY <1>3 DEF Begin, Take, Run, Finish, OnlyTheCurrentOne, TypeOK
  <2>4. QED
    BY <1>1, <2>2, <2>3
<1>4. ASSUME NEW w \in Workers, Leave(w) PROVE OnlyTheCurrentOne'
  BY <1>4 DEF Leave, OnlyTheCurrentOne, TypeOK
<1>5. ASSUME NEW w \in Workers, Commit(w) PROVE LInv'
  <2>1. locked[w] = {}
    BY <1>5 DEF Commit, OnlyTheCurrentOne
  <2>2. \A r \in held[w] : ~ Saved(w, r).locked
    BY <2>1 DEF Saved
  <2>3. NoRowStaysLocked'
    BY <1>5, <2>2 DEF Commit, NoRowStaysLocked
  <2>4. QED
    BY <1>1, <1>4, <1>5, <2>3 DEF Commit
<1>6. ASSUME NEW w \in Workers, Breaks(w) \/ DeadlockAborts(w) \/ Crash(w) PROVE LInv'
  <2>1. Leave(w) /\ queue' = queue
    BY <1>6 DEF Breaks, DeadlockAborts, Crash
  <2>2. NoRowStaysLocked'
    BY <2>1 DEF NoRowStaysLocked
  <2>3. QED
    BY <1>1, <1>4, <2>1, <2>2
<1>7. CASE ComesDue \/ UNCHANGED vars
  BY <1>1, <1>7 DEF ComesDue, vars, pass, NoRowStaysLocked, OnlyTheCurrentOne
<1>8. QED
  BY <1>2, <1>3, <1>5, <1>6, <1>7 DEF Next, Step

\* No row is ever left locked in the table, whatever passes overlap or fail.
THEOREM NoRowLeftLocked == Spec => []NoRowStaysLocked
<1>1. LInv => NoRowStaysLocked
  BY DEF LInv
<1>2. QED
  BY LInvInit, LInvNext, <1>1, PTL DEF Spec

---------------------------------------------------------------------------
(* Attempts are counted.  While an operation is with a single pass, what   *)
(* that pass loaded is what the table holds, so the count it writes is the *)
(* next one; and a row that was carried out without an exception is done,  *)
(* so no pass selects it again.                                            *)

Exclusive ==
  \A r \in Operation \ overlapped : \A u, w \in Workers :
     r \in Selected(u) /\ r \in Selected(w) => u = w

LoadedIsCurrent ==
  \A w \in Workers : \A r \in Selected(w) \ overlapped :
     /\ loaded[w][r].attempts = queue[r].attempts
     /\ loaded[w][r].status = queue[r].status
     /\ queue[r].status # "done"

ResultsAreTheirs ==
  \A w \in Workers : \A r \in Operation : result[w][r] \in {"none", StatusAfter(r)}

CarriedOutIsDone ==
  \A r \in Operation \ overlapped :
     StatusAfter(r) = "done" /\ runs[r] # 0 => queue[r].status = "done"

CInv == /\ TInv /\ Exclusive /\ LoadedIsCurrent /\ ResultsAreTheirs
        /\ CarriedOutIsDone /\ CountedAndRunOnce

\* A pass has, after a step that is not its SELECT, no operation it had not.
LEMMA NothingIsAdded ==
  ASSUME TypeOK, NEW w \in Workers, Take(w) \/ Run(w) \/ Leave(w)
  PROVE  /\ \A u \in Workers : Selected(u)' \subseteq Selected(u)
         /\ \A u \in Workers \ {w} : Selected(u)' = Selected(u)
         /\ \A u \in Workers \ {w} : loaded'[u] = loaded[u] /\ result'[u] = result[u]
<1>1. CASE Take(w)
  <2>1. ops[w] \in Seq(Operation) /\ ops[w] # <<>>
    BY <1>1 DEF Take, TypeOK
  <2>2. 1 \in DOMAIN ops[w] /\ Head(ops[w]) = ops[w][1]
    BY <2>1
  <2>3. Selected(w)' \subseteq Selected(w)
    BY <1>1, <2>2 DEF Take, Selected, TypeOK
  <2>4. QED
    BY <1>1, <2>3 DEF Take, Selected, TypeOK
<1>2. CASE Run(w)
  <2>1. ops[w] \in Seq(Operation) /\ ops[w] # <<>>
    BY <1>2 DEF Run, TypeOK
  <2>2. \A i \in DOMAIN Tail(ops[w]) : i + 1 \in DOMAIN ops[w]
                                     /\ Tail(ops[w])[i] = ops[w][i + 1]
    BY <2>1
  <2>3. ops'[w] = Tail(ops[w]) /\ held' = held
    BY <1>2 DEF Run, TypeOK
  <2>4. Selected(w)' \subseteq Selected(w)
    BY <2>2, <2>3 DEF Selected
  <2>5. QED
    BY <1>2, <2>4 DEF Run, Finish, Selected, TypeOK
<1>3. CASE Leave(w)
  <2>1. Selected(w)' = {}
    BY <1>3 DEF Leave, Selected, TypeOK
  <2>2. QED
    BY <1>3, <2>1 DEF Leave, Selected, TypeOK
<1>4. QED
  BY <1>1, <1>2, <1>3

LEMMA CInvInit == Init => CInv
<1> SUFFICES ASSUME Init PROVE CInv
  OBVIOUS
<1>1. \A w \in Workers : Selected(w) = {}
  BY DEF Init, Selected
<1>2. Exclusive /\ LoadedIsCurrent
  BY <1>1 DEF Exclusive, LoadedIsCurrent
<1>3. ResultsAreTheirs
  BY DEF Init, ResultsAreTheirs, NoResult
<1>4. CarriedOutIsDone /\ CountedAndRunOnce
  BY DEF Init, CarriedOutIsDone, CountedAndRunOnce, Fresh
<1>5. QED
  BY <1>2, <1>3, <1>4, TInvInit DEF CInv

\* A step that leaves the table and its history alone and adds nothing to
\* what the passes have.
LEMMA TableUntouched ==
  ASSUME CInv, UNCHANGED <<outcome, queue, runs, overlapped>>,
         \A u \in Workers : Selected(u)' \subseteq Selected(u),
         \A u \in Workers : Selected(u)' = {} \/ loaded'[u] = loaded[u],
         ResultsAreTheirs'
  PROVE  /\ Exclusive'
         /\ LoadedIsCurrent'
         /\ CarriedOutIsDone'
         /\ CountedAndRunOnce'
<1> USE DEF CInv
<1>1. Exclusive'
  BY DEF Exclusive
<1>2. LoadedIsCurrent'
  BY DEF LoadedIsCurrent
<1>3. \A r : StatusAfter(r)' = StatusAfter(r)
  BY DEF StatusAfter
<1>4. CarriedOutIsDone' /\ CountedAndRunOnce'
  BY <1>3 DEF CarriedOutIsDone, CountedAndRunOnce
<1>5. QED
  BY <1>1, <1>2, <1>4

LEMMA CInvNext == CInv /\ [Next]_vars => CInv'
<1> SUFFICES ASSUME CInv, [Next]_vars PROVE CInv'
  OBVIOUS
<1> USE DEF CInv, TInv
<1>1. TInv'
  BY TInvNext
<1>2. \A r : outcome' = outcome => StatusAfter(r)' = StatusAfter(r)
  BY DEF StatusAfter
<1>3. CASE Tick
  <2>1. \A u \in Workers : Selected(u)' = Selected(u)
    BY <1>3 DEF Tick, Selected
  <2>2. \A r \in Operation : queue'[r].status = queue[r].status
                           /\ queue'[r].attempts = queue[r].attempts
    BY <1>3 DEF Tick, Aged
  <2>3. UNCHANGED <<outcome, loaded, result, runs, overlapped>>
    BY <1>3 DEF Tick, history
  <2>4. \A u \in Workers : \A r \in Selected(u) : r \in Operation
    BY DEF Selected, TypeOK
  <2>5. Exclusive' /\ LoadedIsCurrent'
    BY <2>1, <2>2, <2>3, <2>4 DEF Exclusive, LoadedIsCurrent
  <2>6. ResultsAreTheirs' /\ CarriedOutIsDone' /\ CountedAndRunOnce'
    BY <1>2, <2>2, <2>3 DEF ResultsAreTheirs, CarriedOutIsDone, CountedAndRunOnce
  <2>7. QED
    BY <1>1, <2>5, <2>6
<1>4. ASSUME NEW w \in Workers, Begin(w) PROVE CInv'
  <2>1. PICK selection \in Selections :
           /\ ops' = [ops EXCEPT ![w] = selection]
           /\ overlapped' = overlapped \cup
                {r \in Operation : /\ \E i \in DOMAIN selection : selection[i] = r
                                   /\ \E u \in Workers : r \in Selected(u)}
    BY <1>4 DEF Begin
  <2> DEFINE chosen == {selection[i] : i \in DOMAIN selection}
  <2>2. \A r \in chosen : r \in Operation /\ Waiting(r)
    BY DEF Selections
  <2>3. UNCHANGED <<outcome, queue, held, result, runs>> /\ loaded' = [loaded EXCEPT ![w] = queue]
    BY <1>4 DEF Begin
  <2>4. Selected(w)' \subseteq chosen \cup Selected(w)
    BY <2>1, <2>3 DEF Selected, TypeOK
  <2>5. \A u \in Workers \ {w} : Selected(u)' = Selected(u)
    BY <2>1, <2>3 DEF Selected, TypeOK
  <2>6. overlapped \subseteq overlapped'
    BY <2>1
  <2>7. \A r \in chosen \ overlapped' : \A u \in Workers : r \notin Selected(u)
    BY <2>1, <2>2
  <2>8. Exclusive'
    <3> SUFFICES ASSUME NEW r \in Operation, r \notin overlapped', NEW u \in Workers,
                        NEW v \in Workers, r \in Selected(u)', r \in Selected(v)'
                 PROVE  u = v
      BY DEF Exclusive
    <3>1. CASE r \in chosen
      BY <2>5, <2>7, <3>1
    <3>2. CASE r \notin chosen
      BY <2>4, <2>5, <2>6, <3>2 DEF Exclusive
    <3>3. QED
      BY <3>1, <3>2
  <2>9. LoadedIsCurrent'
    <3> SUFFICES ASSUME NEW u \in Workers, NEW r \in Selected(u)', r \notin overlapped'
                 PROVE  /\ loaded'[u][r].attempts = queue[r].attempts
                        /\ loaded'[u][r].status = queue[r].status
                        /\ queue[r].status # "done"
      BY <2>3 DEF LoadedIsCurrent
    <3>1. CASE u = w
      <4>1. loaded'[w] = queue
        BY <2>3 DEF TypeOK
      <4>2. CASE r \in chosen
        BY <2>2, <3>1, <4>1, <4>2 DEF Waiting
      <4>3. CASE r \notin chosen
        BY <2>4, <2>6, <3>1, <4>1, <4>3 DEF LoadedIsCurrent
      <4>4. QED
        BY <4>2, <4>3
    <3>2. CASE u # w
      BY <2>3, <2>5, <2>6, <3>2 DEF LoadedIsCurrent, TypeOK
    <3>3. QED
      BY <3>1, <3>2
  <2>10. ResultsAreTheirs'
    BY <1>2, <2>3 DEF ResultsAreTheirs
  <2>11. CarriedOutIsDone' /\ CountedAndRunOnce'
    BY <1>2, <2>3, <2>6 DEF CarriedOutIsDone, CountedAndRunOnce
  <2>12. QED
    BY <1>1, <2>8, <2>9, <2>10, <2>11
<1>5. ASSUME NEW w \in Workers, Take(w) PROVE CInv'
  <2>1. UNCHANGED <<outcome, queue, loaded, result, runs, overlapped>>
    BY <1>5 DEF Take, history
  <2>2. ResultsAreTheirs'
    BY <1>2, <2>1 DEF ResultsAreTheirs
  <2>3. QED
    BY <1>1, <1>5, <2>1, <2>2, NothingIsAdded, TableUntouched
<1>6. ASSUME NEW w \in Workers, Run(w) PROVE CInv'
  <2> DEFINE r == Head(ops[w])
  <2>1. UNCHANGED <<outcome, queue, loaded, runs, overlapped>>
    BY <1>6 DEF Run, history
  <2>2. result' = [result EXCEPT ![w][r] = StatusAfter(r)]
    BY <1>6 DEF Run, Finish
  <2>3. r \in Operation
    BY <1>6 DEF Run, TypeOK
  <2>4. ResultsAreTheirs'
    BY <1>2, <2>1, <2>2, <2>3 DEF ResultsAreTheirs, TypeOK
  <2>5. QED
    BY <1>1, <1>6, <2>1, <2>4, NothingIsAdded, TableUntouched
<1>7. ASSUME NEW w \in Workers, Leave(w), outcome' = outcome PROVE ResultsAreTheirs'
  <2>1. \A r \in Operation : result'[w][r] = "none"
    BY <1>7 DEF Leave, NoResult, TypeOK
  <2>2. \A u \in Workers \ {w} : result'[u] = result[u]
    BY <1>7 DEF Leave, TypeOK
  <2>3. QED
    BY <1>2, <1>7, <2>1, <2>2 DEF ResultsAreTheirs
<1>8. ASSUME NEW w \in Workers, Breaks(w) \/ DeadlockAborts(w) \/ Crash(w) PROVE CInv'
  <2>1. Leave(w) /\ UNCHANGED <<outcome, queue, runs, overlapped>>
    BY <1>8 DEF Breaks, DeadlockAborts, Crash, history
  <2>2. Selected(w)' = {}
    BY <2>1 DEF Leave, Selected, TypeOK
  <2>3. QED
    BY <1>1, <1>7, <2>1, <2>2, NothingIsAdded, TableUntouched
<1>9. ASSUME NEW w \in Workers, Commit(w) PROVE CInv'
  <2>1. Leave(w) /\ outcome' = outcome /\ overlapped' = overlapped
    BY <1>9 DEF Commit
  <2>2. Selected(w)' = {}
    BY <2>1 DEF Leave, Selected, TypeOK
  <2>3. \A u \in Workers \ {w} : Selected(u)' = Selected(u) /\ loaded'[u] = loaded[u]
    BY <2>1, NothingIsAdded
  <2>4. \A r \in Operation \ held[w] : queue'[r] = queue[r] /\ runs'[r] = runs[r]
    BY <1>9 DEF Commit
  <2>5. held[w] \subseteq Selected(w) /\ held[w] \subseteq Operation
    BY DEF Selected, TypeOK
  <2>6. \A r \in held[w] \ overlapped :
           /\ queue[r].status # "done"
           /\ queue'[r].attempts = OneMore(queue[r].attempts)
           /\ queue'[r].status = StatusAfter(r)
           /\ runs'[r] = OneMore(runs[r])
    <3> SUFFICES ASSUME NEW r \in held[w] \ overlapped
                 PROVE  /\ queue[r].status # "done"
                        /\ queue'[r].attempts = OneMore(queue[r].attempts)
                        /\ queue'[r].status = StatusAfter(r)
                        /\ runs'[r] = OneMore(runs[r])
      OBVIOUS
    <3>1. r \in Operation /\ r \in Selected(w)
      BY <2>5
    <3>2. queue'[r] = Saved(w, r) /\ runs'[r] = OneMore(runs[r])
      BY <1>9, <3>1 DEF Commit
    <3>3. /\ loaded[w][r].attempts = queue[r].attempts
          /\ loaded[w][r].status = queue[r].status
          /\ queue[r].status # "done"
      BY <3>1 DEF LoadedIsCurrent
    <3>4. result[w][r] # "none"
      BY <1>9 DEF Commit, Progress
    <3>5. result[w][r] = StatusAfter(r)
      BY <3>1, <3>4 DEF ResultsAreTheirs
    <3>6. QED
      BY <3>2, <3>3, <3>5 DEF Saved
  <2>7. Exclusive'
    BY <2>1, <2>2, <2>3 DEF Exclusive
  <2>8. \A u \in Workers \ {w} : \A r \in Selected(u) \ overlapped : r \notin held[w]
    <3>1. \A u \in Workers : Selected(u) \subseteq Operation
      BY DEF Selected, TypeOK
    <3>2. QED
      BY <2>5, <3>1 DEF Exclusive
  <2>9. LoadedIsCurrent'
    <3>1. \A u \in Workers : Selected(u) \subseteq Operation
      BY DEF Selected, TypeOK
    <3>2. QED
      BY <2>1, <2>2, <2>3, <2>4, <2>8, <3>1 DEF LoadedIsCurrent
  <2>10. CarriedOutIsDone'
    <3> SUFFICES ASSUME NEW r \in Operation \ overlapped, StatusAfter(r) = "done", runs'[r] # 0
                 PROVE  queue'[r].status = "done"
      BY <1>2, <2>1 DEF CarriedOutIsDone
    <3>1. CASE r \in held[w]
      BY <2>6, <3>1
    <3>2. CASE r \notin held[w]
      BY <2>4, <3>2 DEF CarriedOutIsDone
    <3>3. QED
      BY <3>1, <3>2
  <2>11. CountedAndRunOnce'
    <3> SUFFICES ASSUME NEW r \in Operation \ overlapped
                 PROVE  /\ queue'[r].attempts = runs'[r]
                        /\ StatusAfter(r) = "done" => runs'[r] <= 1
      BY <1>2, <2>1 DEF CountedAndRunOnce
    <3>1. CASE r \in held[w]
      <4>1. queue'[r].attempts = runs'[r]
        BY <2>6, <3>1 DEF CountedAndRunOnce
      <4>2. StatusAfter(r) = "done" => runs[r] = 0
        BY <2>6, <3>1 DEF CarriedOutIsDone
      <4>3. StatusAfter(r) = "done" => runs'[r] <= 1
        BY <2>6, <3>1, <4>2 DEF OneMore
      <4>4. QED
        BY <4>1, <4>3
    <3>2. CASE r \notin held[w]
      BY <2>4, <3>2 DEF CountedAndRunOnce
    <3>3. QED
      BY <3>1, <3>2
  <2>12. QED
    BY <1>1, <1>7, <2>1, <2>7, <2>9, <2>10, <2>11
<1>10. CASE ComesDue \/ UNCHANGED vars
  <2>1. UNCHANGED <<outcome, queue, loaded, result, runs, overlapped, ops, held>>
    BY <1>10 DEF ComesDue, vars, pass, history
  <2>2. \A u \in Workers : Selected(u)' = Selected(u)
    BY <2>1 DEF Selected
  <2>3. ResultsAreTheirs'
    BY <1>2, <2>1 DEF ResultsAreTheirs
  <2>4. QED
    BY <1>1, <2>1, <2>2, <2>3, TableUntouched
<1>11. QED
  BY <1>3, <1>4, <1>5, <1>6, <1>8, <1>9, <1>10 DEF Next, Step

\* Every attempt is counted, one that throws included, and what does not throw
\* is carried out once, however often and wherever passes fail - unless two
\* passes had selected the operation at the same time.
THEOREM AttemptsAreCounted == Spec => []CountedAndRunOnce
<1>1. CInv => CountedAndRunOnce
  BY DEF CInv
<1>2. QED
  BY CInvInit, CInvNext, <1>1, PTL DEF Spec

---------------------------------------------------------------------------
(* dispatch_digests *)

Places == {"idle", "loop", "devices", "routing", "commit"}

Pass == [now : Nat, todo : SUBSET Schedules, current : Schedules \cup {None},
         dirty : SUBSET Schedules, flushed : SUBSET Schedules, waiting : BOOLEAN]

\* What a pass is at work on is in one place, and one mark is not flushed yet.
Sound(w) ==
    LET l == local[w]
    IN  /\ l.now <= now
        /\ stage[w] = "idle" => l = Blank
        /\ l.current # None <=> stage[w] \in {"devices", "routing"}
        /\ stage[w] = "routing" => l.dirty = {}
        /\ stage[w] = "commit" => l.todo = {}
        /\ l.todo \cap (l.dirty \cup l.flushed \cup {l.current}) = {}
        /\ l.current \notin l.dirty \cup l.flushed
        /\ \A s, t \in l.dirty : s = t

\* No row is locked by two passes.
LocksAreApart ==
    \A w, u \in Passes : w # u => local[w].flushed \cap local[u].flushed = {}

\* A pass is sound in itself, and its locks are its own.
SInv ==
    /\ now \in 0 .. MaxNow
    /\ stage \in [Passes -> Places] /\ local \in [Passes -> Pass]
    /\ \A w \in Passes : Sound(w)
    /\ LocksAreApart

\* The schedules of a pass that it has not sent, and those it has.
Pending(w) == local[w].todo \cup ({local[w].current} \ {None})
Marked(w) == local[w].dirty \cup local[w].flushed

LEMMA BlankIs ==
    /\ Blank \in Pass /\ Blank.now = 0 /\ Blank.todo = {} /\ Blank.current = None
    /\ Blank.dirty = {} /\ Blank.flushed = {} /\ Blank.waiting = FALSE
BY DEF Blank, Pass

LEMMA PassFields ==
    ASSUME NEW l \in Pass
    PROVE  /\ l.now \in Nat /\ l.todo \subseteq Schedules
           /\ l.current \in Schedules \cup {None}
           /\ l.dirty \subseteq Schedules /\ l.flushed \subseteq Schedules
           /\ l.waiting \in BOOLEAN
BY DEF Pass

LEMMA HeldIs == ASSUME NEW w PROVE Held(w) = Pending(w) \cup Marked(w)
BY DEF Held, Pending, Marked

---------------------------------------------------------------------------
(* What the steps of a pass do *)

\* A step that changes nothing but the state of pass w.
LEMMA OneMoves ==
    ASSUME SInv, NEW w \in Passes, now' = now,
           NEW place \in Places, stage' = [stage EXCEPT ![w] = place],
           NEW l \in Pass, local' = [local EXCEPT ![w] = l], Sound(w)',
           \A u \in Passes \ {w} : l.flushed \cap local[u].flushed = {}
    PROVE  SInv'
<1>1. stage' \in [Passes -> Places] /\ local' \in [Passes -> Pass]
  BY DEF SInv
<1>2. local'[w] = l /\ \A u \in Passes \ {w} : stage'[u] = stage[u] /\ local'[u] = local[u]
  BY DEF SInv
<1>3. \A u \in Passes : Sound(u)'
  BY <1>2 DEF SInv, Sound
<1>4. LocksAreApart'
  BY <1>2 DEF SInv, LocksAreApart
<1> QED
  BY <1>1, <1>3, <1>4 DEF SInv

LEMMA DispatchIs ==
    ASSUME SInv, NEW w \in Passes, DispatchDigests(w)
    PROVE  /\ SInv' /\ stage[w] = "idle" /\ local'[w].now = now
           /\ \A u \in Passes \ {w} : local'[u] = local[u]
           /\ Pending(w)' = {s \in Schedules : Due(s, now)} /\ Marked(w)' = {}
<1> DEFINE due == {s \in Schedules : Due(s, now)}
           l == [Blank EXCEPT !.now = now, !.todo = due]
<1>2. now \in Nat
  BY DEF SInv
<1>3. due \in SUBSET Schedules
  OBVIOUS
<1> HIDE DEF l, due
<1>4. /\ l \in Pass /\ l.now = now /\ l.todo = due /\ l.current = None /\ l.dirty = {}
      /\ l.flushed = {}
  <2>1. l = [Blank EXCEPT !.now = now, !.todo = due]
    BY DEF l
  <2> QED
    BY <1>2, <1>3, <2>1, BlankIs DEF Pass
<1>5. /\ stage[w] = "idle" /\ stage' = [stage EXCEPT ![w] = "loop"]
      /\ local' = [local EXCEPT ![w] = l] /\ now' = now
  BY DEF DispatchDigests, due, l
<1>6. stage'[w] = "loop" /\ local'[w] = l /\ \A u \in Passes \ {w} : local'[u] = local[u]
  BY <1>5 DEF SInv
<1>7. None \notin due
  BY DigestsAssumption DEF due
<1>8. Sound(w)'
  BY <1>2, <1>4, <1>5, <1>6, <1>7 DEF Sound
<1>9. SInv'
  BY <1>4, <1>5, <1>8, OneMoves DEF Places
<1>10. Pending(w)' = due /\ Marked(w)' = {}
  BY <1>4, <1>6 DEF Pending, Marked
<1> QED
  BY <1>4, <1>5, <1>6, <1>9, <1>10 DEF due

LEMMA SendIs ==
    ASSUME SInv, NEW w \in Passes, SendDigest(w)
    PROVE  /\ SInv' /\ local'[w].now = local[w].now
           /\ \A u \in Passes \ {w} : local'[u] = local[u]
           /\ Pending(w)' = Pending(w) /\ Marked(w)' = Marked(w)
<1>1. stage[w] = "loop" /\ stage' = [stage EXCEPT ![w] = "devices"] /\ now' = now
  BY DEF SendDigest
<1>2. PICK s \in local[w].todo :
         local' = [local EXCEPT ![w].current = s, ![w].todo = @ \ {s}]
  BY DEF SendDigest
<1> DEFINE l == local[w]
           rest == l.todo \ {s}
           m == [l EXCEPT !.current = s, !.todo = rest]
<1>3. l \in Pass
  BY DEF SInv
<1>4. l.todo \subseteq Schedules /\ s \in Schedules /\ s # None
  BY DigestsAssumption, <1>2, <1>3, PassFields
<1>5. local' = [local EXCEPT ![w] = m]
  BY <1>2
<1>6. /\ l.now <= now /\ l.current = None
      /\ l.todo \cap (l.dirty \cup l.flushed) = {}
      /\ \A r, t \in l.dirty : r = t
  BY <1>1 DEF SInv, Sound
<1>7. \A u \in Passes \ {w} : l.flushed \cap local[u].flushed = {}
  BY DEF SInv, LocksAreApart
<1>8. local'[w] = m /\ \A u \in Passes \ {w} : local'[u] = local[u]
  BY <1>5 DEF SInv
<1>9. stage'[w] = "devices"
  BY <1>1 DEF SInv
<1>10. Pending(w) = l.todo /\ Marked(w) = l.dirty \cup l.flushed
  BY <1>6 DEF Pending, Marked
<1>11. s \in l.todo
  BY <1>2
<1> HIDE DEF m, l
<1>12. /\ m \in Pass /\ m.now = l.now /\ m.todo = rest /\ m.current = s
       /\ m.dirty = l.dirty /\ m.flushed = l.flushed
  <2>1. m = [l EXCEPT !.current = s, !.todo = rest] /\ rest \in SUBSET Schedules
    BY <1>4 DEF m
  <2> HIDE DEF rest
  <2> QED
    BY <1>3, <1>4, <2>1 DEF Pass
<1>13. Sound(w)'
  BY <1>1, <1>4, <1>6, <1>8, <1>9, <1>11, <1>12 DEF Sound
<1>14. SInv'
  BY <1>1, <1>5, <1>7, <1>12, <1>13, OneMoves DEF Places
<1>15. Pending(w)' = l.todo /\ Marked(w)' = l.dirty \cup l.flushed
  BY <1>4, <1>8, <1>11, <1>12 DEF Pending, Marked
<1> QED
  BY <1>8, <1>10, <1>12, <1>14, <1>15 DEF l

LEMMA LoadIs ==
    ASSUME SInv, NEW w \in Passes, LoadDevices(w)
    PROVE  /\ SInv' /\ local'[w].now = local[w].now
           /\ local'[w].current = local[w].current
           /\ \A u \in Passes \ {w} : local'[u] = local[u]
           /\ Pending(w)' = Pending(w) /\ Marked(w)' = Marked(w)
<1> DEFINE l == local[w]
           all == l.flushed \cup l.dirty
           m == [l EXCEPT !.flushed = all, !.dirty = {}]
<1>1. /\ stage[w] = "devices" /\ stage' = [stage EXCEPT ![w] = "routing"] /\ now' = now
      /\ local' = [local EXCEPT ![w] = m]
      /\ \A u \in Passes \ {w} : l.dirty \cap local[u].flushed = {}
  BY DEF LoadDevices, Free, Waits
<1>2. l \in Pass
  BY DEF SInv
<1>3. l.dirty \subseteq Schedules /\ l.flushed \subseteq Schedules
  BY <1>2, PassFields
<1>4. /\ l.now <= now /\ l.current # None
      /\ l.todo \cap (l.dirty \cup l.flushed \cup {l.current}) = {}
      /\ l.current \notin l.dirty \cup l.flushed
  BY <1>1 DEF SInv, Sound
<1>5. \A u \in Passes \ {w} : l.flushed \cap local[u].flushed = {}
  BY DEF SInv, LocksAreApart
<1>6. local'[w] = m /\ \A u \in Passes \ {w} : local'[u] = local[u]
  BY <1>1 DEF SInv
<1>7. stage'[w] = "routing"
  BY <1>1 DEF SInv
<1> HIDE DEF m
<1>8. /\ m \in Pass /\ m.now = l.now /\ m.todo = l.todo /\ m.current = l.current
      /\ m.dirty = {} /\ m.flushed = all
  <2>1. m = [l EXCEPT !.flushed = all, !.dirty = {}] /\ all \in SUBSET Schedules
    BY <1>3 DEF m
  <2> HIDE DEF all, l
  <2> QED
    BY <1>2, <2>1 DEF Pass
<1>9. \A u \in Passes \ {w} : m.flushed \cap local[u].flushed = {}
  BY <1>1, <1>5, <1>8
<1>10. Pending(w)' = Pending(w) /\ Marked(w)' = Marked(w)
  BY <1>6, <1>8 DEF Pending, Marked
<1> HIDE DEF l
<1>11. Sound(w)'
  BY <1>1, <1>4, <1>6, <1>7, <1>8 DEF Sound
<1>12. SInv'
  BY <1>1, <1>8, <1>9, <1>11, OneMoves DEF Places
<1> QED
  BY <1>6, <1>8, <1>10, <1>12 DEF l

LEMMA WaitIs ==
    ASSUME SInv, NEW w \in Passes, Wait(w)
    PROVE  /\ SInv' /\ local'[w].now = local[w].now
           /\ local'[w].current = local[w].current
           /\ \A u \in Passes \ {w} : local'[u] = local[u]
           /\ Pending(w)' = Pending(w) /\ Marked(w)' = Marked(w)
<1> DEFINE l == local[w]
           m == [l EXCEPT !.waiting = TRUE]
<1>1. /\ stage[w] \in {"devices", "commit"} /\ stage' = stage /\ now' = now
      /\ local' = [local EXCEPT ![w] = m]
  BY DEF Wait
<1>2. l \in Pass /\ stage[w] \in Places /\ stage' = [stage EXCEPT ![w] = stage[w]]
  BY <1>1 DEF SInv
<1>3. \A u \in Passes \ {w} : l.flushed \cap local[u].flushed = {}
  BY DEF SInv, LocksAreApart
<1>4. local'[w] = m /\ \A u \in Passes \ {w} : local'[u] = local[u]
  BY <1>1 DEF SInv
<1> HIDE DEF m
<1>5. /\ m \in Pass /\ m.now = l.now /\ m.todo = l.todo /\ m.current = l.current
      /\ m.dirty = l.dirty /\ m.flushed = l.flushed
  BY <1>2 DEF m, Pass
<1>6. Pending(w)' = Pending(w) /\ Marked(w)' = Marked(w)
  BY <1>4, <1>5 DEF Pending, Marked
<1>7. Sound(w)'
  BY <1>1, <1>4, <1>5 DEF SInv, Sound
<1> HIDE DEF l
<1>8. SInv'
  BY <1>1, <1>2, <1>3, <1>5, <1>7, OneMoves
<1> QED
  BY <1>4, <1>5, <1>6, <1>8 DEF l

LEMMA MarkIs ==
    ASSUME SInv, NEW w \in Passes, Mark(w)
    PROVE  /\ SInv' /\ local'[w].now = local[w].now
           /\ \A u \in Passes \ {w} : local'[u] = local[u]
           /\ local[w].current \in Schedules
           /\ local[w].current \in Pending(w) /\ local[w].current \notin Marked(w)
           /\ Pending(w)' = Pending(w) \ {local[w].current}
           /\ Marked(w)' = Marked(w) \cup {local[w].current}
<1> DEFINE l == local[w]
           s == l.current
           marks == l.dirty \cup {s}
           m == [l EXCEPT !.dirty = marks, !.current = None]
           place == IF l.todo = {} THEN "commit" ELSE "loop"
<1>1. /\ stage[w] = "routing" /\ stage' = [stage EXCEPT ![w] = place] /\ now' = now
      /\ local' = [local EXCEPT ![w] = m]
  BY DEF Mark
<1>2. l \in Pass
  BY DEF SInv
<1>3. /\ l.now <= now /\ s # None /\ l.dirty = {}
      /\ l.todo \cap (l.flushed \cup {s}) = {}
      /\ s \notin l.flushed
  BY <1>1 DEF SInv, Sound
<1>4. s \in Schedules /\ None \notin l.todo \cup l.flushed
  BY DigestsAssumption, <1>2, <1>3, PassFields
<1>5. \A u \in Passes \ {w} : l.flushed \cap local[u].flushed = {}
  BY DEF SInv, LocksAreApart
<1>6. local'[w] = m /\ \A u \in Passes \ {w} : local'[u] = local[u]
  BY <1>1 DEF SInv
<1>7. stage'[w] = place
  BY <1>1 DEF SInv
<1> HIDE DEF m
<1>8. /\ m \in Pass /\ m.now = l.now /\ m.todo = l.todo /\ m.current = None
      /\ m.dirty = {s} /\ m.flushed = l.flushed
  <2>1. m = [l EXCEPT !.dirty = marks, !.current = None] /\ marks = {s}
    BY <1>3 DEF m
  <2>2. marks \in SUBSET Schedules
    BY <1>4, <2>1
  <2> HIDE DEF marks, l
  <2> QED
    BY <1>2, <2>1, <2>2 DEF Pass
<1>9. Pending(w) = l.todo \cup {s} /\ Marked(w) = l.flushed
  BY <1>3 DEF Pending, Marked
<1> HIDE DEF l, s
<1>10. Sound(w)'
  BY <1>1, <1>3, <1>4, <1>6, <1>7, <1>8 DEF Sound
<1>11. SInv'
  BY <1>1, <1>5, <1>8, <1>10, OneMoves DEF Places
<1>12. Pending(w)' = l.todo /\ Marked(w)' = l.flushed \cup {s}
  BY <1>3, <1>6, <1>8 DEF Pending, Marked
<1> QED
  BY <1>3, <1>4, <1>6, <1>8, <1>9, <1>11, <1>12 DEF l, s

\* What becomes of a pass u when pass w ends: nothing, or it gets its row.
LEMMA GrantIs ==
    ASSUME SInv, NEW u \in Passes, NEW m,
           m \in {local[u], [local[u] EXCEPT !.flushed = @ \cup local[u].dirty,
                                             !.dirty = {}, !.waiting = FALSE]}
    PROVE  /\ m \in Pass /\ m.now = local[u].now /\ m.todo = local[u].todo
           /\ m.current = local[u].current
           /\ \/ m.dirty = local[u].dirty /\ m.flushed = local[u].flushed
              \/ m.dirty = {} /\ m.flushed = local[u].flushed \cup local[u].dirty
<1> DEFINE l == local[u]
           all == l.flushed \cup l.dirty
<1>1. l \in Pass
  BY DEF SInv
<1>2. m = l \/ m = [l EXCEPT !.flushed = all, !.dirty = {}, !.waiting = FALSE]
  BY Zenon
<1>3. all \in SUBSET Schedules
  BY <1>1, PassFields
<1> HIDE DEF all, l
<1>4. CASE m = [l EXCEPT !.flushed = all, !.dirty = {}, !.waiting = FALSE]
  <2>1. /\ m \in Pass /\ m.now = l.now /\ m.todo = l.todo /\ m.current = l.current
        /\ m.dirty = {} /\ m.flushed = all
    BY <1>1, <1>3, <1>4 DEF Pass
  <2> QED
    BY <2>1 DEF l, all
<1>5. CASE m = l
  BY <1>1, <1>5 DEF l
<1> QED
  BY <1>2, <1>4, <1>5

\* The end of a pass: it holds nothing, and the others hold what they held.
LEMMA EndIs ==
    ASSUME SInv, NEW w \in Passes, End(w), now' = now
    PROVE  /\ SInv' /\ Pending(w)' = {} /\ Marked(w)' = {}
           /\ stage'[w] = "idle" /\ \A u \in Passes \ {w} : stage'[u] = stage[u]
           /\ \A u \in Passes \ {w} :
                 /\ local'[u].now = local[u].now /\ local'[u].current = local[u].current
                 /\ Pending(u)' = Pending(u) /\ Marked(u)' = Marked(u)
<1> DEFINE waiters == {u \in Passes : local[u].waiting /\ Waits(u, w)}
           Granted(u) == [local[u] EXCEPT !.flushed = @ \cup local[u].dirty,
                                          !.dirty = {}, !.waiting = FALSE]
<1>1. PICK next \in SUBSET waiters :
         /\ \A u, v \in next : local[v].dirty = local[u].dirty => u = v
         /\ local' = [u \in Passes |-> CASE u = w -> Blank
                                         [] u \in next -> Granted(u)
                                         [] OTHER -> local[u]]
  BY DEF End
<1>2. w \notin next
  BY <1>1 DEF Waits
<1>3. local'[w] = Blank
  <2> HIDE DEF Granted, waiters
  <2> QED
    BY <1>1, <1>2
<1>4. \A u \in Passes \ {w} : local'[u] = IF u \in next THEN Granted(u) ELSE local[u]
  <2> HIDE DEF Granted, waiters
  <2> QED
    BY <1>1
<1>5. stage' = [stage EXCEPT ![w] = "idle"]
  BY DEF End
<1>6. /\ stage' \in [Passes -> Places] /\ stage'[w] = "idle"
      /\ \A u \in Passes \ {w} : stage'[u] = stage[u]
  BY <1>5 DEF SInv, Places
<1>7. ASSUME NEW u \in Passes \ {w}
      PROVE  /\ local'[u] \in Pass /\ local'[u].now = local[u].now
             /\ local'[u].todo = local[u].todo /\ local'[u].current = local[u].current
             /\ \/ local'[u].dirty = local[u].dirty /\ local'[u].flushed = local[u].flushed
                \/ /\ local'[u].dirty = {}
                   /\ local'[u].flushed = local[u].flushed \cup local[u].dirty
  <2>1. local'[u] \in {local[u], Granted(u)}
    BY <1>4
  <2> QED
    BY <2>1, GrantIs
<1>8. ASSUME NEW u \in Passes \ {w}
      PROVE  Pending(u)' = Pending(u) /\ Marked(u)' = Marked(u)
  BY <1>7, <1>8 DEF Pending, Marked
<1>9. Pending(w)' = {} /\ Marked(w)' = {}
  BY <1>3, BlankIs DEF Pending, Marked
<1>10. local' \in [Passes -> Pass]
  <2>1. \A u \in Passes : local'[u] \in Pass
    BY <1>3, <1>7, BlankIs
  <2> QED
    BY <1>1, <2>1
<1>11. ASSUME NEW u \in Passes PROVE Sound(u)'
  <2>1. CASE u = w
    <3>1. 0 <= now
      BY DEF SInv
    <3>2. None \notin {} /\ local'[u] = Blank /\ stage'[u] = "idle"
      BY <1>3, <1>6, <2>1
    <3> QED
      BY <3>1, <3>2, BlankIs DEF Sound
  <2>2. CASE u # w
    <3>1. Sound(u) /\ stage'[u] = stage[u]
      BY <1>6, <2>2 DEF SInv
    <3>2. stage[u] = "idle" => local'[u] = local[u]
      <4>1. u \in next => local[u].dirty # {}
        BY <1>1, <2>2 DEF Waits
      <4>2. stage[u] = "idle" => local[u].dirty = {}
        BY <3>1, BlankIs DEF Sound
      <4> QED
        BY <1>4, <2>2, <4>1, <4>2
    <3> QED
      BY <1>7, <2>2, <3>1, <3>2 DEF Sound
  <2> QED
    BY <2>1, <2>2
<1>12. LocksAreApart'
  <2>1. ASSUME NEW u \in Passes \ {w}
        PROVE  \/ local'[u].flushed = local[u].flushed
               \/ /\ u \in next /\ local'[u].flushed = local[u].flushed \cup local[u].dirty
                  /\ local[u].dirty \subseteq local[w].flushed
    <3>1. u \notin next => local'[u] = local[u]
      BY <1>4
    <3>2. CASE u \in next
      <4>1. local[u].dirty \cap local[w].flushed # {}
        BY <1>1, <3>2 DEF Waits
      <4>2. local[u].dirty \subseteq local[w].flushed
        BY <4>1 DEF SInv, Sound
      <4> QED
        BY <1>7, <3>2, <4>2
    <3> QED
      BY <3>1, <3>2
  <2>2. ASSUME NEW u \in Passes \ {w}, NEW v \in Passes \ {w}, u # v
        PROVE  local'[u].flushed \cap local'[v].flushed = {}
    <3>1. /\ local[u].flushed \cap local[v].flushed = {}
          /\ local[u].flushed \cap local[w].flushed = {}
          /\ local[v].flushed \cap local[w].flushed = {}
      BY <2>2 DEF SInv, LocksAreApart
    <3>2. u \in next /\ v \in next => local[u].dirty \cap local[v].dirty = {}
      <4>1. (\A s, t \in local[u].dirty : s = t) /\ (\A s, t \in local[v].dirty : s = t)
        BY DEF SInv, Sound
      <4>2. ASSUME NEW s \in local[u].dirty \cap local[v].dirty
            PROVE  local[u].dirty = local[v].dirty
        <5>1. local[u].dirty = {s} /\ local[v].dirty = {s}
          BY <4>1
        <5> QED
          BY <5>1
      <4> QED
        BY <1>1, <2>2, <4>2
    <3>3. \/ local'[u].flushed = local[u].flushed
          \/ /\ u \in next /\ local'[u].flushed = local[u].flushed \cup local[u].dirty
             /\ local[u].dirty \subseteq local[w].flushed
      BY <2>1
    <3>4. \/ local'[v].flushed = local[v].flushed
          \/ /\ v \in next /\ local'[v].flushed = local[v].flushed \cup local[v].dirty
             /\ local[v].dirty \subseteq local[w].flushed
      BY <2>1
    <3> QED
      BY <3>1, <3>2, <3>3, <3>4
  <2>3. local'[w].flushed = {}
    BY <1>3, BlankIs
  <2> QED
    BY <2>2, <2>3 DEF LocksAreApart
<1>13. SInv'
  BY <1>6, <1>10, <1>11, <1>12 DEF SInv
<1> QED
  BY <1>6, <1>7, <1>8, <1>9, <1>13

LEMMA SoundNext ==
    ASSUME SInv, [DigestsNext]_digestVars
    PROVE  SInv'
<1>1. ASSUME NEW w \in Passes, NEW d \in Device, Route(w, d)
      PROVE  SInv'
  <2>1. UNCHANGED <<now, stage, local>>
    BY <1>1 DEF Route
  <2> QED
    BY <2>1 DEF SInv, Sound, LocksAreApart
<1>2. ASSUME NEW w \in Passes, CommitPass(w) \/ Deadlocked(w) \/ PassFails(w)
      PROVE  SInv'
  <2>1. End(w) /\ now' = now
    BY <1>2 DEF CommitPass, Deadlocked, PassFails, Rollback
  <2> QED
    BY <2>1, EndIs
<1>3. CASE ClockTick
  <2>1. now' \in 0 .. MaxNow /\ now <= now'
    BY DigestsAssumption, <1>3 DEF ClockTick, SInv
  <2>2. stage' = stage /\ local' = local
    BY <1>3 DEF ClockTick
  <2>3. \A w \in Passes : local[w].now <= now'
    BY <2>1, PassFields DEF SInv, Sound
  <2>4. \A w \in Passes : Sound(w)'
    BY <2>2, <2>3 DEF SInv, Sound
  <2> QED
    BY <2>1, <2>2, <2>4 DEF SInv, LocksAreApart
<1>4. CASE UNCHANGED digestVars
  BY <1>4 DEF digestVars, SInv, Sound, LocksAreApart
<1> QED
  BY <1>1, <1>2, <1>3, <1>4, DispatchIs, SendIs, LoadIs, WaitIs, MarkIs DEF DigestsNext, PassStep

LEMMA SoundInit == ASSUME DigestsInit PROVE SInv
<1>1. \A w \in Passes : local[w] = Blank /\ stage[w] = "idle"
  BY DEF DigestsInit
<1>2. now = 0 /\ 0 <= MaxNow /\ MaxNow \in Nat
  BY DigestsAssumption DEF DigestsInit
<1>3. \A w \in Passes : Sound(w)
  BY <1>1, <1>2, BlankIs DEF Sound
<1>4. LocksAreApart
  BY <1>1, BlankIs DEF LocksAreApart
<1>5. stage \in [Passes -> Places] /\ local \in [Passes -> Pass]
  BY BlankIs DEF DigestsInit, Places
<1> QED
  BY <1>2, <1>3, <1>4, <1>5 DEF SInv

---------------------------------------------------------------------------
(* Digests are a period apart *)

\* The next run is a period after every day a digest was sent for.
Planned(s) ==
    \A d \in sentOn[s] : nextRun[s] # None
                         /\ (d + Period[s]) * DayLength + SendHour <= nextRun[s]

Spaced(s) == \A d, e \in sentOn[s] : d < e => e - d >= Period[s]

\* What holds of a schedule that was never held twice, nor sent by a pass that failed.
Tracked(s) ==
    /\ s \notin twice /\ Spaced(s)
    /\ \A w, u \in Passes : s \in Held(w) /\ s \in Held(u) => w = u
    /\ (\A w \in Passes : s \notin Marked(w)) => Planned(s)
    /\ \A w \in Passes :
          /\ s \in Pending(w) => nextRun[s] # None /\ nextRun[s] <= local[w].now
          /\ s \in Marked(w) => \A d \in sentOn[s] : \/ d = Day(local[w].now)
                                                     \/ d + Period[s] <= Day(local[w].now)

\* The types that the days are counted with, and the schedules tracked.
DInv ==
    /\ nextRun \in [Schedules -> Nat \cup {None}]
    /\ sentOn \in [Schedules -> SUBSET Nat]
    /\ \A s \in Schedules \ disturbed : Tracked(s)

LEMMA DayIs ==
    ASSUME NEW t \in Nat
    PROVE  /\ Day(t) \in Nat
           /\ \A d \in Nat : d * DayLength + SendHour <= t => d <= Day(t)
BY DigestsAssumption DEF Day

\* A schedule that is sent is planned a period after the day it was sent for, ...
LEMMA SendingPlans ==
    ASSUME NEW s \in Schedules, NEW t \in Nat,
           NEW d \in Nat, d <= Day(t)
    PROVE  (d + Period[s]) * DayLength + SendHour <= NextDigestRun(s, t)
<1> DEFINE P == Period[s]
           day == Day(t)
<1>1. P \in Nat /\ day \in Nat /\ DayLength \in Nat /\ SendHour \in Nat
  BY DigestsAssumption, DayIs
<1>2. NextDigestRun(s, t) = day * DayLength + SendHour + P * DayLength
  BY DEF NextDigestRun
<1> HIDE DEF P, day
<1>3. d + P <= day + P
  BY <1>1 DEF day
<1>4. (d + P) * DayLength <= (day + P) * DayLength
  BY <1>1, <1>3
<1>5. (day + P) * DayLength = day * DayLength + P * DayLength
  BY <1>1
<1> QED
  BY <1>1, <1>2, <1>4, <1>5 DEF P

\* ... and one that is due then is due on a day that is a period later.
LEMMA DueIsLater ==
    ASSUME DInv, NEW s \in Schedules, Planned(s), NEW t \in Nat,
           nextRun[s] # None, nextRun[s] <= t, NEW d \in sentOn[s]
    PROVE  d + Period[s] <= Day(t)
<1>1. nextRun[s] \in Nat /\ d \in Nat /\ Period[s] \in Nat
  BY DigestsAssumption DEF DInv
<1>2. d + Period[s] \in Nat
  BY <1>1
<1> DEFINE e == d + Period[s]
<1>3. e * DayLength + SendHour <= nextRun[s]
  BY DEF Planned
<1>4. DayLength \in Nat /\ SendHour \in Nat
  BY DigestsAssumption
<1> HIDE DEF e
<1>5. e \in Nat
  BY <1>2 DEF e
<1>6. e * DayLength \in Nat
  BY <1>4, <1>5
<1>7. e * DayLength + SendHour <= t
  BY <1>1, <1>3, <1>4, <1>6
<1> QED
  BY <1>5, <1>7, DayIs DEF e

\* A schedule that no pass sends, commits or selects anew stays tracked.
LEMMA TrackedStays ==
    ASSUME NEW s, Tracked(s),
           nextRun'[s] = nextRun[s], sentOn'[s] = sentOn[s], s \notin twice',
           \A u \in Passes :
              \/ s \notin Marked(u) /\ s \notin Pending(u)' /\ s \notin Marked(u)'
              \/ /\ local'[u].now = local[u].now
                 /\ s \in Pending(u)' => s \in Pending(u)
                 /\ s \in Marked(u)' <=> s \in Marked(u)
    PROVE  Tracked(s)'
<1>1. \A u \in Passes : /\ s \in Held(u) <=> s \in Pending(u) \/ s \in Marked(u)
                        /\ s \in Held(u)' <=> s \in Pending(u)' \/ s \in Marked(u)'
  BY DEF Held, Pending, Marked
<1>2. \A u \in Passes : s \in Held(u)' => s \in Held(u)
  BY <1>1
<1>3. \A w, u \in Passes : s \in Held(w)' /\ s \in Held(u)' => w = u
  BY <1>2 DEF Tracked
<1>4. (\A w \in Passes : s \notin Marked(w)') => Planned(s)'
  <2>1. Planned(s) => Planned(s)'
    BY DEF Planned
  <2>2. (\A w \in Passes : s \notin Marked(w)') => \A w \in Passes : s \notin Marked(w)
    OBVIOUS
  <2> QED
    BY <2>1, <2>2 DEF Tracked
<1>5. ASSUME NEW w \in Passes
      PROVE  /\ s \in Pending(w)' => nextRun'[s] # None /\ nextRun'[s] <= local'[w].now
             /\ s \in Marked(w)' => \A d \in sentOn'[s] :
                                       \/ d = Day(local'[w].now)
                                       \/ d + Period[s] <= Day(local'[w].now)
  BY DEF Tracked
<1>6. Spaced(s)'
  BY DEF Tracked, Spaced
<1> QED
  BY <1>3, <1>4, <1>5, <1>6 DEF Tracked

\* The fields the steps of a pass leave alone for the schedules.
Kept == nextRun' = nextRun /\ sentOn' = sentOn /\ twice' = twice /\ disturbed' = disturbed

\* A step of a pass that moves a schedule from one place to another in it.
LEMMA HeldStays ==
    ASSUME DInv, Kept,
           \A u \in Passes : /\ local'[u].now = local[u].now
                             /\ Pending(u)' = Pending(u) /\ Marked(u)' = Marked(u)
    PROVE  DInv'
<1>1. ASSUME NEW s \in Schedules \ disturbed PROVE Tracked(s)'
  BY TrackedStays DEF DInv, Kept, Tracked
<1> QED
  BY <1>1 DEF DInv, Kept

LEMMA DispatchTracks ==
    ASSUME SInv, DInv, NEW w \in Passes, DispatchDigests(w)
    PROVE  DInv'
<1>1. /\ local'[w].now = now /\ stage[w] = "idle"
      /\ \A u \in Passes \ {w} : local'[u] = local[u]
      /\ Pending(w)' = {s \in Schedules : Due(s, now)} /\ Marked(w)' = {}
  BY DispatchIs
<1>2. /\ nextRun' = nextRun /\ sentOn' = sentOn /\ twice' = twice
      /\ disturbed' = disturbed
           \cup {s \in Schedules : Due(s, now) /\ \E u \in Passes : s \in Held(u)}
  BY DEF DispatchDigests
<1>3. Pending(w) = {} /\ Marked(w) = {}
  <2>1. local[w] = Blank
    BY <1>1 DEF SInv, Sound
  <2> QED
    BY <2>1, BlankIs DEF Pending, Marked
<1>4. \A u \in Passes \ {w} : /\ local'[u].now = local[u].now
                              /\ Pending(u)' = Pending(u) /\ Marked(u)' = Marked(u)
  BY <1>1 DEF Pending, Marked
<1>5. ASSUME NEW s \in Schedules, s \notin disturbed' PROVE Tracked(s)'
  <2>1. Tracked(s)
    BY <1>2, <1>5 DEF DInv
  <2>2. CASE ~ Due(s, now)
    <3>1. s \notin Marked(w) /\ s \notin Pending(w)' /\ s \notin Marked(w)'
      BY <1>1, <1>3, <2>2
    <3>2. s \notin twice'
      BY <1>2, <2>1 DEF Tracked
    <3> QED
      BY <1>2, <1>4, <2>1, <3>1, <3>2, TrackedStays
  <2>3. CASE Due(s, now)
    <3>1. \A u \in Passes : s \notin Pending(u) /\ s \notin Marked(u)
      BY <1>2, <1>5, <2>3, HeldIs
    <3>2. \A u \in Passes \ {w} : s \notin Pending(u)' /\ s \notin Marked(u)'
      BY <1>4, <3>1
    <3>3. \A u \in Passes \ {w} : s \notin Held(u)'
      BY <3>2 DEF Held, Pending, Marked
    <3>4. Planned(s)'
      BY <1>2, <2>1, <3>1 DEF Tracked, Planned
    <3>5. nextRun'[s] # None /\ nextRun'[s] <= now
      BY <1>2, <2>3 DEF Due
    <3>6. s \notin twice' /\ Spaced(s)'
      BY <1>2, <2>1 DEF Tracked, Spaced
    <3> QED
      BY <1>1, <3>2, <3>3, <3>4, <3>5, <3>6 DEF Tracked
  <2> QED
    BY <2>2, <2>3
<1> QED
  BY <1>2, <1>5 DEF DInv

LEMMA MarkTracks ==
    ASSUME SInv, DInv, NEW w \in Passes, Mark(w)
    PROVE  DInv'
<1> DEFINE s == local[w].current
           t == local[w].now
           day == Day(t)
<1>1. /\ local'[w].now = t /\ \A u \in Passes \ {w} : local'[u] = local[u]
      /\ s \in Schedules /\ s \in Pending(w) /\ s \notin Marked(w)
      /\ Pending(w)' = Pending(w) \ {s} /\ Marked(w)' = Marked(w) \cup {s}
  BY MarkIs
<1>2. /\ nextRun' = nextRun /\ sentOn' = [sentOn EXCEPT ![s] = @ \cup {day}]
      /\ twice' = IF day \in sentOn[s] THEN twice \cup {s} ELSE twice
      /\ disturbed' = disturbed
  BY DEF Mark
<1>3. t \in Nat /\ day \in Nat
  BY PassFields, DayIs DEF SInv
<1> HIDE DEF day, t, s
<1>4. /\ sentOn'[s] = sentOn[s] \cup {day} /\ sentOn' \in [Schedules -> SUBSET Nat]
      /\ \A r \in Schedules \ {s} : sentOn'[r] = sentOn[r]
  BY <1>1, <1>2, <1>3 DEF DInv
<1>5. \A u \in Passes \ {w} : /\ local'[u].now = local[u].now
                              /\ Pending(u)' = Pending(u) /\ Marked(u)' = Marked(u)
  BY <1>1 DEF Pending, Marked
<1>6. ASSUME NEW r \in Schedules \ disturbed, r # s PROVE Tracked(r)'
  <2>1. Tracked(r)
    BY DEF DInv
  <2>2. r \notin twice' /\ nextRun'[r] = nextRun[r] /\ sentOn'[r] = sentOn[r]
    BY <1>2, <1>4, <1>6, <2>1 DEF Tracked
  <2>3. \A u \in Passes : /\ local'[u].now = local[u].now
                          /\ r \in Pending(u)' => r \in Pending(u)
                          /\ r \in Marked(u)' <=> r \in Marked(u)
    BY <1>1, <1>5, <1>6 DEF t
  <2> QED
    BY <2>1, <2>2, <2>3, TrackedStays
<1>7. ASSUME NEW r \in Schedules \ disturbed, r = s PROVE Tracked(r)'
  <2>1. Tracked(r)
    BY DEF DInv
  <2>2. \A u \in Passes \ {w} : r \notin Pending(u) /\ r \notin Marked(u)
    BY <1>1, <1>7, <2>1, HeldIs DEF Tracked
  <2>3. Planned(r)
    BY <1>1, <1>7, <2>1, <2>2 DEF Tracked
  <2>4. nextRun[r] # None /\ nextRun[r] <= t
    BY <1>1, <1>7, <2>1 DEF Tracked, t
  <2>5. \A d \in sentOn[r] : d + Period[r] <= day
    BY <1>1, <1>3, <2>3, <2>4, DueIsLater DEF day
  <2>6. Period[r] \in Nat \ {0} /\ sentOn[r] \subseteq Nat
    BY DigestsAssumption DEF DInv
  <2>7. day \notin sentOn[r] /\ r \notin twice'
    BY <1>2, <1>3, <1>7, <2>1, <2>5, <2>6 DEF Tracked
  <2>8. Spaced(r)'
    BY <1>3, <1>4, <1>7, <2>1, <2>5, <2>6 DEF Tracked, Spaced
  <2>9. \A u \in Passes \ {w} : r \notin Pending(u)' /\ r \notin Marked(u)'
    BY <1>5, <2>2
  <2>10. \A u \in Passes \ {w} : r \notin Held(u)'
    BY <2>9 DEF Held, Pending, Marked
  <2>11. r \notin Pending(w)' /\ r \in Marked(w)'
    BY <1>1, <1>7
  <2>12. \A d \in sentOn'[r] : d = Day(local'[w].now) \/ d + Period[r] <= Day(local'[w].now)
    BY <1>1, <1>4, <1>7, <2>5 DEF day
  <2> QED
    BY <2>7, <2>8, <2>9, <2>10, <2>11, <2>12 DEF Tracked
<1> QED
  BY <1>2, <1>4, <1>6, <1>7 DEF DInv

LEMMA CommitTracks ==
    ASSUME SInv, DInv, NEW w \in Passes, CommitPass(w)
    PROVE  DInv'
<1> DEFINE t == local[w].now
<1>1. /\ Pending(w)' = {} /\ Marked(w)' = {}
      /\ \A u \in Passes \ {w} : /\ local'[u].now = local[u].now
                                 /\ Pending(u)' = Pending(u) /\ Marked(u)' = Marked(u)
  BY EndIs DEF CommitPass
<1>2. /\ sentOn' = sentOn /\ twice' = twice /\ disturbed' = disturbed
      /\ nextRun' = CommitMarks(w)
  BY DEF CommitPass
<1>3. t \in Nat
  BY PassFields DEF SInv
<1>4. \A s \in Schedules :
         nextRun'[s] = IF s \in Marked(w) THEN NextDigestRun(s, t) ELSE nextRun[s]
  BY <1>2 DEF CommitMarks, Marked
<1>5. nextRun' \in [Schedules -> Nat \cup {None}]
  <2>1. \A s \in Schedules : NextDigestRun(s, t) \in Nat
    <3> SUFFICES ASSUME NEW s \in Schedules PROVE NextDigestRun(s, t) \in Nat
      OBVIOUS
    <3>1. Day(t) \in Nat /\ DayLength \in Nat /\ SendHour \in Nat /\ Period[s] \in Nat
      BY DigestsAssumption, <1>3, DayIs
    <3>2. Day(t) * DayLength \in Nat /\ Period[s] * DayLength \in Nat
      BY <3>1
    <3> QED
      BY <3>1, <3>2 DEF NextDigestRun
  <2>2. \A s \in Schedules : nextRun'[s] \in Nat \cup {None}
    BY <1>4, <2>1 DEF DInv
  <2> QED
    BY <1>2, <2>2 DEF CommitMarks
<1> HIDE DEF t
<1>6. ASSUME NEW s \in Schedules \ disturbed PROVE Tracked(s)'
  <2>1. Tracked(s)
    BY DEF DInv
  <2>2. CASE s \notin Marked(w)
    <3>1. nextRun'[s] = nextRun[s] /\ sentOn'[s] = sentOn[s] /\ s \notin twice'
      BY <1>2, <1>4, <2>1, <2>2 DEF Tracked
    <3> QED
      BY <1>1, <2>1, <2>2, <3>1, TrackedStays
  <2>3. CASE s \in Marked(w)
    <3>1. \A u \in Passes \ {w} : s \notin Pending(u) /\ s \notin Marked(u)
      BY <2>1, <2>3, HeldIs DEF Tracked
    <3>2. \A u \in Passes : s \notin Pending(u)' /\ s \notin Marked(u)'
      BY <1>1, <3>1
    <3>3. \A u \in Passes : s \notin Held(u)'
      BY <3>2 DEF Held, Pending, Marked
    <3>4. nextRun'[s] = NextDigestRun(s, t) /\ nextRun'[s] # None
      <4>1. nextRun'[s] = NextDigestRun(s, t)
        BY <1>4, <2>3
      <4>2. NextDigestRun(s, t) \in Int
        <5>1. Day(t) \in Nat /\ DayLength \in Nat /\ SendHour \in Nat /\ Period[s] \in Nat
          BY DigestsAssumption, <1>3, DayIs
        <5> QED
          BY <5>1 DEF NextDigestRun
      <4> QED
        BY DigestsAssumption, <4>1, <4>2
    <3>5. \A d \in sentOn[s] : d \in Nat /\ d <= Day(t)
      <4>1. \A d \in sentOn[s] : d = Day(t) \/ d + Period[s] <= Day(t)
        BY <2>1, <2>3 DEF Tracked, t
      <4>2. Day(t) \in Nat /\ sentOn[s] \subseteq Nat /\ Period[s] \in Nat
        BY DigestsAssumption, <1>3, DayIs DEF DInv
      <4> QED
        BY <4>1, <4>2
    <3>6. Planned(s)'
      BY <1>2, <1>3, <3>4, <3>5, SendingPlans DEF Planned
    <3>7. s \notin twice' /\ Spaced(s)'
      BY <1>2, <2>1 DEF Tracked, Spaced
    <3> QED
      BY <3>2, <3>3, <3>6, <3>7 DEF Tracked
  <2> QED
    BY <2>2, <2>3
<1> QED
  BY <1>2, <1>5, <1>6 DEF DInv

LEMMA RollbackTracks ==
    ASSUME SInv, DInv, NEW w \in Passes, Rollback(w)
    PROVE  DInv'
<1>1. /\ Pending(w)' = {} /\ Marked(w)' = {}
      /\ \A u \in Passes \ {w} : /\ local'[u].now = local[u].now
                                 /\ Pending(u)' = Pending(u) /\ Marked(u)' = Marked(u)
  BY EndIs DEF Rollback
<1>2. /\ nextRun' = nextRun /\ sentOn' = sentOn /\ twice' = twice
      /\ disturbed' = disturbed \cup (Held(w) \ local[w].todo)
  BY DEF Rollback
<1>3. local[w].todo \cap Marked(w) = {}
  BY DEF SInv, Sound, Marked
<1>4. ASSUME NEW s \in Schedules, s \notin disturbed' PROVE Tracked(s)'
  <2>1. Tracked(s)
    BY <1>2, <1>4 DEF DInv
  <2>2. s \notin Marked(w)
    BY <1>2, <1>3, <1>4, HeldIs
  <2>3. s \notin twice'
    BY <1>2, <2>1 DEF Tracked
  <2> QED
    BY <1>1, <1>2, <2>1, <2>2, <2>3, TrackedStays
<1> QED
  BY <1>2, <1>4 DEF DInv

LEMMA TrackedNext ==
    ASSUME SInv, DInv, [DigestsNext]_digestVars
    PROVE  DInv'
<1>1. ASSUME NEW w \in Passes, SendDigest(w) \/ LoadDevices(w) \/ Wait(w)
      PROVE  DInv'
  <2>1. /\ local'[w].now = local[w].now /\ Pending(w)' = Pending(w) /\ Marked(w)' = Marked(w)
        /\ \A u \in Passes \ {w} : local'[u] = local[u]
    BY <1>1, SendIs, LoadIs, WaitIs
  <2>2. \A u \in Passes \ {w} : Pending(u)' = Pending(u) /\ Marked(u)' = Marked(u)
    BY <2>1 DEF Pending, Marked
  <2>3. Kept
    BY <1>1 DEF SendDigest, LoadDevices, Wait, digestHistory, Kept
  <2> QED
    BY <2>1, <2>2, <2>3, HeldStays
<1>2. ASSUME local' = local, Kept PROVE DInv'
  BY <1>2, HeldStays DEF Pending, Marked
<1>3. ASSUME NEW w \in Passes, NEW d \in Device, Route(w, d) PROVE DInv'
  <2>1. local' = local /\ Kept
    BY <1>3 DEF Route, Kept
  <2> QED
    BY <1>2, <2>1
<1>4. ASSUME ClockTick \/ UNCHANGED digestVars PROVE DInv'
  <2>1. local' = local /\ Kept
    BY <1>4 DEF ClockTick, digestVars, digestHistory, Kept
  <2> QED
    BY <1>2, <2>1
<1>5. ASSUME NEW w \in Passes, Deadlocked(w) \/ PassFails(w) PROVE DInv'
  BY <1>5, RollbackTracks DEF Deadlocked, PassFails
<1> QED
  BY <1>1, <1>3, <1>4, <1>5, DispatchTracks, MarkTracks, CommitTracks DEF DigestsNext, PassStep

LEMMA TrackedInit == ASSUME DigestsInit PROVE DInv
<1>1. /\ nextRun \in [Schedules -> Nat \cup {None}]
      /\ sentOn = [s \in Schedules |-> {}] /\ twice = {}
      /\ local = [w \in Passes |-> Blank]
  BY DigestsAssumption DEF DigestsInit
<1>2. \A w \in Passes : Held(w) = {} /\ Pending(w) = {} /\ Marked(w) = {}
  BY <1>1, BlankIs DEF Held, Pending, Marked
<1>3. \A s \in Schedules : Tracked(s)
  BY <1>1, <1>2 DEF Tracked, Spaced, Planned
<1> QED
  BY <1>1, <1>3 DEF DInv

\* However passes of dispatch_digests overlap, come late or end each other, and
\* whatever the clock does between them: a schedule that no two passes held and
\* that no failed pass had sent is sent at most once for a day, and its days are
\* a period apart.
THEOREM DigestsAreSpacedOut == DigestsSpec => []SpacedOut
<1>1. DigestsInit => SInv /\ DInv
  BY SoundInit, TrackedInit
<1>2. SInv /\ DInv /\ [DigestsNext]_digestVars => (SInv /\ DInv)'
  BY SoundNext, TrackedNext
<1>3. SInv /\ DInv => SpacedOut
  BY DEF DInv, Tracked, Spaced, SpacedOut
<1> QED
  BY <1>1, <1>2, <1>3, PTL DEF DigestsSpec

---------------------------------------------------------------------------
(* Devices are reached once *)

LEMMA PlatformIs ==
    /\ ResolvePlatform("android") = "fcm" /\ ResolvePlatform("ios") = "apns"
    /\ ResolvePlatform("web") = "webpush" /\ ResolvePlatform("email") = "email"
    /\ ResolvePlatform("desktop") = "desktop"
<1>1. DOMAIN PlatformAliases = {"ios", "android", "web"}
  BY DEF PlatformAliases
<1>2. /\ PlatformAliases["ios"] = "apns" /\ PlatformAliases["android"] = "fcm"
      /\ PlatformAliases["web"] = "webpush"
  BY DEF PlatformAliases
<1> QED
  BY <1>1, <1>2 DEF ResolvePlatform

LEMMA SequencesOfTwo ==
    ASSUME NEW a, NEW b
    PROVE  /\ <<a>> \o <<b>> = <<a, b>> /\ <<a>> \o <<>> = <<a>>
           /\ Head(<<a, b>>) = a /\ Tail(<<a, b>>) = <<b>>
           /\ Head(<<a>>) = a /\ Tail(<<a>>) = <<>>
           /\ <<a, b>> # <<>> /\ <<a>> # <<>>
<1> DEFINE s == <<a>> \o <<b>>
           t == <<a>> \o <<>>
<1>1. s \in Seq({a, b}) /\ Len(s) = 2 /\ s[1] = a /\ s[2] = b
  OBVIOUS
<1>2. t \in Seq({a}) /\ Len(t) = 1 /\ t[1] = a
  OBVIOUS
<1> HIDE DEF s, t
<1>3. s = <<a, b>> /\ t = <<a>>
  BY <1>1, <1>2
<1>4. /\ Head(<<a, b>>) = a /\ Tail(<<a, b>>) = <<b>>
      /\ Head(<<a>>) = a /\ Tail(<<a>>) = <<>>
      /\ <<a, b>> # <<>> /\ <<a>> # <<>>
  OBVIOUS
<1> QED
  BY <1>3, <1>4 DEF s, t

LEMMA ChainIs ==
    /\ BuildChain("android") = <<"fcm", "email">> /\ BuildChain("ios") = <<"apns">>
    /\ BuildChain("web") = <<"webpush", "email">> /\ BuildChain("email") = <<"email">>
    /\ BuildChain("desktop") = <<>>
<1>1. /\ <<"fcm">> \o <<"email">> = <<"fcm", "email">>
      /\ <<"webpush">> \o <<"email">> = <<"webpush", "email">>
      /\ <<"apns">> \o <<>> = <<"apns">> /\ <<"email">> \o <<>> = <<"email">>
  BY SequencesOfTwo
<1> QED
  BY <1>1, PlatformIs DEF BuildChain, FallbackChain, Platform

\* What a step of the router leaves of a chain.
LEMMA ChainOnIs ==
    ASSUME NEW h \in Hint, NEW token \in Token, NEW chain \in {BuildChain(h), <<"email">>},
           chain # <<>>
    PROVE  /\ Tail(chain) \in {<<>>, <<"email">>}
           /\ Head(chain) = "fcm" => Tail(chain) = <<"email">>
           /\ ~ ValidateToken(Head(chain), token) /\ Tail(chain) = <<>> =>
                ResolvePlatform(h) = "apns" /\ token = "empty"
<1>1. /\ Head(<<"fcm", "email">>) = "fcm" /\ Tail(<<"fcm", "email">>) = <<"email">>
      /\ Head(<<"webpush", "email">>) = "webpush" /\ Tail(<<"webpush", "email">>) = <<"email">>
      /\ Head(<<"apns">>) = "apns" /\ Tail(<<"apns">>) = <<>>
      /\ Head(<<"email">>) = "email" /\ Tail(<<"email">>) = <<>> /\ <<"email">> # <<>>
  BY SequencesOfTwo
<1>2. ValidateToken("email", token) /\ (ValidateToken("apns", token) <=> token # "empty")
  BY DEF ValidateToken
<1>3. CASE chain = <<"email">>
  BY <1>1, <1>2, <1>3
<1>4. CASE h = "android" /\ chain = BuildChain(h)
  BY <1>1, <1>4, ChainIs
<1>5. CASE h = "ios" /\ chain = BuildChain(h)
  BY <1>1, <1>2, <1>5, ChainIs, PlatformIs
<1>6. CASE h = "web" /\ chain = BuildChain(h)
  BY <1>1, <1>6, ChainIs
<1>7. CASE h \in {"email", "desktop"} /\ chain = BuildChain(h)
  BY <1>3, <1>7, ChainIs
<1> QED
  BY <1>3, <1>4, <1>5, <1>6, <1>7 DEF Hint

\* The digest can reach no device over this chain.
Stuck(d) == \/ BuildChain(device[d].platform) = <<>>
            \/ /\ ResolvePlatform(device[d].platform) = "apns"
               /\ device[d].token = "empty"

\* How far the digest of the schedule at hand is for one device.
OnItsWay(w, d) ==
    LET active == d \in ActiveDevices(local[w].current)
    IN  /\ routes[w][d] # <<>> =>
              /\ active
              /\ routes[w][d] \in {BuildChain(device[d].platform), <<"email">>}
              /\ got[w][d] > 0 => <<w, d>> \in lostAnswer
        /\ got[w][d] > 0 => active
        /\ got[w][d] > 1 => <<w, d>> \in lostAnswer
        /\ routes[w][d] = <<>> /\ active /\ got[w][d] = 0 => Stuck(d)

AtRest(w) == /\ routes[w] = NoRoutes /\ got[w] = NoneGot
             /\ \A d \in Device : <<w, d>> \notin lostAnswer

Router(w) == IF stage[w] = "routing" THEN \A d \in Device : OnItsWay(w, d) ELSE AtRest(w)

\* The router, of every pass.
RInv ==
    /\ device \in Setups
    /\ DOMAIN routes = Passes /\ \A w \in Passes : DOMAIN routes[w] = Device
    /\ got \in [Passes -> [Device -> Nat]]
    /\ \A w \in Passes : Router(w)

\* A pass the step does not touch.
LEMMA RouterStays ==
    ASSUME NEW w, Router(w), device' = device,
           stage'[w] = stage[w], routes'[w] = routes[w], got'[w] = got[w],
           local'[w].current = local[w].current,
           \A d \in Device : <<w, d>> \in lostAnswer' <=> <<w, d>> \in lostAnswer
    PROVE  Router(w)'
BY DEF Router, OnItsWay, AtRest, Stuck, ActiveDevices, NoRoutes, NoneGot

\* A pass that is done with its devices, or ends.
LEMMA ComesToRest ==
    ASSUME RInv, NEW w \in Passes, device' = device,
           DOMAIN routes' = Passes, routes'[w] = NoRoutes,
           \A u \in Passes \ {w} : routes'[u] = routes[u],
           got' = [got EXCEPT ![w] = NoneGot],
           lostAnswer' = {x \in lostAnswer : x[1] # w},
           stage'[w] # "routing",
           \A u \in Passes \ {w} : /\ stage'[u] = stage[u]
                                   /\ local'[u].current = local[u].current
    PROVE  RInv'
<1>1. got'[w] = NoneGot /\ \A u \in Passes \ {w} : got'[u] = got[u]
  BY DEF RInv
<1>2. NoneGot \in [Device -> Nat] /\ DOMAIN NoRoutes = Device
  BY DEF NoneGot, NoRoutes
<1>3. got' \in [Passes -> [Device -> Nat]]
  BY <1>2 DEF RInv
<1>4. \A u \in Passes : DOMAIN routes'[u] = Device
  BY <1>1, <1>2 DEF RInv
<1>5. ASSUME NEW u \in Passes PROVE Router(u)'
  <2>1. CASE u = w
    <3>1. \A d \in Device : <<u, d>> \notin lostAnswer'
      BY <2>1
    <3>2. AtRest(u)'
      BY <1>1, <2>1, <3>1 DEF AtRest, NoRoutes, NoneGot
    <3> QED
      BY <2>1, <3>2 DEF Router
  <2>2. CASE u # w
    <3>1. \A d \in Device : <<u, d>> \in lostAnswer' <=> <<u, d>> \in lostAnswer
      BY <2>2
    <3>2. Router(u)
      BY DEF RInv
    <3> QED
      BY <1>1, <2>2, <3>1, <3>2, RouterStays
  <2> QED
    BY <2>1, <2>2
<1> QED
  BY <1>1, <1>3, <1>4, <1>5 DEF RInv

LEMMA LoadRoutes ==
    ASSUME SInv, RInv, NEW w \in Passes, LoadDevices(w)
    PROVE  RInv'
<1>1. /\ stage[w] = "devices" /\ stage' = [stage EXCEPT ![w] = "routing"]
      /\ device' = device /\ got' = got /\ lostAnswer' = lostAnswer
      /\ routes' = [routes EXCEPT ![w] =
            [d \in Device |-> IF d \in ActiveDevices(local[w].current)
                                THEN BuildChain(device[d].platform) ELSE <<>>]]
  BY DEF LoadDevices, digestHistory
<1>2. /\ local'[w].current = local[w].current
      /\ \A u \in Passes \ {w} : local'[u] = local[u]
  BY LoadIs
<1>3. /\ DOMAIN routes' = Passes
      /\ DOMAIN routes'[w] = Device
      /\ \A d \in Device : routes'[w][d] = IF d \in ActiveDevices(local[w].current)
                                             THEN BuildChain(device[d].platform) ELSE <<>>
      /\ \A u \in Passes \ {w} : routes'[u] = routes[u]
  BY <1>1 DEF RInv
<1>4. stage'[w] = "routing" /\ \A u \in Passes \ {w} : stage'[u] = stage[u]
  BY <1>1 DEF SInv
<1>5. \A u \in Passes \ {w} : Router(u)'
  BY <1>1, <1>2, <1>3, <1>4, RouterStays DEF RInv
<1>6. AtRest(w)
  BY <1>1 DEF RInv, Router
<1>7. ASSUME NEW d \in Device PROVE OnItsWay(w, d)'
  <2>1. got'[w][d] = 0 /\ ~ got'[w][d] > 0 /\ ~ got'[w][d] > 1
    BY <1>1, <1>6 DEF AtRest, NoneGot
  <2>2. d \in ActiveDevices(local[w].current) <=> d \in ActiveDevices(local[w].current)'
    BY <1>1, <1>2 DEF ActiveDevices
  <2> QED
    BY <1>1, <1>3, <2>1, <2>2 DEF OnItsWay, Stuck
<1>8. Router(w)'
  BY <1>4, <1>7 DEF Router
<1> QED
  BY <1>1, <1>3, <1>5, <1>8 DEF RInv

LEMMA RouteRoutes ==
    ASSUME RInv, NEW w \in Passes, NEW d \in Device, Route(w, d)
    PROVE  RInv'
<1> DEFINE c == routes[w][d]
           n == got[w][d]
           dev == device[d]
<1>1. /\ stage[w] = "routing" /\ c # <<>> /\ UNCHANGED <<device, stage, local>>
      /\ \/ /\ ~ ValidateToken(Head(c), dev.token)
            /\ routes' = [routes EXCEPT ![w][d] = Tail(@)]
            /\ got' = got /\ lostAnswer' = lostAnswer
         \/ /\ routes' = [routes EXCEPT ![w][d] = <<>>]
            /\ got' = [got EXCEPT ![w][d] = @ + 1] /\ lostAnswer' = lostAnswer
         \/ /\ Head(c) = "fcm"
            /\ routes' = [routes EXCEPT ![w][d] = Tail(@)]
            /\ \/ got' = got /\ lostAnswer' = lostAnswer
               \/ /\ got' = [got EXCEPT ![w][d] = @ + 1]
                  /\ lostAnswer' = lostAnswer \cup {<<w, d>>}
  BY DEF Route, Skip, Delivered, Failed
<1>2. /\ routes' = [routes EXCEPT ![w][d] = Tail(@)] \/ routes' = [routes EXCEPT ![w][d] = <<>>]
      /\ got' = got \/ got' = [got EXCEPT ![w][d] = @ + 1]
      /\ \A u \in Passes, e \in Device : u # w \/ e # d =>
            (<<u, e>> \in lostAnswer' <=> <<u, e>> \in lostAnswer)
  BY <1>1
<1>3. /\ DOMAIN routes' = Passes /\ \A u \in Passes : DOMAIN routes'[u] = Device
      /\ \A u \in Passes \ {w} : routes'[u] = routes[u]
      /\ \A e \in Device \ {d} : routes'[w][e] = routes[w][e]
  BY <1>2 DEF RInv
<1>4. n \in Nat
  BY DEF RInv
<1>5. got' \in [Passes -> [Device -> Nat]]
  <2>1. n + 1 \in Nat /\ got \in [Passes -> [Device -> Nat]]
    BY <1>4 DEF RInv
  <2>2. [got[w] EXCEPT ![d] = n + 1] \in [Device -> Nat]
    BY <2>1
  <2>3. got' = [got EXCEPT ![w][d] = @ + 1] => got' \in [Passes -> [Device -> Nat]]
    BY <2>1, <2>2
  <2> QED
    BY <1>2, <2>1, <2>3
<1>6. /\ \A u \in Passes \ {w} : got'[u] = got[u]
      /\ \A e \in Device \ {d} : got'[w][e] = got[w][e]
  BY <1>2 DEF RInv
<1>7. \A u \in Passes \ {w} : Router(u)'
  <2> SUFFICES ASSUME NEW u \in Passes \ {w} PROVE Router(u)'
    OBVIOUS
  <2>1. Router(u)
    BY DEF RInv
  <2> QED
    BY <1>1, <1>2, <1>3, <1>6, <2>1, RouterStays
<1>8. \A e \in Device : OnItsWay(w, e)
  BY <1>1 DEF RInv, Router
<1>9. \A e \in Device : e \in ActiveDevices(local[w].current)
                        <=> e \in ActiveDevices(local[w].current)'
  BY <1>1 DEF ActiveDevices
<1>10. ASSUME NEW e \in Device, e # d PROVE OnItsWay(w, e)'
  <2>1. <<w, e>> \in lostAnswer' <=> <<w, e>> \in lostAnswer
    BY <1>2, <1>10
  <2>2. OnItsWay(w, e)
    BY <1>8
  <2> QED
    BY <1>1, <1>3, <1>6, <1>9, <1>10, <2>1, <2>2 DEF OnItsWay, Stuck
<1>11. /\ d \in ActiveDevices(local[w].current)
       /\ c \in {BuildChain(dev.platform), <<"email">>}
       /\ n > 0 => <<w, d>> \in lostAnswer
  BY <1>1, <1>8 DEF OnItsWay
<1>12. dev.platform \in Hint /\ dev.token \in Token
  BY DigestsAssumption DEF RInv
<1>13. /\ Tail(c) \in {<<>>, <<"email">>}
       /\ Head(c) = "fcm" => Tail(c) = <<"email">>
       /\ ~ ValidateToken(Head(c), dev.token) /\ Tail(c) = <<>> => Stuck(d)
  <2> HIDE DEF c
  <2> QED
    BY <1>1, <1>11, <1>12, ChainOnIs DEF Stuck
<1>14. /\ routes' = [routes EXCEPT ![w][d] = Tail(@)] => routes'[w][d] = Tail(c)
       /\ routes' = [routes EXCEPT ![w][d] = <<>>] => routes'[w][d] = <<>>
       /\ got' = got => got'[w][d] = n
       /\ got' = [got EXCEPT ![w][d] = @ + 1] => got'[w][d] = n + 1
  BY DEF RInv
<1>15. <<"email">> # <<>>
  BY SequencesOfTwo
<1>16. Stuck(d)' <=> Stuck(d)
  BY <1>1 DEF Stuck
<1>17. dev' = dev
  BY <1>1
<1> DEFINE m == got'[w][d]
           rest == routes'[w][d]
<1>18. \/ /\ rest = Tail(c) /\ m = n /\ lostAnswer' = lostAnswer
          /\ Tail(c) = <<>> => Stuck(d)
       \/ rest = <<>> /\ m = n + 1 /\ lostAnswer' = lostAnswer
       \/ /\ rest = <<"email">>
          /\ \/ m = n /\ lostAnswer' = lostAnswer
             \/ m = n + 1 /\ <<w, d>> \in lostAnswer'
  BY <1>1, <1>13, <1>14
<1>19. OnItsWay(w, d)'
  <2>1. /\ rest # <<>> => rest = <<"email">> /\ (m > 0 => <<w, d>> \in lostAnswer')
        /\ m > 1 => <<w, d>> \in lostAnswer'
        /\ rest = <<>> /\ m = 0 => Stuck(d)
    <3> HIDE DEF rest, m, n, c
    <3>1. /\ Tail(c) # <<>> => Tail(c) = <<"email">>
          /\ n > 0 => <<w, d>> \in lostAnswer
      BY <1>11, <1>13
    <3>2. CASE rest = Tail(c) /\ m = n /\ lostAnswer' = lostAnswer
               /\ (Tail(c) = <<>> => Stuck(d))
      BY <1>4, <3>1, <3>2
    <3>3. CASE rest = <<>> /\ m = n + 1 /\ lostAnswer' = lostAnswer
      BY <1>4, <3>1, <3>3
    <3>4. CASE rest = <<"email">> /\ m = n /\ lostAnswer' = lostAnswer
      BY <1>4, <1>15, <3>1, <3>4
    <3>5. CASE rest = <<"email">> /\ m = n + 1 /\ <<w, d>> \in lostAnswer'
      BY <1>4, <1>15, <3>5
    <3> QED
      BY <1>18, <3>2, <3>3, <3>4, <3>5
  <2> QED
    BY <1>9, <1>11, <1>16, <2>1 DEF OnItsWay
<1>20. Router(w)'
  BY <1>1, <1>10, <1>19 DEF Router
<1> QED
  BY <1>1, <1>3, <1>5, <1>7, <1>20 DEF RInv

LEMMA RouterNext ==
    ASSUME SInv, RInv, [DigestsNext]_digestVars
    PROVE  RInv'
<1>1. ASSUME UNCHANGED <<device, routes, got, lostAnswer>>,
             \A u \in Passes : Router(u)'
      PROVE  RInv'
  BY <1>1 DEF RInv
<1>2. ASSUME NEW w \in Passes, DispatchDigests(w) \/ SendDigest(w) \/ Wait(w)
      PROVE  RInv'
  <2>1. UNCHANGED <<device, routes, got, lostAnswer>>
    BY <1>2 DEF DispatchDigests, SendDigest, Wait, digestHistory
  <2>2. \A u \in Passes \ {w} : stage'[u] = stage[u] /\ local'[u] = local[u]
    <3>1. \A u \in Passes \ {w} : local'[u] = local[u]
      BY <1>2, DispatchIs, SendIs, WaitIs
    <3>2. \A u \in Passes \ {w} : stage'[u] = stage[u]
      BY <1>2 DEF DispatchDigests, SendDigest, Wait, SInv
    <3> QED
      BY <3>1, <3>2
  <2>3. stage[w] # "routing" /\ stage'[w] # "routing"
    BY <1>2 DEF DispatchDigests, SendDigest, Wait, SInv
  <2>4. Router(w)'
    <3>1. AtRest(w)
      BY <2>3 DEF RInv, Router
    <3> QED
      BY <2>1, <2>3, <3>1 DEF AtRest, Router, NoRoutes, NoneGot
  <2>5. \A u \in Passes \ {w} : Router(u)'
    BY <2>1, <2>2, RouterStays DEF RInv
  <2> QED
    BY <1>1, <2>1, <2>4, <2>5
<1>3. ASSUME NEW w \in Passes, Mark(w) PROVE RInv'
  <2>1. /\ stage[w] = "routing" /\ routes[w] = NoRoutes /\ device' = device
        /\ stage' = [stage EXCEPT ![w] = IF local[w].todo = {} THEN "commit" ELSE "loop"]
        /\ got' = [got EXCEPT ![w] = NoneGot] /\ routes' = routes
        /\ lostAnswer' = {x \in lostAnswer : x[1] # w}
    BY <1>3 DEF Mark
  <2>2. DOMAIN routes' = Passes /\ \A u \in Passes : routes'[u] = routes[u]
    BY <2>1 DEF RInv
  <2>3. stage'[w] # "routing" /\ \A u \in Passes \ {w} : stage'[u] = stage[u]
    BY <2>1 DEF SInv
  <2>4. \A u \in Passes \ {w} : local'[u] = local[u]
    BY <1>3, MarkIs
  <2> QED
    BY <2>1, <2>2, <2>3, <2>4, ComesToRest
<1>4. ASSUME NEW w \in Passes, CommitPass(w) \/ Deadlocked(w) \/ PassFails(w)
      PROVE  RInv'
  <2>1. End(w) /\ now' = now /\ device' = device
    BY <1>4 DEF CommitPass, Deadlocked, PassFails, Rollback
  <2>2. /\ routes' = [routes EXCEPT ![w] = NoRoutes] /\ got' = [got EXCEPT ![w] = NoneGot]
        /\ lostAnswer' = {x \in lostAnswer : x[1] # w}
    BY <2>1 DEF End
  <2>4. /\ DOMAIN routes' = Passes /\ routes'[w] = NoRoutes
        /\ \A u \in Passes \ {w} : routes'[u] = routes[u]
    BY <2>2 DEF RInv
  <2>3. /\ stage'[w] = "idle" /\ \A u \in Passes \ {w} : stage'[u] = stage[u]
        /\ \A u \in Passes \ {w} : local'[u].current = local[u].current
    BY <2>1, EndIs
  <2> QED
    BY <2>1, <2>2, <2>3, <2>4, ComesToRest
<1>5. ASSUME ClockTick \/ UNCHANGED digestVars PROVE RInv'
  <2>1. UNCHANGED <<device, routes, got, lostAnswer, stage, local>>
    BY <1>5 DEF ClockTick, digestVars, digestHistory
  <2> QED
    BY <1>1, <2>1, RouterStays DEF RInv
<1> QED
  BY <1>2, <1>3, <1>4, <1>5, LoadRoutes, RouteRoutes DEF DigestsNext, PassStep

LEMMA RouterInit == ASSUME DigestsInit PROVE RInv
<1>1. /\ routes = [w \in Passes |-> NoRoutes] /\ got = [w \in Passes |-> NoneGot]
      /\ lostAnswer = {} /\ device \in Setups /\ \A w \in Passes : stage[w] # "routing"
  BY DEF DigestsInit
<1>2. DOMAIN NoRoutes = Device /\ NoneGot \in [Device -> Nat]
  BY DEF NoRoutes, NoneGot
<1>3. \A w \in Passes : Router(w)
  BY <1>1 DEF Router, AtRest
<1> QED
  BY <1>1, <1>2, <1>3 DEF RInv

\* NotificationRouter's fallback chains, for any devices, platforms and tokens:
\* when the router is done, each enabled device of the user has got the digest,
\* but those its chain cannot reach; and none got it twice, unless an answer of
\* FCM was lost.
THEOREM DevicesAreReached == DigestsSpec => []DevicesReachedOnce
<1>1. DigestsInit => SInv /\ RInv
  BY SoundInit, RouterInit
<1>2. SInv /\ RInv /\ [DigestsNext]_digestVars => (SInv /\ RInv)'
  BY SoundNext, RouterNext
<1>3. SInv /\ RInv => DevicesReachedOnce
  <2> SUFFICES ASSUME SInv, RInv, NEW w \in Passes, NEW d \in Device
               PROVE  /\ got[w][d] > 1 => <<w, d>> \in lostAnswer
                      /\ got[w][d] > 0 => device[d].enabled /\ device[d].owner = local[w].current
                      /\ stage[w] = "routing" /\ routes[w] = NoRoutes
                         /\ d \in ActiveDevices(local[w].current) /\ got[w][d] = 0 => Stuck(d)
    BY DEF DevicesReachedOnce, Stuck
  <2>1. CASE stage[w] = "routing"
    <3>1. OnItsWay(w, d)
      BY <2>1 DEF RInv, Router
    <3>2. routes[w] = NoRoutes => routes[w][d] = <<>>
      BY DEF NoRoutes
    <3>3. d \in ActiveDevices(local[w].current) =>
            device[d].enabled /\ device[d].owner = local[w].current
      BY DEF ActiveDevices
    <3> QED
      BY <3>1, <3>2, <3>3 DEF OnItsWay
  <2>2. CASE stage[w] # "routing"
    <3>1. got[w][d] = 0
      BY <2>2 DEF RInv, Router, AtRest, NoneGot
    <3> QED
      BY <2>2, <3>1
  <2> QED
    BY <2>1, <2>2
<1> QED
  BY <1>1, <1>2, <1>3, PTL DEF DigestsSpec

---------------------------------------------------------------------------
(* Type correctness *)

FInv == faults \in 0 .. MaxFaults

LEMMA FaultsNext ==
    ASSUME FInv, [DigestsNext]_digestVars
    PROVE  FInv'
<1>1. ASSUME faults' = faults \/ (faults < MaxFaults /\ faults' = faults + 1) PROVE FInv'
  BY DigestsAssumption, <1>1 DEF FInv
<1>2. ASSUME NEW w \in Passes, NEW d \in Device, Route(w, d) PROVE FInv'
  BY <1>1, <1>2 DEF Route, Skip, Delivered, Failed
<1>3. ASSUME NEW w \in Passes,
             \/ DispatchDigests(w) \/ SendDigest(w) \/ LoadDevices(w) \/ Wait(w)
             \/ Mark(w) \/ CommitPass(w)
      PROVE  FInv'
  BY <1>1, <1>3 DEF DispatchDigests, SendDigest, LoadDevices, Wait, Mark, CommitPass
<1>4. ASSUME NEW w \in Passes, Deadlocked(w) \/ PassFails(w) PROVE FInv'
  BY <1>1, <1>4 DEF Deadlocked, PassFails
<1>5. ASSUME ClockTick \/ UNCHANGED digestVars PROVE FInv'
  BY <1>1, <1>5 DEF ClockTick, digestVars
<1> QED
  BY <1>2, <1>3, <1>4, <1>5 DEF DigestsNext, PassStep

LEMMA RoutesAreShort ==
    ASSUME RInv, NEW w \in Passes, NEW d \in Device
    PROVE  Len(routes[w][d]) <= 2
<1>1. device[d].platform \in Hint
  BY DigestsAssumption DEF RInv
<1>2. routes[w][d] \in {<<>>, BuildChain(device[d].platform), <<"email">>}
  BY DEF RInv, Router, OnItsWay, AtRest, NoRoutes
<1> DEFINE short == {<<>>, <<"email">>, <<"apns">>, <<"fcm", "email">>, <<"webpush", "email">>}
<1>3. \A c \in short : Len(c) <= 2
  <2>1. /\ Len(<<>>) = 0 /\ Len(<<"email">>) = 1 /\ Len(<<"apns">>) = 1
        /\ Len(<<"fcm", "email">>) = 2 /\ Len(<<"webpush", "email">>) = 2
    OBVIOUS
  <2> SUFFICES ASSUME NEW c \in short PROVE Len(c) <= 2
    OBVIOUS
  <2>2. CASE c = <<>>
    BY <2>1, <2>2
  <2>3. CASE c = <<"email">>
    BY <2>1, <2>3
  <2>4. CASE c = <<"apns">>
    BY <2>1, <2>4
  <2>5. CASE c = <<"fcm", "email">>
    BY <2>1, <2>5
  <2>6. CASE c = <<"webpush", "email">>
    BY <2>1, <2>6
  <2> QED
    BY <2>2, <2>3, <2>4, <2>5, <2>6
<1>4. /\ BuildChain("android") \in short /\ BuildChain("ios") \in short
      /\ BuildChain("web") \in short /\ BuildChain("email") \in short
      /\ BuildChain("desktop") \in short /\ <<>> \in short /\ <<"email">> \in short
  BY ChainIs
<1>5. \A h \in Hint : BuildChain(h) \in short
  <2> HIDE DEF short
  <2> QED
    BY <1>4 DEF Hint
<1>6. routes[w][d] \in short
  <2> HIDE DEF short
  <2> QED
    BY <1>1, <1>2, <1>4, <1>5
<1> HIDE DEF short
<1> QED
  BY <1>3, <1>6

\* Types and bounds of dispatch_digests, and no row of digest_schedules is locked
\* by two passes.
THEOREM DigestsTypes == DigestsSpec => []DigestsTypeOK
<1>1. DigestsInit => SInv /\ DInv /\ RInv /\ FInv
  BY DigestsAssumption, SoundInit, TrackedInit, RouterInit DEF DigestsInit, FInv
<1>2. SInv /\ DInv /\ RInv /\ FInv /\ [DigestsNext]_digestVars => (SInv /\ DInv /\ RInv /\ FInv)'
  BY SoundNext, TrackedNext, RouterNext, FaultsNext
<1>3. ASSUME SInv, DInv, RInv, FInv PROVE DigestsTypeOK
  <2>1. ASSUME NEW w \in Passes
        PROVE  /\ local[w].now \in 0 .. now /\ local[w].current \in Schedules \cup {None}
               /\ Held(w) \subseteq Schedules
    <3>1. local[w] \in Pass /\ local[w].now <= now
      BY <1>3 DEF SInv, Sound
    <3>2. local[w].now \in Nat /\ now \in Nat
      BY <1>3, <3>1, PassFields DEF SInv
    <3> QED
      BY <3>1, <3>2, PassFields DEF Held
  <2> QED
    BY <1>3, <2>1, RoutesAreShort DEF DigestsTypeOK, SInv, LocksAreApart, DInv, FInv, Places
<1> QED
  BY <1>1, <1>2, <1>3, PTL DEF DigestsSpec
=============================================================================
