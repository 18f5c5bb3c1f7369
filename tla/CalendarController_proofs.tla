--------------------- MODULE CalendarController_proofs ---------------------
(***************************************************************************)
(* Proofs about CalendarController for any number of overlapping flushes,  *)
(* edits and failing requests.                                             *)
(***************************************************************************)
EXTENDS CalendarController, TLAPS

---------------------------------------------------------------------------
(* Stamps of sequences of operations *)

LEMMA StampsOfEmpty == Stamps(<<>>) = {}
BY DEF Stamps

LEMMA StampsOfAppend ==
  ASSUME NEW ops \in Seq(PendingCalendarOperation),
         NEW op \in PendingCalendarOperation
  PROVE  Stamps(Append(ops, op)) = Stamps(ops) \cup {op.event.ver}
<1>1. ASSUME NEW n \in Stamps(Append(ops, op))
      PROVE  n \in Stamps(ops) \cup {op.event.ver}
  BY <1>1 DEF Stamps
<1>2. ASSUME NEW n \in Stamps(ops)
      PROVE  n \in Stamps(Append(ops, op))
  BY <1>2 DEF Stamps
<1>3. op.event.ver \in Stamps(Append(ops, op))
  <2>1. Len(ops) + 1 \in DOMAIN Append(ops, op)
    OBVIOUS
  <2>2. Append(ops, op)[Len(ops) + 1] = op
    OBVIOUS
  <2>3. QED
    BY <2>1, <2>2 DEF Stamps
<1>4. QED
  BY <1>1, <1>2, <1>3

LEMMA StampsOfTail ==
  ASSUME NEW ops \in Seq(PendingCalendarOperation), ops # <<>>
  PROVE  Stamps(ops) \subseteq {Head(ops).event.ver} \cup Stamps(Tail(ops))
<1> SUFFICES ASSUME NEW i \in 1..Len(ops)
             PROVE  \/ ops[i].event.ver = Head(ops).event.ver
                    \/ ops[i].event.ver \in Stamps(Tail(ops))
  BY DEF Stamps
<1>1. CASE i = 1
  BY <1>1
<1>2. CASE i # 1
  <2>1. i - 1 \in DOMAIN Tail(ops) /\ Tail(ops)[i - 1] = ops[i]
    BY <1>2
  <2>2. QED
    BY <2>1 DEF Stamps
<1>3. QED
  BY <1>1, <1>2

---------------------------------------------------------------------------
(* Types of what the parts of an action compute *)

LEMMA CreatedType ==
  ASSUME TypeOK, NEW event \in CalendarEvent
  PROVE  Created(event) \in CalendarEvent
<1>1. <<"server", lastId + 1>> \in EventId
  BY DEF TypeOK, EventId
<1>2. QED
  BY <1>1 DEF Created, CalendarEvent

LEMMA UpdatedType ==
  ASSUME TypeOK, NEW event \in CalendarEvent
  PROVE  Updated(event) \in CalendarEvent
<1>1. CASE Known(event.id)
  <2>1. RemoteEvent(event.id) \in CalendarEvent
    BY <1>1 DEF Known, RemoteEvent, TypeOK
  <2>2. QED
    BY <1>1, <2>1 DEF Updated, CalendarEvent, Stamp
<1>2. CASE ~Known(event.id)
  BY <1>2 DEF Updated
<1>3. QED
  BY <1>1, <1>2

LEMMA OperationEvent ==
  ASSUME NEW op \in PendingCalendarOperation
  PROVE  op.event \in CalendarEvent /\ op.event.ver \in Stamp
BY DEF PendingCalendarOperation, CalendarEvent

LEMMA ServeType ==
  ASSUME TypeOK, NEW op \in PendingCalendarOperation, Serve(op)
  PROVE  /\ remoteEvents' \subseteq CalendarEvent
         /\ lastId' \in Nat
         /\ sent' \subseteq Stamp
<1>1. op.event \in CalendarEvent /\ op.event.ver \in Stamp
  BY OperationEvent
<1>2. Put(Created(op.event)) \subseteq CalendarEvent
  BY <1>1, CreatedType DEF Put, TypeOK
<1>3. Put(Updated(op.event)) \subseteq CalendarEvent
  BY <1>1, UpdatedType DEF Put, TypeOK
<1>4. MarkDeleted(op.event.id) \subseteq CalendarEvent
  BY DEF MarkDeleted, TypeOK, CalendarEvent
<1>5. remoteEvents' \subseteq CalendarEvent
  BY <1>2, <1>3, <1>4 DEF Serve, PendingCalendarOperation
<1>6. lastId' \in {lastId, lastId + 1}
  BY DEF Serve
<1>7. sent' \subseteq Stamp
  BY <1>1 DEF Serve, TypeOK
<1>8. lastId' \in Nat
  BY <1>6 DEF TypeOK
<1>9. QED
  BY <1>5, <1>7, <1>8

LEMMA ThrowType ==
  ASSUME TypeOK, NEW op \in PendingCalendarOperation, Throw(op)
  PROVE  /\ remoteEvents' \subseteq CalendarEvent
         /\ lastId' \in Nat
         /\ sent' \subseteq Stamp
         /\ contended' \subseteq Stamp
         /\ failures' \in Nat
BY ServeType, OperationEvent DEF Throw, remote, TypeOK

LEMMA ScreenType ==
  ASSUME TypeOK, NEW id, NEW event \in CalendarEvent
  PROVE  /\ ReplaceEvent(id, event) \subseteq CalendarEvent
         /\ RemoveEvent(id) \subseteq CalendarEvent
         /\ ApplyOrInsert(event) \subseteq CalendarEvent
BY DEF ReplaceEvent, RemoveEvent, ApplyOrInsert, TypeOK

LEMMA StampsType ==
  ASSUME NEW ops \in Seq(PendingCalendarOperation)
  PROVE  Stamps(ops) \subseteq Stamp
<1> SUFFICES ASSUME NEW i \in 1..Len(ops)
             PROVE  ops[i].event.ver \in Stamp
  BY DEF Stamps
<1> QED
  BY OperationEvent

LEMMA EnqueueType ==
  ASSUME TypeOK, NEW op \in PendingCalendarOperation, EnqueueOperation(op)
  PROVE  /\ pendingOperations' \in Seq(PendingCalendarOperation)
         /\ retryTimer' \in BOOLEAN
         /\ queued' \subseteq Stamp
         /\ exposed' \subseteq Stamp
BY OperationEvent DEF EnqueueOperation, TypeOK

\* What TypeOK says of the flushes.
FlushesOK ==
  /\ flushes \in [Flushes -> Flush]
  /\ \A f \in Flushes : Suspended(f) => flushes[f].todo # <<>>

LEMMA SuspendedType ==
  ASSUME TypeOK, NEW f \in Flushes, Suspended(f)
  PROVE  /\ flushes[f] \in Sending
         /\ flushes[f].todo \in Seq(PendingCalendarOperation)
         /\ flushes[f].remaining \in Seq(PendingCalendarOperation)
         /\ flushes[f].todo # <<>>
         /\ Head(flushes[f].todo) \in PendingCalendarOperation
         /\ Tail(flushes[f].todo) \in Seq(PendingCalendarOperation)
<1>1. flushes[f] \in Sending /\ flushes[f].todo # <<>>
  BY DEF TypeOK, Suspended, Flush, Idle, Fetching
<1>2. QED
  BY <1>1 DEF Sending

LEMMA RestingType ==
  ASSUME TypeOK, NEW f \in Flushes, NEW s \in {Idle, Fetching},
         flushes' = [flushes EXCEPT ![f] = s]
  PROVE  FlushesOK'
<1>1. s \in Flush /\ s.at # "sending"
  BY DEF Flush, Idle, Fetching
<1>2. flushes' \in [Flushes -> Flush]
  BY <1>1 DEF TypeOK
<1>3. ASSUME NEW g \in Flushes, Suspended(g)'
      PROVE  (flushes[g].todo # <<>>)'
  BY <1>1, <1>3 DEF TypeOK, Suspended
<1>4. QED
  BY <1>2, <1>3 DEF FlushesOK

LEMMA FlushQueueType ==
  ASSUME TypeOK, NEW f \in Flushes, NEW load \in BOOLEAN, FlushQueue(f, load)
  PROVE  FlushesOK' /\ retryTimer' \in BOOLEAN /\ contended' \subseteq Stamp
<1>1. CASE pendingOperations = <<>>
  <2>1. \E s \in {Idle, Fetching} : flushes' = [flushes EXCEPT ![f] = s]
    BY <1>1 DEF FlushQueue
  <2>2. FlushesOK'
    BY <2>1, RestingType
  <2>3. QED
    BY <1>1, <2>2 DEF FlushQueue, TypeOK
<1>2. CASE pendingOperations # <<>>
  <2>1. Stamps(pendingOperations) \subseteq Stamp
    BY StampsType DEF TypeOK
  <2> DEFINE started == [at |-> "sending", load |-> load,
                         todo |-> pendingOperations, remaining |-> <<>>]
  <2>2. started \in Sending /\ started.todo # <<>>
    BY <1>2 DEF Sending, TypeOK
  <2>3. flushes' = [flushes EXCEPT ![f] = started]
    BY <1>2 DEF FlushQueue
  <2>4. FlushesOK'
    BY <2>2, <2>3 DEF FlushesOK, TypeOK, Suspended, Flush
  <2>5. QED
    BY <1>2, <2>1, <2>4 DEF FlushQueue, TypeOK
<1>3. QED
  BY <1>1, <1>2

LEMMA AdvanceType ==
  ASSUME TypeOK, NEW f \in Flushes, Suspended(f),
         NEW remaining \in Seq(PendingCalendarOperation), Advance(f, remaining)
  PROVE  /\ FlushesOK'
         /\ pendingOperations' \in Seq(PendingCalendarOperation)
         /\ isOffline' \in BOOLEAN
         /\ retryTimer' \in BOOLEAN
<1> DEFINE rest == Tail(flushes[f].todo)
<1>1. CASE rest # <<>>
  <2> DEFINE next == [flushes[f] EXCEPT !.todo = rest, !.remaining = remaining]
  <2>1. next \in Sending /\ next.todo # <<>>
    BY <1>1, SuspendedType DEF Sending
  <2>2. flushes' = [flushes EXCEPT ![f] = next]
    BY <1>1, SuspendedType DEF Advance, Sending, TypeOK
  <2>3. FlushesOK'
    BY <2>1, <2>2 DEF FlushesOK, TypeOK, Suspended, Flush
  <2>4. QED
    BY <1>1, <2>3 DEF Advance, TypeOK
<1>2. CASE rest = <<>>
  <2>1. \E s \in {Idle, Fetching} : flushes' = [flushes EXCEPT ![f] = s]
    <3>1. flushes' = [flushes EXCEPT ![f] = IF flushes[f].load THEN Fetching ELSE Idle]
      BY <1>2 DEF Advance, TypeOK
    <3>2. QED
      BY <3>1
  <2>2. FlushesOK'
    BY <2>1, RestingType
  <2>3. QED
    BY <1>2, <2>2 DEF Advance
<1>3. QED
  BY <1>1, <1>2

---------------------------------------------------------------------------
(* Type correctness *)

\* The controller starts with one fetch suspended and everything empty.
LEMMA InitType == Init => TypeOK
<1> SUFFICES ASSUME Init PROVE TypeOK
  OBVIOUS
<1>1. Seed \in CalendarEvent
  BY DEF Seed, CalendarEvent, EventId, Stamp
<1>2. flushes \in [Flushes -> {Idle, Fetching}]
  BY DEF Init
<1>3. FlushesOK
  BY <1>2 DEF FlushesOK, Flush, Suspended, Idle, Fetching
<1>4. /\ events = {} /\ calls = {} /\ remoteEvents = {Seed}
      /\ pendingOperations = <<>>
      /\ lastId = 0 /\ edits = 0 /\ failures = 0
      /\ sent = {0} /\ queued = {} /\ exposed = {} /\ contended = {}
      /\ isOffline = FALSE /\ isLoading = TRUE /\ errorMessage = FALSE
      /\ retryTimer = FALSE
  BY DEF Init
<1>5. pendingOperations \in Seq(PendingCalendarOperation)
  BY <1>4
<1>6. /\ events \subseteq CalendarEvent
      /\ calls \subseteq PendingCalendarOperation
      /\ remoteEvents \subseteq CalendarEvent
  BY <1>1, <1>4
<1>7. lastId \in Nat /\ edits \in Nat /\ failures \in Nat
  BY <1>4
<1>8. /\ sent \subseteq Stamp
      /\ queued \subseteq Stamp
      /\ exposed \subseteq Stamp
      /\ contended \subseteq Stamp
  BY <1>4 DEF Stamp
<1>9. isOffline \in BOOLEAN /\ isLoading \in BOOLEAN /\ errorMessage \in BOOLEAN
      /\ retryTimer \in BOOLEAN
  BY <1>4
<1>10. QED
  BY <1>3, <1>5, <1>6, <1>7, <1>8, <1>9 DEF TypeOK, FlushesOK

\* A request of the user keeps the types, queued or sent.
LEMMA EditType ==
  ASSUME TypeOK, NEW op \in PendingCalendarOperation,
         NEW eventsShown \in SUBSET CalendarEvent, Edit(op, eventsShown)
  PROVE  TypeOK'
<1>1. /\ pendingOperations' \in Seq(PendingCalendarOperation)
      /\ retryTimer' \in BOOLEAN
      /\ queued' \subseteq Stamp
      /\ exposed' \subseteq Stamp
      /\ events' \subseteq CalendarEvent
      /\ errorMessage' \in BOOLEAN
      /\ calls' \subseteq PendingCalendarOperation
  <2>1. CASE EditOffline(op, eventsShown)
    BY <2>1, EnqueueType DEF EditOffline, TypeOK
  <2>2. CASE EditOnline(op)
    BY <2>2 DEF EditOnline, TypeOK
  <2>3. QED
    BY <2>1, <2>2 DEF Edit
<1>2. UNCHANGED <<isOffline, isLoading, flushes, remoteEvents, lastId,
                  failures, sent, contended>> /\ edits' = edits + 1
  BY DEF Edit, remote
<1>3. QED
  BY <1>1, <1>2 DEF TypeOK, Suspended

LEMMA EditEvents ==
  ASSUME TypeOK, NEW event \in CalendarEvent
  PROVE  /\ [event EXCEPT !.ver = edits + 1] \in CalendarEvent
         /\ [event EXCEPT !.ver = edits + 1, !.deleted = TRUE] \in CalendarEvent
<1>1. edits + 1 \in Stamp
  BY DEF TypeOK, Stamp
<1>2. QED
  BY <1>1 DEF CalendarEvent

\* Every edit of the user is one queued or sent operation with a stamp of its
\* own, of a new event or of one that is shown.
EditOf(op, eventsShown) ==
  /\ Edit(op, eventsShown)
  /\ op.event.ver = edits + 1
  /\ \/ /\ op.type = "create"
        /\ op.event.id = <<"local", edits + 1>>
        /\ op.event.origin = edits + 1
     \/ /\ op.type # "create"
        /\ \E e \in events : op.event.id = e.id /\ op.event.origin = e.origin
  /\ \A e \in eventsShown : e \in events \/ (op.type # "delete" /\ e = op.event)

LEMMA UserEdits ==
  ASSUME TypeOK,
         AddEvent \/ \E event \in events : UpdateEvent(event) \/ DeleteEvent(event)
  PROVE  \E op \in PendingCalendarOperation, eventsShown \in SUBSET CalendarEvent :
            EditOf(op, eventsShown)
<1>1. CASE AddEvent
  <2> DEFINE pending == [id |-> <<"local", edits + 1>>, origin |-> edits + 1,
                         ver |-> edits + 1, deleted |-> FALSE]
             op == [type |-> "create", event |-> pending]
  <2>1. <<"local", edits + 1>> \in EventId /\ edits + 1 \in Stamp
    BY DEF TypeOK, EventId, Stamp
  <2>2. pending \in CalendarEvent
    BY <2>1 DEF CalendarEvent
  <2>3. op \in PendingCalendarOperation
    BY <2>2 DEF PendingCalendarOperation
  <2>4. events \cup {pending} \in SUBSET CalendarEvent
    BY <2>2 DEF TypeOK
  <2>5. Edit(op, events \cup {pending})
    BY <1>1 DEF AddEvent
  <2>6. EditOf(op, events \cup {pending})
    BY <2>5 DEF EditOf
  <2>7. QED
    BY <2>3, <2>4, <2>6
<1>2. ASSUME NEW event \in events, UpdateEvent(event)
      PROVE  \E o \in PendingCalendarOperation, es \in SUBSET CalendarEvent : EditOf(o, es)
  <2> DEFINE updated == [event EXCEPT !.ver = edits + 1]
             op == [type |-> "update", event |-> updated]
  <2>1. event \in CalendarEvent /\ updated \in CalendarEvent
    BY EditEvents DEF TypeOK
  <2>2. op \in PendingCalendarOperation
    BY <2>1 DEF PendingCalendarOperation
  <2>3. ReplaceEvent(event.id, updated) \in SUBSET CalendarEvent
    BY <2>1, ScreenType
  <2>4. Edit(op, ReplaceEvent(event.id, updated))
    BY <1>2 DEF UpdateEvent
  <2>5. updated.ver = edits + 1 /\ updated.id = event.id /\ updated.origin = event.origin
    BY <2>1 DEF CalendarEvent
  <2>6. \A e \in ReplaceEvent(event.id, updated) : e = updated \/ e \in events
    BY DEF ReplaceEvent
  <2>7. EditOf(op, ReplaceEvent(event.id, updated))
    BY <2>4, <2>5, <2>6 DEF EditOf
  <2>8. QED
    BY <2>2, <2>3, <2>7
<1>3. ASSUME NEW event \in events, DeleteEvent(event)
      PROVE  \E o \in PendingCalendarOperation, es \in SUBSET CalendarEvent : EditOf(o, es)
  <2> DEFINE deleted == [event EXCEPT !.ver = edits + 1, !.deleted = TRUE]
             op == [type |-> "delete", event |-> deleted]
  <2>1. event \in CalendarEvent /\ deleted \in CalendarEvent
    BY EditEvents DEF TypeOK
  <2>2. op \in PendingCalendarOperation
    BY <2>1 DEF PendingCalendarOperation
  <2>3. RemoveEvent(event.id) \in SUBSET CalendarEvent
    BY <2>1, ScreenType
  <2>4. Edit(op, RemoveEvent(event.id))
    BY <1>3 DEF DeleteEvent
  <2>5. deleted.ver = edits + 1 /\ deleted.id = event.id /\ deleted.origin = event.origin
    BY <2>1 DEF CalendarEvent
  <2>6. \A e \in RemoveEvent(event.id) : e \in events
    BY DEF RemoveEvent
  <2>7. EditOf(op, RemoveEvent(event.id))
    BY <2>4, <2>5, <2>6 DEF EditOf
  <2>8. QED
    BY <2>2, <2>3, <2>7
<1>4. QED
  BY <1>1, <1>2, <1>3

LEMMA UserEditType ==
  ASSUME TypeOK,
         AddEvent \/ \E event \in events : UpdateEvent(event) \/ DeleteEvent(event)
  PROVE  TypeOK'
BY UserEdits, EditType DEF EditOf

\* The screen after an answered operation.
LEMMA AnsweredScreenType ==
  ASSUME TypeOK, NEW op \in PendingCalendarOperation
  PROVE  /\ ReplaceEvent(op.event.id, Created(op.event)) \subseteq CalendarEvent
         /\ ReplaceEvent(op.event.id, Updated(op.event)) \subseteq CalendarEvent
         /\ RemoveEvent(op.event.id) \subseteq CalendarEvent
         /\ ApplyOrInsert(Created(op.event)) \subseteq CalendarEvent
BY OperationEvent, CreatedType, UpdatedType, ScreenType

LEMMA FlushSentType ==
  ASSUME TypeOK, NEW f \in Flushes, FlushSent(f)
  PROVE  TypeOK'
<1> DEFINE op == Head(flushes[f].todo)
<1>1. op \in PendingCalendarOperation /\ Suspended(f)
  BY SuspendedType DEF FlushSent
<1>2. Serve(op) /\ Advance(f, flushes[f].remaining)
  BY DEF FlushSent
<1>3. flushes[f].remaining \in Seq(PendingCalendarOperation)
  BY <1>1, SuspendedType
<1>4. events' \subseteq CalendarEvent
  <2> HIDE DEF op
  <2>1. events' = CASE op.type = "create" -> ReplaceEvent(op.event.id, Created(op.event))
                    [] op.type = "update" -> ReplaceEvent(op.event.id, Updated(op.event))
                    [] op.type = "delete" -> RemoveEvent(op.event.id)
    BY DEF FlushSent, op
  <2>2. op.type \in {"create", "update", "delete"}
    BY <1>1 DEF PendingCalendarOperation
  <2>3. QED
    BY <1>1, <2>1, <2>2, AnsweredScreenType
<1>5. /\ remoteEvents' \subseteq CalendarEvent
      /\ lastId' \in Nat
      /\ sent' \subseteq Stamp
  BY <1>1, <1>2, ServeType
<1>6. /\ FlushesOK'
      /\ pendingOperations' \in Seq(PendingCalendarOperation)
      /\ isOffline' \in BOOLEAN
      /\ retryTimer' \in BOOLEAN
  BY <1>1, <1>2, <1>3, AdvanceType
<1>7. UNCHANGED <<isLoading, calls, edits, failures, queued, exposed, contended>>
      /\ errorMessage' = FALSE
  BY DEF FlushSent
<1>8. QED
  BY <1>4, <1>5, <1>6, <1>7 DEF TypeOK, FlushesOK

LEMMA FlushFailedType ==
  ASSUME TypeOK, NEW f \in Flushes, FlushFailed(f)
  PROVE  TypeOK'
<1> DEFINE op == Head(flushes[f].todo)
<1>1. op \in PendingCalendarOperation /\ Suspended(f)
  BY SuspendedType DEF FlushFailed
<1>2. Throw(op) /\ Advance(f, Append(flushes[f].remaining, op))
  BY DEF FlushFailed
<1>3. Append(flushes[f].remaining, op) \in Seq(PendingCalendarOperation)
  BY <1>1, SuspendedType
<1>4. /\ remoteEvents' \subseteq CalendarEvent
      /\ lastId' \in Nat
      /\ sent' \subseteq Stamp
      /\ contended' \subseteq Stamp
      /\ failures' \in Nat
  BY <1>1, <1>2, ThrowType
<1>5. /\ FlushesOK'
      /\ pendingOperations' \in Seq(PendingCalendarOperation)
      /\ isOffline' \in BOOLEAN
      /\ retryTimer' \in BOOLEAN
  BY <1>1, <1>2, <1>3, AdvanceType
<1>6. UNCHANGED <<events, isLoading, calls, edits, queued, exposed>>
      /\ errorMessage' \in BOOLEAN
  BY DEF FlushFailed
<1>7. QED
  BY <1>4, <1>5, <1>6 DEF TypeOK, FlushesOK

LEMMA CallSentType ==
  ASSUME TypeOK, NEW op \in calls, CallSent(op)
  PROVE  TypeOK'
<1>1. op \in PendingCalendarOperation
  BY DEF TypeOK
<1>2. events' \subseteq CalendarEvent
  <2>1. events' = CASE op.type = "create" -> ApplyOrInsert(Created(op.event))
                    [] op.type = "update" -> ReplaceEvent(op.event.id, Updated(op.event))
                    [] op.type = "delete" -> RemoveEvent(op.event.id)
    BY DEF CallSent
  <2>2. op.type \in {"create", "update", "delete"}
    BY <1>1 DEF PendingCalendarOperation
  <2>3. QED
    BY <1>1, <2>1, <2>2, AnsweredScreenType
<1>3. /\ remoteEvents' \subseteq CalendarEvent
      /\ lastId' \in Nat
      /\ sent' \subseteq Stamp
  BY <1>1, ServeType DEF CallSent
<1>4. /\ UNCHANGED <<pendingOperations, isOffline, isLoading, retryTimer, flushes,
                     edits, failures, queued, exposed, contended>>
      /\ calls' = calls \ {op}
      /\ errorMessage' = FALSE
  BY DEF CallSent
<1>5. QED
  BY <1>2, <1>3, <1>4 DEF TypeOK, Suspended

LEMMA CallFailedType ==
  ASSUME TypeOK, NEW op \in calls, CallFailed(op)
  PROVE  TypeOK'
<1>1. op \in PendingCalendarOperation
  BY DEF TypeOK
<1>2. /\ remoteEvents' \subseteq CalendarEvent
      /\ lastId' \in Nat
      /\ sent' \subseteq Stamp
      /\ contended' \subseteq Stamp
      /\ failures' \in Nat
  BY <1>1, ThrowType DEF CallFailed
<1>3. /\ pendingOperations' \in Seq(PendingCalendarOperation)
      /\ retryTimer' \in BOOLEAN
      /\ queued' \subseteq Stamp
      /\ exposed' \subseteq Stamp
  BY <1>1, EnqueueType DEF CallFailed
<1>4. /\ UNCHANGED <<events, isLoading, flushes, edits>>
      /\ calls' = calls \ {op}
      /\ isOffline' = TRUE
      /\ errorMessage' = TRUE
  BY DEF CallFailed
<1>5. QED
  BY <1>2, <1>3, <1>4 DEF TypeOK, Suspended

\* The actions that only start a flush, in the background or for a load.
LEMMA StartType ==
  ASSUME TypeOK, RetryTick \/ SyncPending \/ ToggleOfflineMode \/ Refresh
  PROVE  TypeOK'
<1>1. /\ FlushesOK' /\ retryTimer' \in BOOLEAN /\ contended' \subseteq Stamp
  BY FlushQueueType
     DEF RetryTick, SyncPending, ToggleOfflineMode, Refresh, TypeOK, FlushesOK, Suspended
<1>2. /\ isOffline' \in BOOLEAN
      /\ isLoading' \in BOOLEAN
      /\ errorMessage' \in BOOLEAN
  BY DEF RetryTick, SyncPending, ToggleOfflineMode, Refresh, TypeOK, shown
<1>3. UNCHANGED <<events, pendingOperations, calls, remoteEvents, lastId, edits,
                  failures, sent, queued, exposed>>
  BY DEF RetryTick, SyncPending, ToggleOfflineMode, Refresh, shown, remote
<1>4. QED
  BY <1>1, <1>2, <1>3 DEF TypeOK, FlushesOK

LEMMA LoadEndType ==
  ASSUME TypeOK, NEW f \in Flushes, Fetched(f) \/ FetchFailed(f)
  PROVE  TypeOK'
<1>1. FlushesOK'
  BY RestingType DEF Fetched, FetchFailed
<1>2. /\ events' \subseteq CalendarEvent
      /\ failures' \in Nat
      /\ isLoading' \in BOOLEAN
      /\ errorMessage' \in BOOLEAN
  <2>1. CASE Fetched(f)
    <3>1. events' \subseteq remoteEvents
      BY <2>1 DEF Fetched
    <3>2. failures' = failures /\ isLoading' = FALSE /\ errorMessage' = FALSE
      BY <2>1 DEF Fetched
    <3>3. QED
      BY <3>1, <3>2 DEF TypeOK
  <2>2. CASE FetchFailed(f)
    <3>1. events' = events /\ failures' = failures + 1
      BY <2>2 DEF FetchFailed
    <3>2. isLoading' = FALSE /\ errorMessage' = TRUE
      BY <2>2 DEF FetchFailed
    <3>3. events' \subseteq CalendarEvent /\ failures' \in Nat
      BY <3>1 DEF TypeOK
    <3>4. QED
      BY <3>2, <3>3
  <2>3. QED
    BY <2>1, <2>2
<1>3. UNCHANGED <<pendingOperations, isOffline, retryTimer, calls, remoteEvents,
                  lastId, edits, sent, queued, exposed, contended>>
  BY DEF Fetched, FetchFailed, remote, history
<1>4. QED
  BY <1>1, <1>2, <1>3 DEF TypeOK, FlushesOK

\* TypeOK is inductive: every action keeps the types.
LEMMA NextType == TypeOK /\ [Next]_vars => TypeOK'
<1> SUFFICES ASSUME TypeOK, [Next]_vars
             PROVE  TypeOK'
  OBVIOUS
<1>1. CASE RetryTick \/ SyncPending \/ ToggleOfflineMode \/ Refresh
  BY <1>1, StartType
<1>2. CASE ClearError
  <2>1. /\ UNCHANGED <<events, pendingOperations, isOffline, isLoading, retryTimer,
                        flushes, calls, remoteEvents, lastId, edits, failures,
                        sent, queued, exposed, contended>>
        /\ errorMessage' = FALSE
    BY <1>2 DEF ClearError, remote, history
  <2>2. QED
    BY <2>1 DEF TypeOK, Suspended
<1>3. CASE AddEvent \/ \E event \in events : UpdateEvent(event) \/ DeleteEvent(event)
  BY <1>3, UserEditType
<1>4. CASE \E f \in Flushes : FlushSent(f) \/ FlushFailed(f) \/ Fetched(f) \/ FetchFailed(f)
  BY <1>4, FlushSentType, FlushFailedType, LoadEndType
<1>5. CASE \E op \in calls : CallSent(op) \/ CallFailed(op)
  BY <1>5, CallSentType, CallFailedType
<1>6. CASE UNCHANGED vars
  <2>1. UNCHANGED <<events, pendingOperations, isOffline, isLoading, errorMessage,
                    retryTimer, flushes, calls, remoteEvents, lastId, edits,
                    failures, sent, queued, exposed, contended>>
    BY <1>6 DEF vars, shown, remote, history
  <2>2. QED
    BY <2>1 DEF TypeOK, Suspended
<1>7. QED
  BY <1>1, <1>2, <1>3, <1>4, <1>5, <1>6 DEF Next

\* Every variable keeps its type, and no suspended flush has an empty list.
THEOREM TypeCorrect == Spec => []TypeOK
<1>1. QED
  BY InitType, NextType, PTL DEF Spec

---------------------------------------------------------------------------
(* The retry timer *)

\* The retry timer runs exactly while the queue is not empty: a flush may
\* only stop it in the step that empties the queue, and an enqueue starts it.
THEOREM RetryTimerCorrect == Spec => []RetryArmed
<1>1. Init => RetryArmed
  BY DEF Init, RetryArmed
<1>2. TypeOK /\ RetryArmed /\ [Next]_vars => RetryArmed'
  <2> SUFFICES ASSUME TypeOK, RetryArmed, [Next]_vars
               PROVE  RetryArmed'
    OBVIOUS
  <2>1. ASSUME NEW op \in PendingCalendarOperation, EnqueueOperation(op)
        PROVE  RetryArmed'
    BY <2>1 DEF EnqueueOperation, RetryArmed, TypeOK
  <2>2. ASSUME NEW f, NEW load, FlushQueue(f, load), UNCHANGED pendingOperations
        PROVE  RetryArmed'
    BY <2>2 DEF FlushQueue, RetryArmed
  <2>3. ASSUME NEW f, NEW remaining, Advance(f, remaining)
        PROVE  RetryArmed'
    BY <2>3 DEF Advance, RetryArmed
  <2>4. ASSUME UNCHANGED <<retryTimer, pendingOperations>>
        PROVE  RetryArmed'
    BY <2>4 DEF RetryArmed
  <2>5. CASE RetryTick \/ SyncPending \/ ToggleOfflineMode \/ Refresh
    BY <2>2, <2>4, <2>5 DEF RetryTick, SyncPending, ToggleOfflineMode, Refresh, shown
  <2>6. CASE AddEvent \/ \E event \in events : UpdateEvent(event) \/ DeleteEvent(event)
    <3>1. PICK op \in PendingCalendarOperation, shownNext \in SUBSET CalendarEvent :
             Edit(op, shownNext)
      BY <2>6, UserEdits DEF EditOf
    <3>2. CASE EditOffline(op, shownNext)
      BY <2>1, <3>2 DEF EditOffline
    <3>3. CASE EditOnline(op)
      BY <2>4, <3>3 DEF EditOnline
    <3>4. QED
      BY <3>1, <3>2, <3>3 DEF Edit
  <2>7. CASE \E f \in Flushes : FlushSent(f) \/ FlushFailed(f)
    BY <2>3, <2>7 DEF FlushSent, FlushFailed
  <2>8. CASE \E op \in calls : CallSent(op) \/ CallFailed(op)
    BY <2>1, <2>4, <2>8 DEF CallSent, CallFailed, TypeOK
  <2>9. CASE ClearError \/ (\E f \in Flushes : Fetched(f) \/ FetchFailed(f)) \/ UNCHANGED vars
    BY <2>4, <2>9 DEF ClearError, Fetched, FetchFailed, vars, shown
  <2>10. QED
    BY <2>5, <2>6, <2>7, <2>8, <2>9 DEF Next
<1>3. QED
  BY <1>1, <1>2, TypeCorrect, PTL DEF Spec

---------------------------------------------------------------------------
(* The queue loses nothing that was enqueued while no flush was suspended  *)

\* The stamps that must not be lost: enqueued while no flush was suspended,
\* and not carried out yet.
Outstanding == queued \ (sent \cup exposed)

\* Why the write-back of a flush is harmless for them: not only the queue
\* but every suspended flush, which will overwrite the queue, has them all.
Ledger ==
  /\ Outstanding \subseteq Stamps(pendingOperations)
  /\ \A f \in Flushes : Suspended(f) => Outstanding \subseteq Holds(f)

LEMMA InitLedger == Init => Ledger
BY DEF Init, Ledger, Outstanding, Suspended, Idle, Fetching

\* Enqueueing adds to the queue, and to what is outstanding only if no flush
\* is suspended.
LEMMA EnqueueLedger ==
  ASSUME TypeOK, Ledger, NEW op \in PendingCalendarOperation,
         EnqueueOperation(op), UNCHANGED flushes, sent \subseteq sent'
  PROVE  Ledger'
<1>1. Stamps(pendingOperations') = Stamps(pendingOperations) \cup {op.event.ver}
  BY StampsOfAppend DEF EnqueueOperation, TypeOK
<1>2. Outstanding' \subseteq Outstanding \cup {op.event.ver}
  BY DEF Outstanding, EnqueueOperation
<1>3. ASSUME NEW f \in Flushes, Suspended(f)
      PROVE  Outstanding' \subseteq Outstanding
  BY <1>2, <1>3 DEF Outstanding, EnqueueOperation, SomeFlushSuspended
<1>4. QED
  BY <1>1, <1>2, <1>3 DEF Ledger, Suspended, Holds

\* A flush starts with the whole queue.
LEMMA FlushQueueLedger ==
  ASSUME TypeOK, Ledger, NEW f \in Flushes, NEW load, FlushQueue(f, load),
         UNCHANGED <<pendingOperations, sent, queued, exposed>>
  PROVE  Ledger'
<1>1. UNCHANGED Outstanding
  BY DEF Outstanding
<1>2. ASSUME NEW g \in Flushes, Suspended(g)'
      PROVE  Outstanding \subseteq Holds(g)'
  <2>1. CASE g = f
    BY <1>2, <2>1 DEF FlushQueue, Suspended, Idle, Fetching, Holds, Ledger, TypeOK
  <2>2. CASE g # f
    BY <1>2, <2>2 DEF FlushQueue, Suspended, Holds, Ledger, TypeOK
  <2>3. QED
    BY <2>1, <2>2
<1>3. QED
  BY <1>1, <1>2 DEF Ledger

\* While operations are left, the flush keeps its place and sends the next one.
LEMMA AdvanceSends ==
  ASSUME TypeOK, NEW f \in Flushes, Suspended(f), NEW remaining,
         Advance(f, remaining), Tail(flushes[f].todo) # <<>>
  PROVE  /\ flushes'[f].todo = Tail(flushes[f].todo)
         /\ flushes'[f].remaining = remaining
         /\ flushes'[f].at = flushes[f].at
<1> DEFINE rest == Tail(flushes[f].todo)
           r == flushes[f]
<1>1. flushes' = [flushes EXCEPT ![f].todo = rest, ![f].remaining = remaining]
  BY DEF Advance
<1>2. f \in DOMAIN flushes
  BY DEF TypeOK
<1>3. flushes'[f] = [[r EXCEPT !.todo = rest] EXCEPT !.remaining = remaining]
  BY <1>1, <1>2
<1>4. {"todo", "remaining", "at"} \subseteq DOMAIN r
  BY SuspendedType DEF Sending
<1>5. QED
  <2> HIDE DEF rest, r
  <2>1. /\ flushes'[f].todo = rest
        /\ flushes'[f].remaining = remaining
        /\ flushes'[f].at = r.at
    BY <1>3, <1>4
  <2>2. QED
    BY <2>1 DEF rest, r

\* A flush moves on: of what it had, only an operation carried out is gone.
LEMMA AdvanceLedger ==
  ASSUME TypeOK, Ledger, NEW f \in Flushes, Suspended(f),
         NEW remaining \in Seq(PendingCalendarOperation), Advance(f, remaining),
         UNCHANGED <<queued, exposed>>, sent \subseteq sent',
         Stamps(flushes[f].remaining) \subseteq Stamps(remaining),
         Head(flushes[f].todo).event.ver \in sent' \cup Stamps(remaining)
  PROVE  Ledger'
<1> DEFINE rest == Tail(flushes[f].todo)
<1>1. Outstanding' \subseteq Outstanding
  BY DEF Outstanding
<1>2. Outstanding \subseteq Holds(f)
  BY DEF Ledger
<1>3. Holds(f) \subseteq {Head(flushes[f].todo).event.ver}
                           \cup Stamps(rest) \cup Stamps(remaining)
  BY StampsOfTail, SuspendedType DEF Holds
<1>4. Outstanding' \subseteq Stamps(rest) \cup Stamps(remaining)
  BY <1>1, <1>2, <1>3 DEF Outstanding
<1>5. ASSUME NEW g \in Flushes, g # f, Suspended(g)'
      PROVE  Outstanding' \subseteq Holds(g)'
  <2>1. flushes'[g] = flushes[g]
    BY <1>5 DEF Advance, TypeOK
  <2>2. QED
    BY <1>1, <1>5, <2>1 DEF Suspended, Holds, Ledger
<1>6. CASE rest # <<>>
  <2>1. flushes'[f].todo = rest /\ flushes'[f].remaining = remaining
    BY <1>6, AdvanceSends
  <2>2. Outstanding' \subseteq Holds(f)'
    BY <1>4, <2>1 DEF Holds
  <2>3. UNCHANGED pendingOperations
    BY <1>6 DEF Advance
  <2>4. QED
    BY <1>1, <1>5, <2>2, <2>3 DEF Ledger
<1>7. CASE rest = <<>>
  <2>1. ~Suspended(f)'
    BY <1>7 DEF Advance, TypeOK, Suspended, Idle, Fetching
  <2>2. Outstanding' \subseteq Stamps(pendingOperations')
    BY <1>4, <1>7, StampsOfEmpty DEF Advance
  <2>3. QED
    BY <1>5, <2>1, <2>2 DEF Ledger
<1>8. QED
  BY <1>6, <1>7

LEMMA NextLedger == TypeOK /\ Ledger /\ [Next]_vars => Ledger'
<1> SUFFICES ASSUME TypeOK, Ledger, [Next]_vars
             PROVE  Ledger'
  OBVIOUS
<1>1. ASSUME UNCHANGED <<pendingOperations, flushes, queued, exposed>>,
             sent \subseteq sent'
      PROVE  Ledger'
  BY <1>1 DEF Ledger, Outstanding, Suspended, Holds
<1>2. CASE RetryTick \/ SyncPending \/ ToggleOfflineMode \/ Refresh
  <2>1. CASE ToggleOfflineMode /\ ~isOffline
    BY <1>1, <2>1 DEF ToggleOfflineMode
  <2>2. CASE ~(ToggleOfflineMode /\ ~isOffline)
    <3>1. /\ \E f \in Flushes, load \in BOOLEAN : FlushQueue(f, load)
          /\ UNCHANGED <<pendingOperations, sent, queued, exposed>>
      BY <1>2, <2>2 DEF RetryTick, SyncPending, ToggleOfflineMode, Refresh, shown
    <3>2. QED
      BY <3>1, FlushQueueLedger
  <2>3. QED
    BY <2>1, <2>2
<1>3. CASE AddEvent \/ \E event \in events : UpdateEvent(event) \/ DeleteEvent(event)
  <2>1. PICK op \in PendingCalendarOperation, eventsShown \in SUBSET CalendarEvent :
           Edit(op, eventsShown)
    BY <1>3, UserEdits DEF EditOf
  <2>2. UNCHANGED <<flushes, sent>>
    BY <2>1 DEF Edit
  <2>3. CASE EditOffline(op, eventsShown)
    BY <2>2, <2>3, EnqueueLedger DEF EditOffline
  <2>4. CASE EditOnline(op)
    BY <1>1, <2>2, <2>4 DEF EditOnline
  <2>5. QED
    BY <2>1, <2>3, <2>4 DEF Edit
<1>4. ASSUME NEW f \in Flushes, FlushSent(f)
      PROVE  Ledger'
  <2>1. Suspended(f) /\ flushes[f].remaining \in Seq(PendingCalendarOperation)
    BY <1>4, SuspendedType DEF FlushSent
  <2>2. sent' = sent \cup {Head(flushes[f].todo).event.ver}
    BY <1>4 DEF FlushSent, Serve
  <2>3. QED
    BY <1>4, <2>1, <2>2, AdvanceLedger DEF FlushSent
<1>5. ASSUME NEW f \in Flushes, FlushFailed(f)
      PROVE  Ledger'
  <2> DEFINE op == Head(flushes[f].todo)
             kept == Append(flushes[f].remaining, op)
  <2>1. /\ Suspended(f)
        /\ op \in PendingCalendarOperation
        /\ flushes[f].remaining \in Seq(PendingCalendarOperation)
    BY <1>5, SuspendedType DEF FlushFailed
  <2>2. Stamps(kept) = Stamps(flushes[f].remaining) \cup {op.event.ver}
    BY <2>1, StampsOfAppend
  <2>3. sent \subseteq sent'
    BY <1>5 DEF FlushFailed, Throw, Serve
  <2>4. kept \in Seq(PendingCalendarOperation)
    BY <2>1
  <2>5. QED
    BY <1>5, <2>1, <2>2, <2>3, <2>4, AdvanceLedger DEF FlushFailed
<1>6. ASSUME NEW f \in Flushes, Fetched(f) \/ FetchFailed(f)
      PROVE  Ledger'
  <2>1. /\ UNCHANGED <<pendingOperations, queued, exposed, sent>>
        /\ flushes' = [flushes EXCEPT ![f] = Idle]
    BY <1>6 DEF Fetched, FetchFailed, history
  <2>2. QED
    BY <2>1 DEF Ledger, Outstanding, Suspended, Holds, Idle, TypeOK
<1>7. ASSUME NEW op \in calls, CallSent(op)
      PROVE  Ledger'
  BY <1>1, <1>7 DEF CallSent, Serve
<1>8. ASSUME NEW op \in calls, CallFailed(op)
      PROVE  Ledger'
  <2>1. op \in PendingCalendarOperation
    BY DEF TypeOK
  <2>2. sent \subseteq sent' /\ UNCHANGED flushes /\ EnqueueOperation(op)
    BY <1>8 DEF CallFailed, Throw, Serve
  <2>3. QED
    BY <2>1, <2>2, EnqueueLedger
<1>9. CASE ClearError \/ UNCHANGED vars
  BY <1>1, <1>9 DEF ClearError, vars, shown, history
<1>10. QED
  BY <1>2, <1>3, <1>4, <1>5, <1>6, <1>7, <1>8, <1>9 DEF Next

\* No write-back of a flush loses an operation that was enqueued while no
\* flush was suspended, whatever flushes overlap and whichever requests fail.
THEOREM NothingLostQuietly == Spec => []NoQuietLoss
<1>1. Ledger => NoQuietLoss
  BY DEF Ledger, Outstanding, NoQuietLoss
<1>2. QED
  BY <1>1, InitLedger, NextLedger, TypeCorrect, PTL DEF Spec

---------------------------------------------------------------------------
(* Each edit is carried out once, unless it is contended.  An edit is in   *)
(* flight as a request of its own or was queued, never both; no list has   *)
(* one twice; of the suspended flushes only one holds edits that are not   *)
(* contended; and what was carried out and is not contended is held by no  *)
(* flush, and not queued either unless a flush is suspended that will      *)
(* overwrite the queue.                                                    *)

Distinct(ops) ==
  \A i, j \in DOMAIN ops : ops[i].event.ver = ops[j].event.ver => i = j

CallsAreNew ==
  /\ queued \cup sent \subseteq 0 .. edits
  /\ \A op \in calls : op.event.ver \in (1 .. edits) \ (queued \cup sent)
  /\ \A a, b \in calls : a.event.ver = b.event.ver => a = b

QueueIsSound ==
  /\ Stamps(pendingOperations) \subseteq queued
  /\ Distinct(pendingOperations)
  /\ SomeFlushSuspended \/ Stamps(pendingOperations) \cap sent \subseteq contended

ListsAreSound(flush) ==
  /\ Distinct(flush.todo) /\ Distinct(flush.remaining)
  /\ Stamps(flush.todo) \cap Stamps(flush.remaining) = {}

FlushesAreSound ==
  \A f \in Flushes : Suspended(f) =>
     /\ ListsAreSound(flushes[f])
     /\ Holds(f) \subseteq queued
     /\ Holds(f) \cap sent \subseteq contended

OneIsUncontended ==
  \A f, g \in Flushes :
     Suspended(f) /\ Suspended(g) /\ f # g =>
        Holds(f) \subseteq contended \/ Holds(g) \subseteq contended

StampsInv == /\ TypeOK /\ CallsAreNew /\ QueueIsSound /\ FlushesAreSound
             /\ OneIsUncontended

LEMMA DistinctHead ==
  ASSUME NEW ops \in Seq(PendingCalendarOperation), ops # <<>>, Distinct(ops)
  PROVE  /\ Distinct(Tail(ops))
         /\ Head(ops).event.ver \in Stamps(ops)
         /\ Head(ops).event.ver \notin Stamps(Tail(ops))
         /\ Stamps(Tail(ops)) \subseteq Stamps(ops)
<1>1. \A i \in DOMAIN Tail(ops) :
         i + 1 \in DOMAIN ops /\ Tail(ops)[i] = ops[i + 1] /\ i + 1 # 1
  OBVIOUS
<1>2. 1 \in DOMAIN ops /\ Head(ops) = ops[1]
  OBVIOUS
<1>3. Distinct(Tail(ops))
  <2> SUFFICES ASSUME NEW i \in DOMAIN Tail(ops), NEW j \in DOMAIN Tail(ops),
                      Tail(ops)[i].event.ver = Tail(ops)[j].event.ver
               PROVE  i = j
    BY DEF Distinct
  <2>1. i + 1 = j + 1
    BY <1>1 DEF Distinct
  <2>2. i \in Nat /\ j \in Nat
    OBVIOUS
  <2>3. QED
    BY <2>1, <2>2
<1>4. Head(ops).event.ver \in Stamps(ops)
  BY <1>2 DEF Stamps
<1>5. Head(ops).event.ver \notin Stamps(Tail(ops))
  BY <1>1, <1>2 DEF Stamps, Distinct
<1>6. Stamps(Tail(ops)) \subseteq Stamps(ops)
  BY <1>1 DEF Stamps
<1>7. QED
  BY <1>3, <1>4, <1>5, <1>6

LEMMA DistinctAppend ==
  ASSUME NEW ops \in Seq(PendingCalendarOperation), NEW op \in PendingCalendarOperation,
         Distinct(ops), op.event.ver \notin Stamps(ops)
  PROVE  Distinct(Append(ops, op))
<1> DEFINE n == Len(ops) + 1
           longer == Append(ops, op)
<1>1. /\ DOMAIN longer = DOMAIN ops \cup {n}
      /\ longer[n] = op
      /\ \A i \in DOMAIN ops : longer[i] = ops[i]
  OBVIOUS
<1>2. \A i \in DOMAIN ops : ops[i].event.ver # op.event.ver
  BY DEF Stamps
<1> HIDE DEF longer, n
<1>3. Distinct(longer)
  BY <1>1, <1>2 DEF Distinct
<1>4. QED
  BY <1>3 DEF longer

\* What is left of the list and the queue when a flush moves on.
LEMMA AdvanceLists ==
  ASSUME TypeOK, NEW f \in Flushes, Suspended(f),
         NEW remaining \in Seq(PendingCalendarOperation), Advance(f, remaining)
  PROVE  /\ \A g \in Flushes \ {f} : flushes'[g] = flushes[g]
         /\ \/ /\ Suspended(f)'
               /\ flushes'[f].todo = Tail(flushes[f].todo)
               /\ flushes'[f].remaining = remaining
               /\ pendingOperations' = pendingOperations
            \/ /\ ~ Suspended(f)'
               /\ pendingOperations' = remaining
<1>1. \A g \in Flushes \ {f} : flushes'[g] = flushes[g]
  BY DEF Advance, TypeOK
<1>2. CASE Tail(flushes[f].todo) # <<>>
  <2>1. /\ flushes'[f].todo = Tail(flushes[f].todo)
        /\ flushes'[f].remaining = remaining
        /\ flushes'[f].at = flushes[f].at
    BY <1>2, AdvanceSends
  <2>2. pendingOperations' = pendingOperations
    BY <1>2 DEF Advance
  <2>3. QED
    BY <1>1, <2>1, <2>2 DEF Suspended
<1>3. CASE Tail(flushes[f].todo) = <<>>
  <2>1. flushes'[f] \in {Fetching, Idle}
    BY <1>3 DEF Advance, TypeOK
  <2>2. pendingOperations' = remaining
    BY <1>3 DEF Advance
  <2>3. QED
    BY <1>1, <2>1, <2>2 DEF Suspended, Fetching, Idle
<1>4. QED
  BY <1>2, <1>3

\* A flush starts with the queue; next to another one all of it is contended.
LEMMA StartLists ==
  ASSUME TypeOK, NEW f \in Flushes, NEW load, FlushQueue(f, load)
  PROVE  /\ \A g \in Flushes \ {f} : flushes'[g] = flushes[g]
         /\ ~ Suspended(f)
         /\ contended \subseteq contended'
         /\ Suspended(f)' =>
               /\ flushes'[f].todo = pendingOperations
               /\ flushes'[f].remaining = <<>>
               /\ SomeFlushSuspended => Stamps(pendingOperations) \subseteq contended'
<1>1. \A g \in Flushes \ {f} : flushes'[g] = flushes[g]
  BY DEF FlushQueue, TypeOK
<1>2. ~ Suspended(f)
  BY DEF FlushQueue, Suspended, Idle
<1>3. CASE pendingOperations = <<>>
  <2>1. flushes'[f] \in {Fetching, Idle} /\ contended' = contended
    BY <1>3 DEF FlushQueue, TypeOK
  <2>2. ~ Suspended(f)'
    BY <2>1 DEF Suspended, Fetching, Idle
  <2>3. QED
    BY <1>1, <1>2, <2>1, <2>2
<1>4. CASE pendingOperations # <<>>
  <2>1. flushes'[f] = [at |-> "sending", load |-> load,
                       todo |-> pendingOperations, remaining |-> <<>>]
    BY <1>4 DEF FlushQueue, TypeOK
  <2>2. contended' = IF SomeFlushSuspended
                       THEN contended \cup Stamps(pendingOperations)
                       ELSE contended
    BY <1>4 DEF FlushQueue
  <2>3. QED
    BY <1>1, <1>2, <2>1, <2>2
<1>5. QED
  BY <1>3, <1>4

LEMMA InitStamps == Init => StampsInv
<1> SUFFICES ASSUME Init PROVE StampsInv
  OBVIOUS
<1>1. \A f \in Flushes : ~ Suspended(f)
  BY DEF Init, Suspended, Idle, Fetching
<1>2. CallsAreNew
  BY DEF Init, CallsAreNew
<1>3. QueueIsSound
  <2>1. pendingOperations = <<>> /\ DOMAIN pendingOperations = {}
    BY DEF Init
  <2>2. QED
    BY <2>1, StampsOfEmpty DEF QueueIsSound, Distinct
<1>4. FlushesAreSound /\ OneIsUncontended
  BY <1>1 DEF FlushesAreSound, OneIsUncontended
<1>5. QED
  BY <1>2, <1>3, <1>4, InitType DEF StampsInv

Parts == CallsAreNew /\ QueueIsSound /\ FlushesAreSound /\ OneIsUncontended

\* A new edit, or one whose request threw, enters the queue.
LEMMA EnqueueStamps ==
  ASSUME StampsInv, NEW op \in PendingCalendarOperation, EnqueueOperation(op),
         UNCHANGED flushes, op.event.ver \notin queued,
         edits' \in Nat, edits <= edits', op.event.ver \in 0 .. edits',
         calls' \subseteq calls, \A c \in calls' : c.event.ver # op.event.ver,
         contended \subseteq contended', sent \subseteq sent',
         sent' \subseteq sent \cup {op.event.ver},
         op.event.ver \in sent' => op.event.ver \in contended'
  PROVE  Parts'
<1> DEFINE n == op.event.ver
<1> USE DEF StampsInv
<1>1. /\ pendingOperations' = Append(pendingOperations, op)
      /\ queued' = queued \cup {n}
  BY DEF EnqueueOperation
<1>2. Stamps(pendingOperations') = Stamps(pendingOperations) \cup {n}
  BY <1>1, StampsOfAppend DEF TypeOK
<1>3. \A f \in Flushes : Suspended(f)' = Suspended(f) /\ Holds(f)' = Holds(f)
  BY DEF Suspended, Holds
<1>4. CallsAreNew'
  <2>1. edits \in Nat
    BY DEF TypeOK
  <2>2. queued' \cup sent' \subseteq 0 .. edits'
    BY <1>1, <2>1 DEF CallsAreNew
  <2>3. \A c \in calls' : c.event.ver \in (1 .. edits') \ (queued' \cup sent')
    BY <1>1, <2>1 DEF CallsAreNew
  <2>4. QED
    BY <2>2, <2>3 DEF CallsAreNew
<1>5. QueueIsSound'
  <2>1. Distinct(pendingOperations')
    BY <1>1, DistinctAppend DEF QueueIsSound, TypeOK
  <2>2. Stamps(pendingOperations') \subseteq queued'
    BY <1>1, <1>2 DEF QueueIsSound
  <2>3. ASSUME ~ SomeFlushSuspended'
        PROVE  Stamps(pendingOperations') \cap sent' \subseteq contended'
    <3>1. ~ SomeFlushSuspended
      BY <1>3, <2>3 DEF SomeFlushSuspended
    <3>2. Stamps(pendingOperations) \cap sent \subseteq contended
      BY <3>1 DEF QueueIsSound
    <3>3. QED
      BY <1>2, <3>2
  <2>4. QED
    BY <2>1, <2>2, <2>3 DEF QueueIsSound
<1>6. FlushesAreSound'
  <2>1. \A f \in Flushes : Suspended(f) => n \notin Holds(f)
    BY DEF FlushesAreSound
  <2>2. QED
    BY <1>1, <1>3, <2>1 DEF FlushesAreSound
<1>7. OneIsUncontended'
  BY <1>3 DEF OneIsUncontended
<1>8. QED
  BY <1>4, <1>5, <1>6, <1>7 DEF Parts

LEMMA StartStamps ==
  ASSUME StampsInv, NEW f \in Flushes, NEW load, FlushQueue(f, load),
         UNCHANGED <<pendingOperations, calls, edits, sent, queued>>
  PROVE  Parts'
<1> USE DEF StampsInv
<1>1. /\ \A g \in Flushes \ {f} : flushes'[g] = flushes[g]
      /\ ~ Suspended(f)
      /\ contended \subseteq contended'
  BY StartLists
<1>2. \A g \in Flushes \ {f} : Suspended(g)' = Suspended(g) /\ Holds(g)' = Holds(g)
  BY <1>1 DEF Suspended, Holds
<1>3. Suspended(f)' =>
         /\ flushes'[f].todo = pendingOperations
         /\ flushes'[f].remaining = <<>>
         /\ Holds(f)' = Stamps(pendingOperations)
         /\ SomeFlushSuspended => Stamps(pendingOperations) \subseteq contended'
  BY StartLists, StampsOfEmpty DEF Holds
<1>4. CallsAreNew'
  BY DEF CallsAreNew
<1>5. QueueIsSound'
  <2>1. SomeFlushSuspended => SomeFlushSuspended'
    BY <1>1, <1>2 DEF SomeFlushSuspended
  <2>2. QED
    BY <1>1, <2>1 DEF QueueIsSound
<1>6. FlushesAreSound'
  <2> SUFFICES ASSUME NEW g \in Flushes, Suspended(g)'
               PROVE  /\ ListsAreSound(flushes'[g])
                      /\ Holds(g)' \subseteq queued
                      /\ Holds(g)' \cap sent \subseteq contended'
    BY DEF FlushesAreSound
  <2>1. CASE g # f
    BY <1>1, <1>2, <2>1 DEF FlushesAreSound
  <2>2. CASE g = f
    <3>1. Distinct(<<>>) /\ Stamps(<<>>) = {}
      BY StampsOfEmpty DEF Distinct
    <3>2. ListsAreSound(flushes'[f])
      BY <1>3, <2>2, <3>1 DEF ListsAreSound, QueueIsSound
    <3>3. Stamps(pendingOperations) \cap sent \subseteq contended'
      BY <1>1, <1>3, <2>2 DEF QueueIsSound
    <3>4. QED
      BY <1>3, <2>2, <3>2, <3>3 DEF QueueIsSound
  <2>3. QED
    BY <2>1, <2>2
<1>7. OneIsUncontended'
  <2> SUFFICES ASSUME NEW g \in Flushes, NEW h \in Flushes,
                      Suspended(g)', Suspended(h)', g # h
               PROVE  Holds(g)' \subseteq contended' \/ Holds(h)' \subseteq contended'
    BY DEF OneIsUncontended
  <2>1. CASE g # f /\ h # f
    BY <1>1, <1>2, <2>1 DEF OneIsUncontended
  <2>2. CASE g = f \/ h = f
    <3>1. SomeFlushSuspended
      BY <1>2, <2>2 DEF SomeFlushSuspended
    <3>2. QED
      BY <1>3, <2>2, <3>1
  <2>3. QED
    BY <2>1, <2>2
<1>8. QED
  BY <1>4, <1>5, <1>6, <1>7 DEF Parts

LEMMA AdvanceStamps ==
  ASSUME StampsInv, NEW f \in Flushes, Suspended(f),
         NEW remaining \in Seq(PendingCalendarOperation), Advance(f, remaining),
         NEW n, n = Head(flushes[f].todo).event.ver,
         UNCHANGED <<calls, edits, queued>>, contended \subseteq contended',
         sent \subseteq sent', sent' \subseteq sent \cup {n},
         Distinct(remaining),
         Stamps(remaining) \subseteq Stamps(flushes[f].remaining) \cup {n},
         n \in sent' \cap Stamps(remaining) => n \in contended'
  PROVE  Parts'
<1> USE DEF StampsInv
<1> DEFINE rest == Tail(flushes[f].todo)
           left == Stamps(rest) \cup Stamps(remaining)
<1>1. /\ ListsAreSound(flushes[f])
      /\ Holds(f) \subseteq queued
      /\ Holds(f) \cap sent \subseteq contended
  BY DEF FlushesAreSound
<1>2. /\ Distinct(rest)
      /\ n \in Stamps(flushes[f].todo)
      /\ n \notin Stamps(rest)
      /\ Stamps(rest) \subseteq Stamps(flushes[f].todo)
  BY <1>1, SuspendedType, DistinctHead DEF ListsAreSound
<1>3. left \subseteq Holds(f) /\ n \in Holds(f)
  BY <1>2 DEF Holds
<1>4. Stamps(rest) \cap Stamps(remaining) = {}
  BY <1>1, <1>2 DEF ListsAreSound
<1>5. left \cap sent' \subseteq contended'
  BY <1>1, <1>2, <1>3
<1>6. \A g \in Flushes \ {f} : flushes'[g] = flushes[g]
  BY AdvanceLists
<1>7. \A g \in Flushes \ {f} : Suspended(g)' = Suspended(g) /\ Holds(g)' = Holds(g)
  BY <1>6 DEF Suspended, Holds
<1>8. \/ /\ Suspended(f)'
         /\ flushes'[f].todo = rest
         /\ flushes'[f].remaining = remaining
         /\ pendingOperations' = pendingOperations
      \/ /\ ~ Suspended(f)'
         /\ pendingOperations' = remaining
  BY AdvanceLists
<1>9. Suspended(f)' => Holds(f)' = left
  BY <1>8 DEF Holds
<1> HIDE DEF rest
<1>10. CallsAreNew'
  BY <1>1, <1>3 DEF CallsAreNew
<1>11. QueueIsSound'
  <2>1. CASE Suspended(f)'
    <3>1. SomeFlushSuspended' /\ pendingOperations' = pendingOperations
      BY <1>8, <2>1 DEF SomeFlushSuspended
    <3>2. QED
      BY <3>1 DEF QueueIsSound
  <2>2. CASE ~ Suspended(f)'
    <3>1. pendingOperations' = remaining
      BY <1>8, <2>2
    <3>2. Stamps(remaining) \subseteq queued'
      BY <1>1, <1>3
    <3>3. Stamps(remaining) \cap sent' \subseteq contended'
      BY <1>5
    <3>4. QED
      BY <3>1, <3>2, <3>3 DEF QueueIsSound
  <2>3. QED
    BY <2>1, <2>2
<1>12. FlushesAreSound'
  <2> SUFFICES ASSUME NEW g \in Flushes, Suspended(g)'
               PROVE  /\ ListsAreSound(flushes'[g])
                      /\ Holds(g)' \subseteq queued
                      /\ Holds(g)' \cap sent' \subseteq contended'
    BY DEF FlushesAreSound
  <2>1. CASE g # f
    <3>1. Suspended(g) /\ Holds(g)' = Holds(g) /\ flushes'[g] = flushes[g]
      BY <1>6, <1>7, <2>1
    <3>2. /\ ListsAreSound(flushes[g])
          /\ Holds(g) \subseteq queued
          /\ Holds(g) \cap sent \subseteq contended
      BY <3>1 DEF FlushesAreSound
    <3>3. n \in Holds(g) => n \in contended
      BY <1>3, <2>1, <3>1 DEF OneIsUncontended
    <3>4. QED
      BY <3>1, <3>2, <3>3
  <2>2. CASE g = f
    <3>1. ListsAreSound(flushes'[f])
      BY <1>2, <1>4, <1>8, <2>2 DEF ListsAreSound
    <3>2. QED
      BY <1>1, <1>3, <1>5, <1>9, <2>2, <3>1
  <2>3. QED
    BY <2>1, <2>2
<1>13. OneIsUncontended'
  <2> SUFFICES ASSUME NEW g \in Flushes, NEW h \in Flushes,
                      Suspended(g)', Suspended(h)', g # h
               PROVE  Holds(g)' \subseteq contended' \/ Holds(h)' \subseteq contended'
    BY DEF OneIsUncontended
  <2>1. \A k \in Flushes : Suspended(k)' => Suspended(k) /\ Holds(k)' \subseteq Holds(k)
    BY <1>3, <1>7, <1>9
  <2>2. Holds(g) \subseteq contended \/ Holds(h) \subseteq contended
    BY <2>1 DEF OneIsUncontended
  <2>3. QED
    BY <2>1, <2>2
<1>14. QED
  BY <1>10, <1>11, <1>12, <1>13 DEF Parts

\* A step that leaves the lists alone and carries out nothing that is queued.
LEMMA QuietStamps ==
  ASSUME StampsInv, UNCHANGED <<pendingOperations, queued, contended>>,
         \A f \in Flushes : \/ flushes'[f] = flushes[f]
                            \/ ~ Suspended(f) /\ ~ Suspended(f)',
         (sent' \ sent) \cap queued = {}, CallsAreNew'
  PROVE  Parts'
<1> USE DEF StampsInv
<1>1. \A f \in Flushes : Suspended(f)' = Suspended(f)
  BY DEF Suspended
<1>2. \A f \in Flushes : Suspended(f) =>
         flushes'[f] = flushes[f] /\ Holds(f)' = Holds(f)
  BY DEF Suspended, Holds
<1>3. QueueIsSound'
  BY <1>1 DEF QueueIsSound, SomeFlushSuspended
<1>4. FlushesAreSound'
  BY <1>1, <1>2 DEF FlushesAreSound
<1>5. OneIsUncontended'
  BY <1>1, <1>2 DEF OneIsUncontended
<1>6. QED
  BY <1>3, <1>4, <1>5 DEF Parts

LEMMA NextStamps == StampsInv /\ [Next]_vars => StampsInv'
<1> SUFFICES ASSUME StampsInv, [Next]_vars PROVE StampsInv'
  OBVIOUS
<1> USE DEF StampsInv
<1>1. TypeOK'
  BY NextType
<1>2. CASE RetryTick \/ SyncPending \/ ToggleOfflineMode \/ Refresh
  <2>1. CASE ToggleOfflineMode /\ ~ isOffline
    <3>1. UNCHANGED <<pendingOperations, queued, contended, flushes, sent, calls, edits>>
      BY <2>1 DEF ToggleOfflineMode
    <3>2. CallsAreNew'
      BY <3>1 DEF CallsAreNew
    <3>3. QED
      BY <1>1, <3>1, <3>2, QuietStamps DEF Parts
  <2>2. CASE ~ (ToggleOfflineMode /\ ~ isOffline)
    <3>1. /\ \E f \in Flushes, load \in BOOLEAN : FlushQueue(f, load)
          /\ UNCHANGED <<pendingOperations, calls, edits, sent, queued>>
      BY <1>2, <2>2 DEF RetryTick, SyncPending, ToggleOfflineMode, Refresh, shown
    <3>2. QED
      BY <1>1, <3>1, StartStamps DEF Parts
  <2>3. QED
    BY <2>1, <2>2
<1>3. CASE AddEvent \/ \E event \in events : UpdateEvent(event) \/ DeleteEvent(event)
  <2>1. PICK op \in PendingCalendarOperation, eventsShown \in SUBSET CalendarEvent :
           Edit(op, eventsShown) /\ op.event.ver = edits + 1
    BY <1>3, UserEdits DEF EditOf
  <2>2. edits \in Nat /\ edits' = edits + 1 /\ UNCHANGED <<flushes, sent, contended>>
    BY <2>1 DEF Edit, TypeOK
  <2>3. edits + 1 \notin queued \cup sent /\ \A c \in calls : c.event.ver # edits + 1
    BY <2>2 DEF CallsAreNew
  <2>4. CASE EditOffline(op, eventsShown)
    <3>1. EnqueueOperation(op) /\ calls' = calls
      BY <2>4 DEF EditOffline
    <3>2. /\ edits' \in Nat /\ edits <= edits' /\ op.event.ver \in 0 .. edits'
          /\ op.event.ver \notin queued /\ op.event.ver \notin sent'
          /\ \A c \in calls' : c.event.ver # op.event.ver
      BY <2>1, <2>2, <2>3, <3>1
    <3>3. Parts'
      BY <2>2, <3>1, <3>2, EnqueueStamps
    <3>4. QED
      BY <1>1, <3>3 DEF Parts
  <2>5. CASE EditOnline(op)
    <3>1. UNCHANGED <<pendingOperations, queued>> /\ calls' = calls \cup {op}
      BY <2>5 DEF EditOnline
    <3>2. \A c \in calls : c.event.ver \in 1 .. edits'
      BY <2>2 DEF CallsAreNew
    <3>3. queued' \cup sent' \subseteq 0 .. edits'
      BY <2>2, <3>1 DEF CallsAreNew
    <3>4. CallsAreNew'
      BY <2>1, <2>2, <2>3, <3>1, <3>2, <3>3 DEF CallsAreNew
    <3>5. QED
      BY <1>1, <2>2, <3>1, <3>4, QuietStamps DEF Parts
  <2>6. QED
    BY <2>1, <2>4, <2>5 DEF Edit
<1>4. ASSUME NEW f \in Flushes, FlushSent(f) PROVE StampsInv'
  <2>1. /\ Suspended(f) /\ Advance(f, flushes[f].remaining)
        /\ sent' = sent \cup {Head(flushes[f].todo).event.ver}
        /\ UNCHANGED <<calls, edits, queued, contended>>
    BY <1>4 DEF FlushSent, Serve
  <2>2. ListsAreSound(flushes[f])
    BY <2>1 DEF FlushesAreSound
  <2>3. Head(flushes[f].todo).event.ver \in Stamps(flushes[f].todo)
    BY <2>1, <2>2, SuspendedType, DistinctHead DEF ListsAreSound
  <2>4. Head(flushes[f].todo).event.ver \notin Stamps(flushes[f].remaining)
    BY <2>2, <2>3 DEF ListsAreSound
  <2>5. flushes[f].remaining \in Seq(PendingCalendarOperation)
    BY <2>1, SuspendedType
  <2>6. Parts'
    BY <2>1, <2>2, <2>4, <2>5, AdvanceStamps DEF ListsAreSound
  <2>7. QED
    BY <1>1, <2>6 DEF Parts
<1>5. ASSUME NEW f \in Flushes, FlushFailed(f) PROVE StampsInv'
  <2> DEFINE op == Head(flushes[f].todo)
             kept == Append(flushes[f].remaining, op)
             n == op.event.ver
  <2>1. /\ Suspended(f) /\ Advance(f, kept) /\ UNCHANGED <<calls, edits, queued>>
        /\ \/ UNCHANGED <<sent, contended>>
           \/ sent' = sent \cup {n} /\ contended' = contended \cup {n}
    BY <1>5 DEF FlushFailed, Throw, Serve
  <2>2. /\ op \in PendingCalendarOperation
        /\ flushes[f].remaining \in Seq(PendingCalendarOperation)
        /\ flushes[f].todo \in Seq(PendingCalendarOperation)
        /\ flushes[f].todo # <<>>
    BY <2>1, SuspendedType
  <2>3. ListsAreSound(flushes[f]) /\ Holds(f) \cap sent \subseteq contended
    BY <2>1 DEF FlushesAreSound
  <2>4. n \in Stamps(flushes[f].todo)
    BY <2>2, <2>3, DistinctHead DEF ListsAreSound
  <2>5. n \notin Stamps(flushes[f].remaining)
    BY <2>3, <2>4 DEF ListsAreSound
  <2>6. Distinct(kept) /\ kept \in Seq(PendingCalendarOperation)
    BY <2>2, <2>3, <2>5, DistinctAppend DEF ListsAreSound
  <2>7. Stamps(kept) = Stamps(flushes[f].remaining) \cup {n}
    BY <2>2, StampsOfAppend
  <2>8. n \in sent' => n \in contended'
    BY <2>1, <2>3, <2>4 DEF Holds
  <2>9. contended \subseteq contended' /\ sent \subseteq sent' /\ sent' \subseteq sent \cup {n}
    BY <2>1
  <2> HIDE DEF kept
  <2>10. Parts'
    BY <2>1, <2>6, <2>7, <2>8, <2>9, AdvanceStamps
  <2>11. QED
    BY <1>1, <2>10 DEF Parts
<1>6. ASSUME NEW f \in Flushes, Fetched(f) \/ FetchFailed(f) PROVE StampsInv'
  <2>1. /\ UNCHANGED <<pendingOperations, queued, contended, sent, calls, edits>>
        /\ flushes[f] = Fetching /\ flushes' = [flushes EXCEPT ![f] = Idle]
    BY <1>6 DEF Fetched, FetchFailed, history
  <2>2. \A g \in Flushes : \/ flushes'[g] = flushes[g]
                           \/ ~ Suspended(g) /\ ~ Suspended(g)'
    <3>1. /\ \A g \in Flushes \ {f} : flushes'[g] = flushes[g]
          /\ flushes'[f] = Idle
      BY <2>1 DEF TypeOK
    <3>2. ~ Suspended(f) /\ ~ Suspended(f)'
      BY <2>1, <3>1 DEF Suspended, Fetching, Idle
    <3>3. QED
      BY <3>1, <3>2 DEF Suspended
  <2>3. CallsAreNew'
    BY <2>1 DEF CallsAreNew
  <2>4. QED
    BY <1>1, <2>1, <2>2, <2>3, QuietStamps DEF Parts
<1>7. ASSUME NEW op \in calls, CallSent(op) PROVE StampsInv'
  <2>1. /\ UNCHANGED <<pendingOperations, queued, contended, flushes, edits>>
        /\ calls' = calls \ {op} /\ sent' = sent \cup {op.event.ver}
    BY <1>7 DEF CallSent, Serve
  <2>2. op.event.ver \in (1 .. edits) \ (queued \cup sent)
    BY DEF CallsAreNew
  <2>3. \A c \in calls' : c.event.ver # op.event.ver
    BY <2>1 DEF CallsAreNew
  <2>4. CallsAreNew'
    BY <2>1, <2>2, <2>3 DEF CallsAreNew
  <2>5. (sent' \ sent) \cap queued = {}
    BY <2>1, <2>2
  <2>6. QED
    BY <1>1, <2>1, <2>4, <2>5, QuietStamps DEF Parts
<1>8. ASSUME NEW op \in calls, CallFailed(op) PROVE StampsInv'
  <2> DEFINE n == op.event.ver
  <2>1. /\ op \in PendingCalendarOperation /\ EnqueueOperation(op)
        /\ UNCHANGED <<flushes, edits>> /\ calls' = calls \ {op}
        /\ \/ UNCHANGED <<sent, contended>>
           \/ sent' = sent \cup {n} /\ contended' = contended \cup {n}
    BY <1>8 DEF CallFailed, Throw, Serve, TypeOK
  <2>2. n \in (1 .. edits) \ (queued \cup sent)
    BY DEF CallsAreNew
  <2>3. \A c \in calls' : c.event.ver # n
    BY <2>1 DEF CallsAreNew
  <2>4. edits' \in Nat /\ edits <= edits' /\ n \in 0 .. edits'
    BY <2>1, <2>2 DEF TypeOK
  <2>5. /\ contended \subseteq contended' /\ sent \subseteq sent'
        /\ sent' \subseteq sent \cup {n} /\ n \in sent' => n \in contended'
    BY <2>1, <2>2
  <2>6. Parts'
    BY <2>1, <2>2, <2>3, <2>4, <2>5, EnqueueStamps
  <2>7. QED
    BY <1>1, <2>6 DEF Parts
<1>9. CASE ClearError \/ UNCHANGED vars
  <2>1. UNCHANGED <<pendingOperations, queued, contended, flushes, sent, calls, edits>>
    BY <1>9 DEF ClearError, vars, shown, history
  <2>2. CallsAreNew'
    BY <2>1 DEF CallsAreNew
  <2>3. QED
    BY <1>1, <2>1, <2>2, QuietStamps DEF Parts
<1>10. QED
  BY <1>2, <1>3, <1>4, <1>5, <1>6, <1>7, <1>8, <1>9 DEF Next

---------------------------------------------------------------------------
(* What the steps do to the service, the screen and the unsent operations  *)

Ops(ops) == {ops[i] : i \in DOMAIN ops}

Unsent ==
  calls \cup Ops(pendingOperations)
        \cup UNION {Ops(flushes[f].todo) \cup Ops(flushes[f].remaining) :
                      f \in {g \in Flushes : Suspended(g)}}

LEMMA OpsOfEmpty == Ops(<<>>) = {}
BY DEF Ops

LEMMA OpsOfAppend ==
  ASSUME NEW ops \in Seq(PendingCalendarOperation),
         NEW op \in PendingCalendarOperation
  PROVE  Ops(Append(ops, op)) = Ops(ops) \cup {op}
<1> DEFINE longer == Append(ops, op)
<1>1. /\ DOMAIN longer = DOMAIN ops \cup {Len(ops) + 1}
      /\ longer[Len(ops) + 1] = op
      /\ \A i \in DOMAIN ops : longer[i] = ops[i]
  OBVIOUS
<1> HIDE DEF longer
<1>2. Ops(longer) = Ops(ops) \cup {op}
  BY <1>1 DEF Ops
<1>3. QED
  BY <1>2 DEF longer

LEMMA OpsOfTail ==
  ASSUME NEW ops \in Seq(PendingCalendarOperation), ops # <<>>
  PROVE  Ops(Tail(ops)) \subseteq Ops(ops) /\ Head(ops) \in Ops(ops)
<1>1. \A i \in DOMAIN Tail(ops) : i + 1 \in DOMAIN ops /\ Tail(ops)[i] = ops[i + 1]
  OBVIOUS
<1>2. 1 \in DOMAIN ops /\ Head(ops) = ops[1]
  OBVIOUS
<1>3. QED
  BY <1>1, <1>2 DEF Ops

LEMMA UnsentType == TypeOK => Unsent \subseteq PendingCalendarOperation
<1> SUFFICES ASSUME TypeOK PROVE Unsent \subseteq PendingCalendarOperation
  OBVIOUS
<1>1. \A ops \in Seq(PendingCalendarOperation) : Ops(ops) \subseteq PendingCalendarOperation
  BY DEF Ops
<1>2. QED
  BY <1>1, SuspendedType DEF Unsent, TypeOK

\* The flush, the queue and the requests that hold an unsent operation.
LEMMA UnsentWhere ==
  ASSUME NEW op
  PROVE  op \in Unsent <=>
            \/ op \in calls
            \/ op \in Ops(pendingOperations)
            \/ \E f \in Flushes :
                  Suspended(f) /\ op \in Ops(flushes[f].todo) \cup Ops(flushes[f].remaining)
BY DEF Unsent

Quiet ==
  /\ UNCHANGED <<events, remote, sent, edits>>
  /\ Unsent' \subseteq Unsent /\ calls' \subseteq calls /\ contended \subseteq contended'

Reloaded ==
  /\ events' = {r \in remoteEvents : ~ r.deleted}
  /\ UNCHANGED <<remote, sent, edits, contended>>
  /\ Unsent' \subseteq Unsent /\ calls' \subseteq calls

Edited(op, eventsShown) ==
  /\ EditOf(op, eventsShown)
  /\ edits' = edits + 1
  /\ UNCHANGED <<remote, sent, contended>>
  /\ Unsent' \subseteq Unsent \cup {op}
  /\ \/ events' = eventsShown /\ calls' = calls
     \/ events' = events /\ calls' = calls \cup {op}

Answered(op) ==
  /\ op \in Unsent /\ Serve(op)
  /\ op.event.ver \in sent => op.event.ver \in contended
  /\ UNCHANGED <<edits, contended>>
  /\ Unsent' \subseteq Unsent /\ calls' \subseteq calls
  /\ events' = CASE op.type = "create" -> IF op \in calls
                                             THEN ApplyOrInsert(Created(op.event))
                                             ELSE ReplaceEvent(op.event.id, Created(op.event))
                 [] op.type = "update" -> ReplaceEvent(op.event.id, Updated(op.event))
                 [] op.type = "delete" -> RemoveEvent(op.event.id)

Lost(op) ==
  /\ op \in Unsent /\ Serve(op)
  /\ UNCHANGED <<edits, events>>
  /\ contended' = contended \cup {op.event.ver}
  /\ Unsent' \subseteq Unsent /\ calls' \subseteq calls

Kinds ==
  \/ Quiet
  \/ Reloaded
  \/ \E op \in PendingCalendarOperation, es \in SUBSET CalendarEvent : Edited(op, es)
  \/ \E op \in PendingCalendarOperation : Answered(op) \/ Lost(op)

LEMMA SameLists ==
  ASSUME TypeOK, pendingOperations' = pendingOperations,
         \A f \in Flushes : \/ flushes'[f] = flushes[f]
                            \/ ~ Suspended(f)'
  PROVE  Unsent' \subseteq Unsent \cup calls'
<1> SUFFICES ASSUME NEW op, op \in Unsent' PROVE op \in Unsent \cup calls'
  OBVIOUS
<1>1. \/ op \in calls'
      \/ op \in Ops(pendingOperations)
      \/ \E f \in Flushes : Suspended(f)' /\ op \in Ops(flushes'[f].todo)
                                               \cup Ops(flushes'[f].remaining)
  BY DEF Unsent
<1>2. \A f \in Flushes : Suspended(f)' => Suspended(f) /\ flushes'[f] = flushes[f]
  BY DEF Suspended
<1>3. QED
  BY <1>1, <1>2 DEF Unsent

LEMMA AdvanceOps ==
  ASSUME TypeOK, NEW f \in Flushes, Suspended(f),
         NEW remaining \in Seq(PendingCalendarOperation), Advance(f, remaining),
         calls' = calls,
         Ops(remaining) \subseteq Ops(flushes[f].remaining) \cup {Head(flushes[f].todo)}
  PROVE  Head(flushes[f].todo) \in Unsent /\ Unsent' \subseteq Unsent
<1>1. /\ Ops(Tail(flushes[f].todo)) \subseteq Ops(flushes[f].todo)
      /\ Head(flushes[f].todo) \in Ops(flushes[f].todo)
  BY SuspendedType, OpsOfTail
<1>2. /\ Ops(flushes[f].todo) \cup Ops(flushes[f].remaining) \subseteq Unsent
      /\ Head(flushes[f].todo) \in Unsent
  BY <1>1 DEF Unsent
<1>3. \A g \in Flushes \ {f} : flushes'[g] = flushes[g]
  BY AdvanceLists
<1>4. \A g \in Flushes \ {f} : Suspended(g)' = Suspended(g)
  BY <1>3 DEF Suspended
<1>5. \/ /\ Suspended(f)'
         /\ flushes'[f].todo = Tail(flushes[f].todo)
         /\ flushes'[f].remaining = remaining
         /\ pendingOperations' = pendingOperations
      \/ /\ ~ Suspended(f)'
         /\ pendingOperations' = remaining
  BY AdvanceLists
<1>6. ASSUME NEW op, op \in Unsent' PROVE op \in Unsent
  <2>1. \/ op \in calls
        \/ op \in Ops(pendingOperations')
        \/ \E g \in Flushes : Suspended(g)' /\ op \in Ops(flushes'[g].todo)
                                                 \cup Ops(flushes'[g].remaining)
    BY <1>6 DEF Unsent
  <2>2. calls \subseteq Unsent /\ Ops(pendingOperations) \subseteq Unsent
    BY DEF Unsent
  <2>3. Ops(remaining) \subseteq Unsent
    BY <1>2
  <2>4. ASSUME NEW g \in Flushes, Suspended(g)',
               op \in Ops(flushes'[g].todo) \cup Ops(flushes'[g].remaining)
        PROVE  op \in Unsent
    <3>1. CASE g # f
      BY <1>3, <1>4, <2>4, <3>1 DEF Unsent
    <3>2. CASE g = f
      BY <1>1, <1>2, <1>5, <2>3, <2>4, <3>2
    <3>3. QED
      BY <3>1, <3>2
  <2>5. Ops(pendingOperations') \subseteq Unsent
    BY <1>5, <2>2, <2>3
  <2>6. QED
    BY <2>1, <2>2, <2>4, <2>5
<1>7. QED
  BY <1>2, <1>6

LEMMA StartOps ==
  ASSUME TypeOK, NEW f \in Flushes, NEW load, FlushQueue(f, load),
         UNCHANGED <<pendingOperations, calls>>
  PROVE  Unsent' \subseteq Unsent
<1>1. \A g \in Flushes \ {f} : flushes'[g] = flushes[g]
  BY StartLists
<1>2. Suspended(f)' =>
         flushes'[f].todo = pendingOperations /\ flushes'[f].remaining = <<>>
  BY StartLists
<1> SUFFICES ASSUME NEW op, op \in Unsent' PROVE op \in Unsent
  OBVIOUS
<1>3. \/ op \in calls
      \/ op \in Ops(pendingOperations)
      \/ \E g \in Flushes : Suspended(g)' /\ op \in Ops(flushes'[g].todo)
                                               \cup Ops(flushes'[g].remaining)
  BY DEF Unsent
<1>4. ASSUME NEW g \in Flushes, Suspended(g)',
             op \in Ops(flushes'[g].todo) \cup Ops(flushes'[g].remaining)
      PROVE  op \in Unsent
  <2>1. CASE g # f
    <3>1. Suspended(g)
      BY <1>1, <1>4, <2>1 DEF Suspended
    <3>2. QED
      BY <1>1, <1>4, <2>1, <3>1 DEF Unsent
  <2>2. CASE g = f
    BY <1>2, <1>4, <2>2, OpsOfEmpty DEF Unsent
  <2>3. QED
    BY <2>1, <2>2
<1>5. QED
  BY <1>3, <1>4 DEF Unsent

LEMMA EnqueueOps ==
  ASSUME TypeOK, NEW op \in PendingCalendarOperation, EnqueueOperation(op),
         flushes' = flushes, calls' \subseteq calls
  PROVE  Unsent' \subseteq Unsent \cup {op}
<1>1. Ops(pendingOperations') = Ops(pendingOperations) \cup {op}
  BY OpsOfAppend DEF EnqueueOperation, TypeOK
<1>2. \A f \in Flushes : Suspended(f)' = Suspended(f)
  BY DEF Suspended
<1>3. QED
  BY <1>1, <1>2 DEF Unsent

LEMMA EveryStepIsOfAKind == StampsInv /\ [Next]_vars => Kinds
<1> SUFFICES ASSUME StampsInv, [Next]_vars PROVE Kinds
  OBVIOUS
<1> USE DEF StampsInv
<1>1. CASE RetryTick \/ SyncPending \/ ToggleOfflineMode \/ Refresh
  <2>1. UNCHANGED <<events, remote, sent, edits, calls, pendingOperations>>
    BY <1>1 DEF RetryTick, SyncPending, ToggleOfflineMode, Refresh, shown
  <2>2. contended \subseteq contended' /\ Unsent' \subseteq Unsent
    <3>1. CASE ToggleOfflineMode /\ ~ isOffline
      <4>1. UNCHANGED <<flushes, contended>>
        BY <3>1 DEF ToggleOfflineMode
      <4>2. QED
        BY <2>1, <4>1 DEF Unsent, Suspended
    <3>2. CASE ~ (ToggleOfflineMode /\ ~ isOffline)
      <4>1. \E f \in Flushes, load \in BOOLEAN : FlushQueue(f, load)
        BY <1>1, <3>2 DEF RetryTick, SyncPending, ToggleOfflineMode, Refresh
      <4>2. QED
        BY <2>1, <4>1, StartLists, StartOps
    <3>3. QED
      BY <3>1, <3>2
  <2>3. QED
    BY <2>1, <2>2 DEF Kinds, Quiet
<1>2. CASE AddEvent \/ \E event \in events : UpdateEvent(event) \/ DeleteEvent(event)
  <2>1. PICK op \in PendingCalendarOperation, es \in SUBSET CalendarEvent : EditOf(op, es)
    BY <1>2, UserEdits
  <2>2. Edit(op, es)
    BY <2>1 DEF EditOf
  <2>3. UNCHANGED <<remote, sent, contended, flushes>> /\ edits' = edits + 1
    BY <2>2 DEF Edit
  <2>4. CASE EditOffline(op, es)
    <3>1. EnqueueOperation(op) /\ calls' = calls /\ events' = es
      BY <2>4 DEF EditOffline
    <3>2. Unsent' \subseteq Unsent \cup {op}
      BY <2>3, <3>1, EnqueueOps
    <3>3. Edited(op, es)
      BY <2>1, <2>3, <3>1, <3>2 DEF Edited
    <3>4. QED
      BY <3>3 DEF Kinds
  <2>5. CASE EditOnline(op)
    <3>1. UNCHANGED <<pendingOperations, events>> /\ calls' = calls \cup {op}
      BY <2>5 DEF EditOnline
    <3>2. Unsent' \subseteq Unsent \cup {op}
      <4>1. Unsent' \subseteq Unsent \cup calls'
        BY <2>3, <3>1, SameLists
      <4>2. calls \subseteq Unsent
        BY DEF Unsent
      <4>3. QED
        BY <3>1, <4>1, <4>2
    <3>3. Edited(op, es)
      BY <2>1, <2>3, <3>1, <3>2 DEF Edited
    <3>4. QED
      BY <3>3 DEF Kinds
  <2>6. QED
    BY <2>2, <2>4, <2>5 DEF Edit
<1>3. ASSUME NEW f \in Flushes, FlushSent(f) PROVE Kinds
  <2> DEFINE op == Head(flushes[f].todo)
  <2>1. Suspended(f) /\ Serve(op) /\ Advance(f, flushes[f].remaining)
        /\ UNCHANGED <<calls, edits, contended>>
    BY <1>3 DEF FlushSent
  <2>2. flushes[f].remaining \in Seq(PendingCalendarOperation) /\ op \in PendingCalendarOperation
    BY <2>1, SuspendedType
  <2>3. op \in Unsent /\ Unsent' \subseteq Unsent
    BY <2>1, <2>2, AdvanceOps
  <2>4. op.event.ver \in Holds(f)
    <3>1. ListsAreSound(flushes[f])
      BY <2>1 DEF FlushesAreSound
    <3>2. QED
      BY <2>1, <3>1, SuspendedType, DistinctHead DEF ListsAreSound, Holds
  <2>5. op.event.ver \in sent => op.event.ver \in contended
    BY <2>1, <2>4 DEF FlushesAreSound
  <2>6. op \notin calls
    BY <2>1, <2>4 DEF FlushesAreSound, CallsAreNew
  <2>7. events' = CASE op.type = "create" -> ReplaceEvent(op.event.id, Created(op.event))
                    [] op.type = "update" -> ReplaceEvent(op.event.id, Updated(op.event))
                    [] op.type = "delete" -> RemoveEvent(op.event.id)
    BY <1>3 DEF FlushSent
  <2> HIDE DEF op
  <2>8. Answered(op)
    BY <2>1, <2>3, <2>5, <2>6, <2>7 DEF Answered
  <2>9. QED
    BY <2>2, <2>8 DEF Kinds
<1>4. ASSUME NEW f \in Flushes, FlushFailed(f) PROVE Kinds
  <2> DEFINE op == Head(flushes[f].todo)
             kept == Append(flushes[f].remaining, op)
  <2>1. Suspended(f) /\ Throw(op) /\ Advance(f, kept) /\ UNCHANGED <<calls, edits, events>>
    BY <1>4 DEF FlushFailed
  <2>2. flushes[f].remaining \in Seq(PendingCalendarOperation) /\ op \in PendingCalendarOperation
    BY <2>1, SuspendedType
  <2>3. kept \in Seq(PendingCalendarOperation) /\ Ops(kept) = Ops(flushes[f].remaining) \cup {op}
    BY <2>2, OpsOfAppend
  <2> HIDE DEF kept
  <2>4. op \in Unsent /\ Unsent' \subseteq Unsent
    BY <2>1, <2>3, AdvanceOps
  <2>5. CASE UNCHANGED <<remote, sent, contended>>
    BY <2>1, <2>4, <2>5 DEF Kinds, Quiet
  <2>6. CASE Serve(op) /\ contended' = contended \cup {op.event.ver}
    BY <2>1, <2>2, <2>4, <2>6 DEF Kinds, Lost
  <2>7. QED
    BY <2>1, <2>5, <2>6 DEF Throw
<1>5. ASSUME NEW f \in Flushes, Fetched(f) \/ FetchFailed(f) PROVE Kinds
  <2>1. /\ UNCHANGED <<pendingOperations, calls, remote, edits, sent, contended>>
        /\ flushes[f] = Fetching /\ flushes' = [flushes EXCEPT ![f] = Idle]
    BY <1>5 DEF Fetched, FetchFailed, history
  <2>2. /\ \A g \in Flushes \ {f} : flushes'[g] = flushes[g]
        /\ flushes'[f] = Idle
    BY <2>1 DEF TypeOK
  <2>3. ~ Suspended(f)'
    BY <2>2 DEF Suspended, Idle
  <2>4. Unsent' \subseteq Unsent
    <3>1. \A g \in Flushes : flushes'[g] = flushes[g] \/ ~ Suspended(g)'
      BY <2>2, <2>3
    <3>2. Unsent' \subseteq Unsent \cup calls'
      BY <2>1, <3>1, SameLists
    <3>3. QED
      BY <2>1, <3>2 DEF Unsent
  <2>5. CASE Fetched(f)
    BY <2>1, <2>4, <2>5 DEF Kinds, Reloaded, Fetched
  <2>6. CASE FetchFailed(f)
    BY <2>1, <2>4, <2>6 DEF Kinds, Quiet, FetchFailed
  <2>7. QED
    BY <1>5, <2>5, <2>6
<1>6. ASSUME NEW op \in calls, CallSent(op) PROVE Kinds
  <2>1. /\ UNCHANGED <<pendingOperations, flushes, edits, contended>>
        /\ calls' = calls \ {op} /\ Serve(op)
    BY <1>6 DEF CallSent
  <2>2. op \in Unsent /\ op \in PendingCalendarOperation /\ calls \subseteq Unsent
    BY DEF Unsent, TypeOK
  <2>3. Unsent' \subseteq Unsent
    <3>1. Unsent' \subseteq Unsent \cup calls'
      BY <2>1, SameLists
    <3>2. QED
      BY <2>1, <2>2, <3>1
  <2>4. op.event.ver \notin sent
    BY DEF CallsAreNew
  <2>5. events' = CASE op.type = "create" -> ApplyOrInsert(Created(op.event))
                    [] op.type = "update" -> ReplaceEvent(op.event.id, Updated(op.event))
                    [] op.type = "delete" -> RemoveEvent(op.event.id)
    BY <1>6 DEF CallSent
  <2>6. Answered(op)
    BY <2>1, <2>2, <2>3, <2>4, <2>5 DEF Answered
  <2>7. QED
    BY <2>2, <2>6 DEF Kinds
<1>7. ASSUME NEW op \in calls, CallFailed(op) PROVE Kinds
  <2>1. /\ op \in PendingCalendarOperation /\ op \in Unsent
        /\ EnqueueOperation(op) /\ UNCHANGED <<events, flushes, edits>>
        /\ calls' = calls \ {op} /\ Throw(op)
    BY <1>7 DEF CallFailed, TypeOK, Unsent
  <2>2. Unsent' \subseteq Unsent
    BY <2>1, EnqueueOps
  <2>3. CASE UNCHANGED <<remote, sent, contended>>
    BY <2>1, <2>2, <2>3 DEF Kinds, Quiet
  <2>4. CASE Serve(op) /\ contended' = contended \cup {op.event.ver}
    BY <2>1, <2>2, <2>4 DEF Kinds, Lost
  <2>5. QED
    BY <2>1, <2>3, <2>4 DEF Throw
<1>8. CASE ClearError \/ UNCHANGED vars
  <2>1. UNCHANGED <<events, pendingOperations, flushes, calls, remote, edits, sent, contended>>
    BY <1>8 DEF ClearError, vars, shown, history
  <2>2. Unsent' = Unsent
    BY <2>1 DEF Unsent, Suspended
  <2>3. QED
    BY <2>1, <2>2 DEF Kinds, Quiet
<1>9. QED
  BY <1>1, <1>2, <1>3, <1>4, <1>5, <1>6, <1>7, <1>8 DEF Next

---------------------------------------------------------------------------
(* The service's events *)

IdsAreUnique ==
  /\ \A r, s \in remoteEvents : r.id = s.id => r = s
  /\ \A r \in remoteEvents : r.id[1] = "server" => r.id[2] <= lastId

\* Ids of the service are ids of events it has, for it forgets none.
IdsAreKnown ==
  /\ \A e \in events : e.id[1] = "server" => Known(e.id)
  /\ \A op \in Unsent : op.event.id[1] = "server" => Known(op.event.id)

CreatesAreOriginal ==
  \A op \in Unsent : op.type = "create" => op.event.origin = op.event.ver

CreatedWasSent ==
  \A r \in remoteEvents : r.id[1] = "server" => r.origin \in sent

RemoteInv == /\ StampsInv /\ IdsAreUnique /\ IdsAreKnown /\ CreatesAreOriginal
             /\ CreatedWasSent /\ CreatedTwiceOnlyIfContended

LEMMA CreatedFields ==
  ASSUME NEW event \in CalendarEvent
  PROVE  /\ Created(event).id = <<"server", lastId + 1>>
         /\ Created(event).id[1] = "server" /\ Created(event).id[2] = lastId + 1
         /\ Created(event).origin = event.origin
         /\ Created(event).ver = event.ver
         /\ ~ Created(event).deleted
BY DEF Created, CalendarEvent

LEMMA UpdatedFields ==
  ASSUME TypeOK, NEW event \in CalendarEvent
  PROVE  /\ Updated(event).id = event.id
         /\ Updated(event).ver = event.ver
         /\ Known(event.id) => \E r \in remoteEvents :
               /\ r.id = event.id
               /\ Updated(event).origin = r.origin
               /\ Updated(event).deleted = r.deleted
         /\ ~ Known(event.id) => Updated(event) = event
<1>1. CASE Known(event.id)
  <2> DEFINE r == RemoteEvent(event.id)
  <2>1. r \in remoteEvents /\ r.id = event.id
    BY <1>1 DEF Known, RemoteEvent
  <2>2. r \in CalendarEvent
    BY <2>1 DEF TypeOK
  <2> HIDE DEF r
  <2>3. Updated(event) = [r EXCEPT !.ver = event.ver]
    BY <1>1 DEF Updated, r
  <2>4. /\ Updated(event).id = r.id /\ Updated(event).ver = event.ver
        /\ Updated(event).origin = r.origin /\ Updated(event).deleted = r.deleted
    BY <2>2, <2>3 DEF CalendarEvent
  <2>5. QED
    BY <1>1, <2>1, <2>4
<1>2. CASE ~ Known(event.id)
  BY <1>2 DEF Updated
<1>3. QED
  BY <1>1, <1>2

LEMMA UnsentEvent ==
  ASSUME TypeOK, NEW op \in Unsent
  PROVE  /\ op \in PendingCalendarOperation /\ op.event \in CalendarEvent
         /\ op.type \in {"create", "update", "delete"}
BY UnsentType, OperationEvent DEF PendingCalendarOperation

LEMMA ServeCreate ==
  ASSUME TypeOK, IdsAreUnique, NEW op \in Unsent, op.type = "create", Serve(op)
  PROVE  /\ remoteEvents' = remoteEvents \cup {Created(op.event)}
         /\ lastId' = lastId + 1
         /\ IdsAreUnique'
<1> DEFINE new == Created(op.event)
<1>1. /\ new.id = <<"server", lastId + 1>>
      /\ new.id[1] = "server" /\ new.id[2] = lastId + 1
  BY UnsentEvent, CreatedFields
<1> HIDE DEF new
<1>2. /\ remoteEvents' = {r \in remoteEvents : r.id # new.id} \cup {new}
      /\ lastId' = lastId + 1
  BY DEF Serve, Put, new
<1>3. lastId \in Nat /\ \A r \in remoteEvents : r.id[2] \in Nat
  BY DEF TypeOK, CalendarEvent, EventId
<1>4. \A r \in remoteEvents : r.id # new.id
  BY <1>1, <1>3 DEF IdsAreUnique
<1>5. remoteEvents' = remoteEvents \cup {new}
  BY <1>2, <1>4
<1>6. \A r, s \in remoteEvents' : r.id = s.id => r = s
  BY <1>4, <1>5 DEF IdsAreUnique
<1>7. \A r \in remoteEvents' : r.id[1] = "server" => r.id[2] <= lastId'
  BY <1>1, <1>2, <1>3, <1>5 DEF IdsAreUnique
<1>8. QED
  BY <1>2, <1>5, <1>6, <1>7 DEF IdsAreUnique, new

LEMMA ServeUpdate ==
  ASSUME TypeOK, IdsAreUnique, IdsAreKnown, NEW op \in Unsent,
         op.type = "update", Serve(op)
  PROVE  /\ remoteEvents' = {r \in remoteEvents : r.id # op.event.id}
                               \cup {Updated(op.event)}
         /\ lastId' = lastId
         /\ IdsAreUnique'
<1> DEFINE new == Updated(op.event)
<1>1. /\ new.id = op.event.id
      /\ Known(op.event.id) => \E r \in remoteEvents : r.id = op.event.id
  BY UnsentEvent, UpdatedFields
<1> HIDE DEF new
<1>2. /\ remoteEvents' = {r \in remoteEvents : r.id # op.event.id} \cup {new}
      /\ lastId' = lastId
  BY <1>1 DEF Serve, Put, new
<1>3. \A r, s \in remoteEvents' : r.id = s.id => r = s
  BY <1>1, <1>2 DEF IdsAreUnique
<1>4. new.id[1] = "server" => new.id[2] <= lastId
  BY <1>1 DEF IdsAreUnique, IdsAreKnown
<1>5. \A r \in remoteEvents' : r.id[1] = "server" => r.id[2] <= lastId'
  BY <1>2, <1>4 DEF IdsAreUnique
<1>6. QED
  BY <1>2, <1>3, <1>5 DEF IdsAreUnique, new

LEMMA ServeDelete ==
  ASSUME TypeOK, IdsAreUnique, NEW op \in Unsent, op.type = "delete", Serve(op)
  PROVE  /\ \A r \in remoteEvents : \E s \in remoteEvents' :
               /\ s.id = r.id /\ s.origin = r.origin /\ s.ver = r.ver
               /\ IF r.id = op.event.id THEN s.deleted ELSE s = r
         /\ \A s \in remoteEvents' : \E r \in remoteEvents :
               s.id = r.id /\ s.origin = r.origin /\ s.ver = r.ver
         /\ lastId' = lastId
         /\ IdsAreUnique'
<1> DEFINE Marked(r) == IF r.id = op.event.id THEN [r EXCEPT !.deleted = TRUE] ELSE r
<1>1. \A r \in remoteEvents :
         /\ Marked(r).id = r.id /\ Marked(r).origin = r.origin /\ Marked(r).ver = r.ver
         /\ IF r.id = op.event.id THEN Marked(r).deleted ELSE Marked(r) = r
  BY DEF TypeOK, CalendarEvent
<1>2. remoteEvents' = {Marked(r) : r \in remoteEvents} /\ lastId' = lastId
  BY DEF Serve, MarkDeleted
<1> HIDE DEF Marked
<1>3. \A r, s \in remoteEvents' : r.id = s.id => r = s
  BY <1>1, <1>2 DEF IdsAreUnique
<1>4. \A r \in remoteEvents' : r.id[1] = "server" => r.id[2] <= lastId'
  BY <1>1, <1>2 DEF IdsAreUnique
<1>5. QED
  BY <1>1, <1>2, <1>3, <1>4 DEF IdsAreUnique

\* What a request carried out leaves of the service's events: their ids and
\* origins, and those deleted stay so.
LEMMA ServeKeepsEvents ==
  ASSUME RemoteInv, NEW op \in Unsent, Serve(op)
  PROVE  /\ IdsAreUnique'
         /\ \A r \in remoteEvents : \E s \in remoteEvents' :
               s.id = r.id /\ s.origin = r.origin /\ (r.deleted => s.deleted)
         /\ \A r \in remoteEvents :
               op.type = "create" \/ r.id # op.event.id => r \in remoteEvents'
         /\ \A s \in remoteEvents' :
               \/ /\ s.ver = op.event.ver \/ \E r \in remoteEvents : s.ver = r.ver
                  /\ \E r \in remoteEvents : s.id = r.id /\ s.origin = r.origin
               \/ op.type = "create" /\ s = Created(op.event)
               \/ op.type = "update" /\ ~ Known(op.event.id) /\ s = op.event
<1> USE DEF RemoteInv, StampsInv
<1>1. CASE op.type = "create"
  <2>1. remoteEvents' = remoteEvents \cup {Created(op.event)} /\ IdsAreUnique'
    BY <1>1, ServeCreate
  <2>2. QED
    BY <1>1, <2>1
<1>2. CASE op.type = "update"
  <2> DEFINE new == Updated(op.event)
  <2>1. /\ remoteEvents' = {r \in remoteEvents : r.id # op.event.id} \cup {new}
        /\ IdsAreUnique'
    BY <1>2, ServeUpdate
  <2>2. /\ new.id = op.event.id /\ new.ver = op.event.ver
        /\ Known(op.event.id) => \E r \in remoteEvents :
              r.id = op.event.id /\ new.origin = r.origin /\ new.deleted = r.deleted
        /\ ~ Known(op.event.id) => new = op.event
    BY UnsentEvent, UpdatedFields
  <2> HIDE DEF new
  <2>3. new \in remoteEvents'
    BY <2>1
  <2>4. \A r \in remoteEvents : r.id = op.event.id =>
           new.id = r.id /\ new.origin = r.origin /\ new.deleted = r.deleted
    BY <2>2 DEF Known, IdsAreUnique
  <2>5. \A r \in remoteEvents : r.id # op.event.id => r \in remoteEvents'
    BY <2>1
  <2>6. \A s \in remoteEvents' : s = new \/ s \in remoteEvents
    BY <2>1
  <2>7. QED
    BY <1>2, <2>1, <2>2, <2>3, <2>4, <2>5, <2>6
<1>3. CASE op.type = "delete"
  <2>1. /\ \A r \in remoteEvents : \E s \in remoteEvents' :
               /\ s.id = r.id /\ s.origin = r.origin /\ s.ver = r.ver
               /\ IF r.id = op.event.id THEN s.deleted ELSE s = r
        /\ \A s \in remoteEvents' : \E r \in remoteEvents :
               s.id = r.id /\ s.origin = r.origin /\ s.ver = r.ver
        /\ IdsAreUnique'
    BY <1>3, ServeDelete
  <2>2. QED
    BY <1>3, <2>1
<1>4. QED
  BY <1>1, <1>2, <1>3, UnsentEvent

LEMMA ServeKeepsRemote ==
  ASSUME RemoteInv, NEW op \in Unsent, Serve(op), contended \subseteq contended',
         op.event.ver \in sent => op.event.ver \in contended'
  PROVE  /\ IdsAreUnique' /\ CreatedWasSent' /\ CreatedTwiceOnlyIfContended'
         /\ \A id : Known(id) => Known(id)'
         /\ op.type = "create" => \E s \in remoteEvents' : s.id = Created(op.event).id
         /\ op.type = "update" => Known(op.event.id)'
<1> USE DEF RemoteInv, StampsInv
<1>1. IdsAreUnique'
  BY ServeKeepsEvents
<1>2. \A id : Known(id) => Known(id)'
  BY ServeKeepsEvents DEF Known
<1>3. op.type = "create" => \E s \in remoteEvents' : s.id = Created(op.event).id
  BY ServeCreate
<1>4. op.type = "update" => Known(op.event.id)'
  <2>1. Updated(op.event).id = op.event.id
    BY UnsentEvent, UpdatedFields
  <2>2. QED
    BY <2>1, ServeUpdate DEF Known
<1>5. sent' = sent \cup {op.event.ver}
  BY DEF Serve
<1>6. \A s \in remoteEvents' : s.id[1] = "server" =>
         \/ \E r \in remoteEvents : s.id = r.id /\ s.origin = r.origin
         \/ op.type = "create" /\ s = Created(op.event)
  BY ServeKeepsEvents DEF IdsAreKnown
<1>7. op.type = "create" => Created(op.event).origin = op.event.ver
  BY UnsentEvent, CreatedFields DEF CreatesAreOriginal
<1>8. CreatedWasSent'
  BY <1>5, <1>6, <1>7 DEF CreatedWasSent
<1>9. ASSUME NEW r \in remoteEvents', NEW s \in remoteEvents',
             r.origin = s.origin, r # s, r.id[1] = "server", s.id[1] = "server"
      PROVE  r.origin \in contended'
  <2>1. r.id # s.id
    BY <1>1, <1>9 DEF IdsAreUnique
  <2>2. CASE (\E a \in remoteEvents : r.id = a.id /\ r.origin = a.origin)
             /\ (\E b \in remoteEvents : s.id = b.id /\ s.origin = b.origin)
    <3>1. PICK a \in remoteEvents, b \in remoteEvents :
             /\ r.id = a.id /\ r.origin = a.origin
             /\ s.id = b.id /\ s.origin = b.origin
      BY <2>2
    <3>2. a # b /\ a.origin = b.origin
      BY <1>9, <2>1, <3>1
    <3>3. QED
      BY <1>9, <3>1, <3>2 DEF CreatedTwiceOnlyIfContended
  <2>3. ASSUME NEW a \in remoteEvents, a.id[1] = "server", a.origin = op.event.ver
        PROVE  op.event.ver \in contended'
    BY <2>3 DEF CreatedWasSent
  <2>4. QED
    BY <1>6, <1>7, <1>9, <2>1, <2>2, <2>3
<1>10. QED
  BY <1>1, <1>2, <1>3, <1>4, <1>8, <1>9 DEF CreatedTwiceOnlyIfContended

LEMMA InitUnsent == Init => Unsent = {}
<1> SUFFICES ASSUME Init PROVE Unsent = {}
  OBVIOUS
<1>1. calls = {} /\ Ops(pendingOperations) = {}
  BY OpsOfEmpty DEF Init
<1>2. \A f \in Flushes : ~ Suspended(f)
  BY DEF Init, Suspended, Idle, Fetching
<1>3. QED
  BY <1>1, <1>2 DEF Unsent

LEMMA InitRemote == Init => RemoteInv
<1> SUFFICES ASSUME Init PROVE RemoteInv
  OBVIOUS
<1>1. remoteEvents = {Seed} /\ events = {} /\ sent = {0} /\ lastId = 0
  BY DEF Init
<1>2. Seed.id = <<"server", 0>> /\ Seed.id[2] = 0 /\ Seed.origin = 0
  BY DEF Seed
<1>3. IdsAreUnique /\ CreatedWasSent /\ CreatedTwiceOnlyIfContended
  BY <1>1, <1>2 DEF IdsAreUnique, CreatedWasSent, CreatedTwiceOnlyIfContended
<1>4. IdsAreKnown /\ CreatesAreOriginal
  BY <1>1, InitUnsent DEF IdsAreKnown, CreatesAreOriginal
<1>5. QED
  BY <1>3, <1>4, InitStamps DEF RemoteInv

\* What is shown after a request was answered.
LEMMA AnsweredScreen ==
  ASSUME TypeOK, NEW op, Answered(op), NEW e \in events'
  PROVE  \/ e \in events /\ e.id # op.event.id
         \/ e \in events /\ op.type = "create" /\ op \in calls
         \/ op.type = "create" /\ e = Created(op.event)
         \/ op.type = "update" /\ e = Updated(op.event)
<1>1. op.type \in {"create", "update", "delete"}
  BY UnsentEvent DEF Answered
<1>2. CASE op.type = "create"
  BY <1>2 DEF Answered, ApplyOrInsert, ReplaceEvent, RemoveEvent
<1>3. CASE op.type = "update"
  BY <1>3 DEF Answered, ReplaceEvent
<1>4. CASE op.type = "delete"
  BY <1>4 DEF Answered, RemoveEvent
<1>5. QED
  BY <1>1, <1>2, <1>3, <1>4

LEMMA NextRemote == RemoteInv /\ [Next]_vars => RemoteInv'
<1> SUFFICES ASSUME RemoteInv, [Next]_vars PROVE RemoteInv'
  OBVIOUS
<1> USE DEF RemoteInv
<1>1. StampsInv' /\ TypeOK
  BY NextStamps DEF StampsInv
<1>2. ASSUME UNCHANGED remote, sent' = sent, contended \subseteq contended'
      PROVE  /\ IdsAreUnique' /\ CreatedWasSent' /\ CreatedTwiceOnlyIfContended'
             /\ \A id : Known(id)' = Known(id)
  BY <1>2 DEF remote, IdsAreUnique, CreatedWasSent, CreatedTwiceOnlyIfContended, Known
<1>3. CASE Quiet
  <2>1. IdsAreKnown' /\ CreatesAreOriginal'
    BY <1>2, <1>3 DEF Quiet, IdsAreKnown, CreatesAreOriginal
  <2>2. QED
    BY <1>1, <1>2, <1>3, <2>1 DEF Quiet
<1>4. CASE Reloaded
  <2>1. \A e \in events' : Known(e.id)
    BY <1>4 DEF Reloaded, Known
  <2>2. IdsAreKnown' /\ CreatesAreOriginal'
    BY <1>2, <1>4, <2>1 DEF Reloaded, IdsAreKnown, CreatesAreOriginal
  <2>3. QED
    BY <1>1, <1>2, <1>4, <2>2 DEF Reloaded
<1>5. ASSUME NEW op \in PendingCalendarOperation, NEW es \in SUBSET CalendarEvent,
             Edited(op, es)
      PROVE  RemoteInv'
  <2>1. UNCHANGED <<remote, sent, contended>> /\ Unsent' \subseteq Unsent \cup {op}
    BY <1>5 DEF Edited
  <2>2. \/ op.type = "create" /\ op.event.id[1] = "local" /\ op.event.origin = op.event.ver
        \/ op.type # "create" /\ \E e \in events : op.event.id = e.id
    BY <1>5 DEF Edited, EditOf
  <2>3. op.event.id[1] = "server" => Known(op.event.id)
    BY <2>2 DEF IdsAreKnown
  <2>4. \A e \in events' : e.id = op.event.id \/ e \in events
    BY <1>5 DEF Edited, EditOf
  <2>5. IdsAreKnown'
    BY <1>2, <2>1, <2>3, <2>4 DEF IdsAreKnown
  <2>6. CreatesAreOriginal'
    BY <2>1, <2>2 DEF CreatesAreOriginal
  <2>7. QED
    BY <1>1, <1>2, <2>1, <2>5, <2>6
<1>6. ASSUME NEW op \in PendingCalendarOperation, Answered(op) PROVE RemoteInv'
  <2>1. op \in Unsent /\ Serve(op) /\ Unsent' \subseteq Unsent /\ contended' = contended
    BY <1>6 DEF Answered
  <2>2. op.event.ver \in sent => op.event.ver \in contended'
    BY <1>6, <2>1 DEF Answered
  <2>3. /\ IdsAreUnique' /\ CreatedWasSent' /\ CreatedTwiceOnlyIfContended'
        /\ \A id : Known(id) => Known(id)'
        /\ op.type = "create" => \E s \in remoteEvents' : s.id = Created(op.event).id
        /\ op.type = "update" => Known(op.event.id)'
    BY <2>1, <2>2, ServeKeepsRemote
  <2>4. Updated(op.event).id = op.event.id
    BY <1>1, <2>1, UnsentEvent, UpdatedFields
  <2>5. ASSUME NEW e \in events', e.id[1] = "server" PROVE Known(e.id)'
    <3>1. \/ e \in events
          \/ op.type = "create" /\ e = Created(op.event)
          \/ op.type = "update" /\ e = Updated(op.event)
      BY <1>1, <1>6, AnsweredScreen
    <3>2. CASE e \in events
      BY <2>3, <2>5, <3>2 DEF IdsAreKnown
    <3>3. CASE op.type = "create" /\ e = Created(op.event)
      BY <2>3, <3>3 DEF Known
    <3>4. CASE op.type = "update" /\ e = Updated(op.event)
      BY <2>3, <2>4, <3>4
    <3>5. QED
      BY <3>1, <3>2, <3>3, <3>4
  <2>6. IdsAreKnown'
    BY <2>1, <2>3, <2>5 DEF IdsAreKnown
  <2>7. CreatesAreOriginal'
    BY <2>1 DEF CreatesAreOriginal
  <2>8. QED
    BY <1>1, <2>3, <2>6, <2>7
<1>7. ASSUME NEW op \in PendingCalendarOperation, Lost(op) PROVE RemoteInv'
  <2>1. /\ op \in Unsent /\ Serve(op) /\ Unsent' \subseteq Unsent /\ events' = events
        /\ contended' = contended \cup {op.event.ver}
    BY <1>7 DEF Lost
  <2>2. /\ IdsAreUnique' /\ CreatedWasSent' /\ CreatedTwiceOnlyIfContended'
        /\ \A id : Known(id) => Known(id)'
    BY <2>1, ServeKeepsRemote
  <2>3. IdsAreKnown' /\ CreatesAreOriginal'
    BY <2>1, <2>2 DEF IdsAreKnown, CreatesAreOriginal
  <2>4. QED
    BY <1>1, <2>2, <2>3
<1>8. Kinds
  BY EveryStepIsOfAKind
<1>9. QED
  BY <1>3, <1>4, <1>5, <1>6, <1>7, <1>8 DEF Kinds

\* A created event exists twice on the server only if two flushes held its
\* create at the same time or an answer was lost, whatever else overlaps.
THEOREM CreatedOnce == Spec => []CreatedTwiceOnlyIfContended
<1>1. RemoteInv => CreatedTwiceOnlyIfContended
  BY DEF RemoteInv
<1>2. QED
  BY InitRemote, NextRemote, <1>1, PTL DEF Spec

\* No request brings a deleted event of the service back under its id.
THEOREM DeletedForGood == Spec => DeletedStaysDeleted
<1>1. ASSUME RemoteInv, [Next]_vars
      PROVE  \A r \in remoteEvents : r.deleted =>
                \E s \in remoteEvents' : s.id = r.id /\ s.deleted
  <2>1. Kinds
    BY <1>1, EveryStepIsOfAKind DEF RemoteInv
  <2>2. ASSUME UNCHANGED remote
        PROVE  \A r \in remoteEvents : r.deleted =>
                  \E s \in remoteEvents' : s.id = r.id /\ s.deleted
    BY <2>2 DEF remote
  <2>3. ASSUME NEW op \in Unsent, Serve(op)
        PROVE  \A r \in remoteEvents : r.deleted =>
                  \E s \in remoteEvents' : s.id = r.id /\ s.deleted
    BY <1>1, <2>3, ServeKeepsEvents
  <2>4. QED
    BY <2>1, <2>2, <2>3 DEF Kinds, Quiet, Reloaded, Edited, Answered, Lost
<1>2. RemoteInv /\ [Next]_vars =>
         [\A r \in remoteEvents : r.deleted =>
             \E s \in remoteEvents' : s.id = r.id /\ s.deleted]_vars
  BY <1>1
<1>3. QED
  BY InitRemote, NextRemote, <1>2, PTL DEF Spec, DeletedStaysDeleted

---------------------------------------------------------------------------
(* The screen.  An edit that was not carried out is shown, if it is, under *)
(* the id its operation has, so that the answer replaces what is shown.    *)

VersionsWereSent ==
  /\ \A r \in remoteEvents : r.ver \in sent
  /\ \A e \in events : e.ver \in 0 .. edits

\* An id says which event it is.
Seen == remoteEvents \cup events \cup {op.event : op \in Unsent}

OriginsAgree ==
  /\ \A e \in Seen : e.id[1] = "local" => e.origin = e.id[2]
  /\ \A e \in Seen, r \in remoteEvents : e.id = r.id => e.origin = r.origin

CreatesAreLocal ==
  \A op \in Unsent : op.type = "create" => op.event.id = <<"local", op.event.ver>>

ShownAsUnsent ==
  \A e \in events, op \in Unsent :
     e.ver = op.event.ver /\ e.ver \notin sent =>
        op.type # "delete" /\ op.event.id = e.id /\ op \notin calls

\* The server's event with the id shown was changed by a contended edit.
Outdated(e) ==
  \E r \in remoteEvents :
     /\ r.id = e.id
     /\ r.ver \in contended \/ (r.deleted /\ contended # {})

\* The answer to the create of what is shown was lost, and nobody has seen
\* the event under the service's id.
CreatedUnseen(e) ==
  /\ e.id = <<"local", e.ver>>
  /\ \E r \in remoteEvents :
        r.id[1] = "server" /\ r.origin = e.ver /\ r.ver = e.ver /\ r.ver \in contended
  /\ \A x \in events : x.id[1] = "server" => x.origin # e.ver
  /\ \A op \in Unsent : op.event.id[1] = "server" => op.event.origin # e.ver

ScreenCases ==
  \A e \in events :
     e \in remoteEvents \/ e.ver \notin sent \/ Outdated(e) \/ CreatedUnseen(e)

ScreenInv == /\ RemoteInv /\ VersionsWereSent /\ OriginsAgree /\ CreatesAreLocal
             /\ ShownAsUnsent /\ ScreenCases

LEMMA UnsentStamps == StampsInv => \A op \in Unsent : op.event.ver \in 0 .. edits
<1> SUFFICES ASSUME StampsInv, NEW op \in Unsent PROVE op.event.ver \in 0 .. edits
  OBVIOUS
<1> USE DEF StampsInv
<1>1. \A ops : op \in Ops(ops) => op.event.ver \in Stamps(ops)
  BY DEF Ops, Stamps
<1>2. CASE op \in calls
  BY <1>2 DEF CallsAreNew, TypeOK
<1>3. CASE op \in Ops(pendingOperations)
  BY <1>1, <1>3 DEF QueueIsSound, CallsAreNew
<1>4. ASSUME NEW f \in Flushes, Suspended(f),
             op \in Ops(flushes[f].todo) \cup Ops(flushes[f].remaining)
      PROVE  op.event.ver \in 0 .. edits
  BY <1>1, <1>4 DEF FlushesAreSound, Holds, CallsAreNew
<1>5. QED
  BY <1>2, <1>3, <1>4, UnsentWhere

LEMMA InitScreen == Init => ScreenInv
<1> SUFFICES ASSUME Init PROVE ScreenInv
  OBVIOUS
<1>1. remoteEvents = {Seed} /\ events = {} /\ sent = {0} /\ Unsent = {}
  BY InitUnsent DEF Init
<1>2. Seed.id[1] = "server" /\ Seed.origin = 0 /\ Seed.ver = 0
  BY DEF Seed
<1>3. VersionsWereSent /\ OriginsAgree
  BY <1>1, <1>2 DEF VersionsWereSent, OriginsAgree, Seen
<1>4. CreatesAreLocal /\ ShownAsUnsent /\ ScreenCases
  BY <1>1 DEF CreatesAreLocal, ShownAsUnsent, ScreenCases
<1>5. QED
  BY <1>3, <1>4, InitRemote DEF ScreenInv

\* Nothing happens to the events, or the service's replace those shown.
LEMMA UnservedScreen ==
  ASSUME ScreenInv, RemoteInv', Quiet \/ Reloaded
  PROVE  ScreenInv'
<1> USE DEF ScreenInv
<1>1. /\ remoteEvents' = remoteEvents /\ sent' = sent /\ edits' = edits
      /\ Unsent' \subseteq Unsent /\ calls' \subseteq calls /\ contended \subseteq contended'
      /\ events' = events \/ events' \subseteq remoteEvents
  BY DEF Quiet, Reloaded, remote
<1>2. sent \subseteq 0 .. edits
  BY DEF RemoteInv, StampsInv, CallsAreNew
<1>3. VersionsWereSent'
  BY <1>1, <1>2 DEF VersionsWereSent
<1>4. Seen' \subseteq Seen
  BY <1>1 DEF Seen
<1>5. OriginsAgree'
  BY <1>1, <1>4 DEF OriginsAgree
<1>6. CreatesAreLocal'
  BY <1>1 DEF CreatesAreLocal
<1>7. \A r \in remoteEvents : r.ver \in sent
  BY DEF VersionsWereSent
<1>8. ShownAsUnsent'
  BY <1>1, <1>7 DEF ShownAsUnsent
<1>9. ASSUME events' = events, NEW e \in events
      PROVE  /\ Outdated(e) => Outdated(e)'
             /\ CreatedUnseen(e) => CreatedUnseen(e)'
  BY <1>1, <1>9 DEF Outdated, CreatedUnseen
<1>10. ScreenCases'
  BY <1>1, <1>9 DEF ScreenCases
<1>11. QED
  BY <1>3, <1>5, <1>6, <1>8, <1>10

LEMMA EditedScreen ==
  ASSUME ScreenInv, RemoteInv', NEW op \in PendingCalendarOperation,
         NEW es \in SUBSET CalendarEvent, Edited(op, es)
  PROVE  ScreenInv'
<1> USE DEF ScreenInv
<1>1. /\ remoteEvents' = remoteEvents /\ sent' = sent /\ contended' = contended
      /\ edits' = edits + 1 /\ edits \in Nat /\ Unsent' \subseteq Unsent \cup {op}
      /\ sent \subseteq 0 .. edits
  BY DEF Edited, remote, RemoteInv, StampsInv, CallsAreNew, TypeOK
<1>2. /\ op.event.ver = edits + 1
      /\ \/ /\ op.type = "create" /\ op.event.id = <<"local", edits + 1>>
            /\ op.event.origin = edits + 1
         \/ /\ op.type # "create"
            /\ \E e \in events : op.event.id = e.id /\ op.event.origin = e.origin
  BY DEF Edited, EditOf
<1>3. \/ /\ \A e \in events' : e \in events \/ (op.type # "delete" /\ e = op.event)
         /\ calls' = calls
      \/ events' = events /\ calls' = calls \cup {op}
  BY DEF Edited, EditOf
<1>4. \A o \in Unsent : o.event.ver \in 0 .. edits
  BY UnsentStamps DEF RemoteInv
<1>5. \A e \in events : e.ver \in 0 .. edits
  BY DEF VersionsWereSent
<1>6. VersionsWereSent'
  <2>1. \A e \in events' : e.ver \in 0 .. edits + 1
    BY <1>1, <1>2, <1>3, <1>5
  <2>2. QED
    BY <1>1, <2>1 DEF VersionsWereSent
<1>7. OriginsAgree'
  <2>1. \A x \in Seen' : x \in Seen \/ x = op.event
    BY <1>1, <1>3 DEF Seen
  <2>2. \A x \in Seen : x.id[1] = "local" => x.origin = x.id[2]
    BY DEF OriginsAgree
  <2>3. \A x \in Seen, r \in remoteEvents : x.id = r.id => x.origin = r.origin
    BY DEF OriginsAgree
  <2>4. events \subseteq Seen /\ remoteEvents \subseteq Seen
    BY DEF Seen
  <2>5. op.event.id[1] = "local" => op.event.origin = op.event.id[2]
    BY <1>2, <2>2, <2>4
  <2>6. \A r \in remoteEvents : op.event.id = r.id => op.event.origin = r.origin
    BY <1>2, <2>2, <2>3, <2>4
  <2>7. QED
    BY <1>1, <2>1, <2>2, <2>3, <2>5, <2>6 DEF OriginsAgree
<1>8. CreatesAreLocal'
  BY <1>1, <1>2 DEF CreatesAreLocal
<1>9. ShownAsUnsent'
  <2> SUFFICES ASSUME NEW e \in events', NEW o \in Unsent',
                      e.ver = o.event.ver, e.ver \notin sent
               PROVE  o.type # "delete" /\ o.event.id = e.id /\ o \notin calls'
    BY <1>1 DEF ShownAsUnsent
  <2>1. edits + 1 \notin 0 .. edits
    BY <1>1
  <2>2. \A o1 \in calls : o1 \in Unsent
    BY DEF Unsent
  <2>3. CASE e.ver = edits + 1
    <3>1. e \notin events /\ o \notin Unsent
      BY <1>4, <1>5, <2>1, <2>3
    <3>2. e = op.event /\ op.type # "delete" /\ o = op /\ calls' = calls
      BY <1>1, <1>3, <3>1
    <3>3. QED
      BY <2>2, <3>1, <3>2
  <2>4. CASE e.ver # edits + 1
    <3>1. e \in events /\ o # op
      BY <1>2, <1>3, <2>4
    <3>2. o \in Unsent
      BY <1>1, <3>1
    <3>3. o.type # "delete" /\ o.event.id = e.id /\ o \notin calls
      BY <3>1, <3>2 DEF ShownAsUnsent
    <3>4. QED
      BY <1>3, <3>1, <3>3
  <2>5. QED
    BY <2>3, <2>4
<1>10. ScreenCases'
  <2> SUFFICES ASSUME NEW e \in events', e \notin remoteEvents, e.ver \in sent
               PROVE  Outdated(e)' \/ CreatedUnseen(e)'
    BY <1>1 DEF ScreenCases
  <2>1. e \in events
    BY <1>1, <1>2, <1>3
  <2>2. Outdated(e) \/ CreatedUnseen(e)
    BY <2>1 DEF ScreenCases
  <2>3. Outdated(e) => Outdated(e)'
    BY <1>1 DEF Outdated
  <2>4. CASE CreatedUnseen(e)
    <3>1. \A x \in events : x.id[1] = "server" => x.origin # e.ver
      BY <2>4 DEF CreatedUnseen
    <3>2. op.event.id[1] = "server" => op.event.origin # e.ver
      BY <1>2, <3>1
    <3>3. \A x \in events' : x \in events \/ x = op.event
      BY <1>3
    <3>4. QED
      BY <1>1, <2>4, <3>1, <3>2, <3>3 DEF CreatedUnseen
  <2>5. QED
    BY <2>2, <2>3, <2>4
<1>11. QED
  BY <1>6, <1>7, <1>8, <1>9, <1>10

\* Two events that carry one id have one origin, when the id of each tells its
\* origin or is an id of the service's events.
LEMMA OneOriginPerId ==
  ASSUME NEW S \in SUBSET CalendarEvent, NEW R,
         \A y \in S : y.id[1] = "local" => y.origin = y.id[2],
         \A y \in S, r \in R : y.id = r.id => y.origin = r.origin,
         \A y \in S : y.id[1] = "server" => \E r \in R : r.id = y.id,
         NEW y \in S, NEW z \in S, y.id = z.id
  PROVE  y.origin = z.origin
<1>1. y.id[1] = "local" \/ y.id[1] = "server"
  <2>1. y.id \in EventId
    BY DEF CalendarEvent
  <2>2. QED
    BY <2>1 DEF EventId
<1>2. CASE y.id[1] = "local"
  <2>1. y.origin = y.id[2]
    BY <1>2
  <2>2. z.origin = z.id[2]
    BY <1>2
  <2>3. QED
    BY <2>1, <2>2
<1>3. CASE y.id[1] = "server"
  <2>1. PICK r \in R : r.id = y.id
    BY <1>3
  <2>2. y.origin = r.origin
    BY <2>1
  <2>3. z.origin = r.origin
    BY <2>1
  <2>4. QED
    BY <2>2, <2>3
<1>4. QED
  BY <1>1, <1>2, <1>3

\* What a request carried out leaves of the ids and versions.
LEMMA ServedIds ==
  ASSUME ScreenInv, RemoteInv', NEW op, Answered(op) \/ Lost(op)
  PROVE  VersionsWereSent' /\ OriginsAgree' /\ CreatesAreLocal'
<1> USE DEF ScreenInv
<1>1. /\ op \in Unsent /\ Serve(op) /\ Unsent' \subseteq Unsent /\ edits' = edits
      /\ sent' = sent \cup {op.event.ver} /\ TypeOK /\ op.event \in CalendarEvent
  BY UnsentEvent DEF Answered, Lost, Serve, RemoteInv, StampsInv
<1>2. /\ op.event.ver \in 0 .. edits
      /\ \A e \in events : e.ver \in 0 .. edits
      /\ \A r \in remoteEvents : r.ver \in sent
  BY <1>1, UnsentStamps DEF RemoteInv, VersionsWereSent
<1> DEFINE created == Created(op.event)
           updated == Updated(op.event)
<1>3. /\ created.id[1] = "server" /\ created.id[2] = lastId + 1
      /\ created.origin = op.event.origin /\ created.ver = op.event.ver
  BY <1>1, CreatedFields
<1>4. /\ updated.id = op.event.id /\ updated.ver = op.event.ver
      /\ \/ \E r \in remoteEvents : r.id = op.event.id /\ updated.origin = r.origin
         \/ updated = op.event
  BY <1>1, UpdatedFields
<1>5. \A e \in events' : \/ e \in events
                         \/ op.type = "create" /\ e = created
                         \/ op.type = "update" /\ e = updated
  BY <1>1, AnsweredScreen DEF Lost
<1>6. \A s \in remoteEvents' :
         \/ /\ s.ver = op.event.ver \/ \E r \in remoteEvents : s.ver = r.ver
            /\ \E r \in remoteEvents : s.id = r.id /\ s.origin = r.origin
         \/ op.type = "create" /\ s = created
         \/ op.type = "update" /\ s = op.event
  BY <1>1, ServeKeepsEvents
<1> HIDE DEF created, updated
<1>7. VersionsWereSent'
  <2>1. \A s \in remoteEvents' : s.ver \in sent'
    BY <1>1, <1>2, <1>3, <1>6
  <2>2. \A e \in events' : e.ver \in 0 .. edits'
    BY <1>1, <1>2, <1>3, <1>4, <1>5
  <2>3. QED
    BY <2>1, <2>2 DEF VersionsWereSent
<1>8. remoteEvents \cup events \cup {op.event} \subseteq Seen
      /\ \A o \in Unsent : o.event \in Seen
  BY <1>1 DEF Seen
<1>9. ASSUME NEW x \in Seen'
      PROVE  \/ \E y \in Seen : x.id = y.id /\ x.origin = y.origin
             \/ op.type = "create" /\ x = created
  <2>1. x \in remoteEvents' \/ x \in events' \/ \E o \in Unsent' : x = o.event
    BY DEF Seen
  <2>2. CASE x \in remoteEvents'
    BY <1>6, <1>8, <2>2
  <2>3. CASE x \in events'
    BY <1>4, <1>5, <1>8, <2>3
  <2>4. CASE \E o \in Unsent' : x = o.event
    BY <1>1, <1>8, <2>4
  <2>5. QED
    BY <2>1, <2>2, <2>3, <2>4
<1>10. /\ \A y \in Seen : y.id[1] = "local" => y.origin = y.id[2]
       /\ \A y \in Seen, r \in remoteEvents : y.id = r.id => y.origin = r.origin
  BY DEF OriginsAgree
<1>11. \A x \in Seen' : x.id[1] = "local" => x.origin = x.id[2]
  BY <1>3, <1>9, <1>10
<1>12. \A y \in Seen : y.id[1] = "server" => \E r \in remoteEvents : r.id = y.id
  BY DEF Seen, RemoteInv, IdsAreKnown, Known
<1>13. \A y \in Seen : y.id # created.id
  <2>1. \A r \in remoteEvents : r.id[1] = "server" => r.id[2] <= lastId
    BY DEF RemoteInv, IdsAreUnique
  <2>2. lastId \in Nat
    BY <1>1 DEF TypeOK
  <2>3. QED
    BY <1>3, <1>12, <2>1, <2>2
<1>14. ASSUME NEW x \in Seen', NEW s \in remoteEvents', x.id = s.id
       PROVE  x.origin = s.origin
  <2>1. s \in Seen'
    BY DEF Seen
  <2>2. CASE x = created \/ s = created
    BY <1>9, <1>13, <1>14, <2>1, <2>2
  <2>3. ASSUME NEW y \in Seen, NEW z \in Seen, x.id = y.id, x.origin = y.origin,
               s.id = z.id, s.origin = z.origin
        PROVE  x.origin = s.origin
    <3>1. Seen \subseteq CalendarEvent
      BY <1>1, UnsentEvent DEF Seen, TypeOK
    <3>2. y.id = z.id
      BY <1>14, <2>3
    <3>3. y.origin = z.origin
      BY <1>10, <1>12, <3>1, <3>2, OneOriginPerId
    <3>4. QED
      BY <2>3, <3>3
  <2>4. QED
    BY <1>9, <2>1, <2>2, <2>3
<1>15. OriginsAgree'
  BY <1>11, <1>14 DEF OriginsAgree
<1>16. CreatesAreLocal'
  BY <1>1 DEF CreatesAreLocal
<1>17. QED
  BY <1>7, <1>15, <1>16

\* The service's events that explain what is shown outlive a request that is
\* carried out, or its own event does.
LEMMA ServedKeeps ==
  ASSUME ScreenInv, NEW op, Answered(op) \/ Lost(op),
         NEW e \in events, op.type = "create" \/ e.id # op.event.id
  PROVE  /\ e \in remoteEvents => e \in remoteEvents'
         /\ Outdated(e) => Outdated(e)'
<1>1. op \in Unsent /\ Serve(op) /\ contended \subseteq contended'
  BY DEF Answered, Lost
<1>2. \A r \in remoteEvents : r.id = e.id => r \in remoteEvents'
  BY <1>1, ServeKeepsEvents DEF ScreenInv
<1>3. QED
  BY <1>1, <1>2 DEF Outdated

\* An event nobody has seen under the service's id keeps its explanation.
LEMMA ServedUnseen ==
  ASSUME ScreenInv, NEW op, Answered(op) \/ Lost(op),
         NEW e \in events, CreatedUnseen(e), Lost(op) \/ e.id # op.event.id \/ op \in calls
  PROVE  CreatedUnseen(e)'
<1> USE DEF ScreenInv
<1>1. /\ op \in Unsent /\ Serve(op) /\ contended \subseteq contended'
      /\ Unsent' \subseteq Unsent /\ TypeOK /\ op.event \in CalendarEvent
  BY UnsentEvent DEF Answered, Lost, RemoteInv, StampsInv
<1>2. PICK r \in remoteEvents :
         r.id[1] = "server" /\ r.origin = e.ver /\ r.ver = e.ver /\ r.ver \in contended
  BY DEF CreatedUnseen
<1>3. /\ \A x \in events : x.id[1] = "server" => x.origin # e.ver
      /\ \A o \in Unsent : o.event.id[1] = "server" => o.event.origin # e.ver
      /\ e.id = <<"local", e.ver>>
  BY DEF CreatedUnseen
<1>4. op.event \in Seen /\ \A x \in Seen : \A s \in remoteEvents : x.id = s.id => x.origin = s.origin
  BY <1>1 DEF Seen, OriginsAgree
<1>5. r.id # op.event.id
  BY <1>1, <1>2, <1>3, <1>4
<1>6. r \in remoteEvents'
  BY <1>1, <1>5, ServeKeepsEvents
<1>7. ASSUME NEW x \in events', x.id[1] = "server" PROVE x.origin # e.ver
  <2>1. \/ x \in events
        \/ Answered(op) /\ op.type = "create" /\ x = Created(op.event)
        \/ Answered(op) /\ op.type = "update" /\ x = Updated(op.event)
    BY <1>1, AnsweredScreen DEF Lost
  <2>2. CASE Answered(op) /\ op.type = "create" /\ x = Created(op.event)
    <3>1. x.origin = op.event.ver /\ op.event.id = <<"local", op.event.ver>>
      BY <1>1, <2>2, CreatedFields DEF RemoteInv, CreatesAreOriginal, CreatesAreLocal
    <3>2. op \in calls => op.event.ver \notin sent
      BY DEF RemoteInv, StampsInv, CallsAreNew
    <3>3. e.ver \in sent
      BY <1>2 DEF VersionsWereSent
    <3>4. CASE op \in calls
      BY <3>1, <3>2, <3>3, <3>4
    <3>5. CASE op \notin calls
      <4>1. e.id # op.event.id => e.ver # op.event.ver
        BY <1>3, <3>1
      <4>2. Lost(op) => x \in events
        BY DEF Lost
      <4>3. QED
        BY <1>3, <1>7, <3>1, <3>5, <4>1, <4>2
    <3>6. QED
      BY <3>4, <3>5
  <2>3. CASE op.type = "update" /\ x = Updated(op.event)
    <3>1. x.id = op.event.id
      BY <1>1, <2>3, UpdatedFields
    <3>2. \/ \E s \in remoteEvents : s.id = op.event.id /\ x.origin = s.origin
          \/ x = op.event
      BY <1>1, <2>3, UpdatedFields
    <3>3. op.event.origin # e.ver
      BY <1>1, <1>3, <1>7, <3>1
    <3>4. QED
      BY <1>4, <3>2, <3>3
  <2>4. QED
    BY <1>3, <1>7, <2>1, <2>2, <2>3
<1>8. QED
  BY <1>1, <1>2, <1>3, <1>6, <1>7 DEF CreatedUnseen

LEMMA AnsweredShown ==
  ASSUME ScreenInv, RemoteInv', NEW op, Answered(op)
  PROVE  ScreenInv'
<1> USE DEF ScreenInv
<1>1. /\ op \in Unsent /\ Serve(op) /\ Unsent' \subseteq Unsent /\ calls' \subseteq calls
      /\ sent' = sent \cup {op.event.ver} /\ TypeOK /\ op.event \in CalendarEvent
  BY UnsentEvent DEF Answered, Serve, RemoteInv, StampsInv
<1>2. VersionsWereSent' /\ OriginsAgree' /\ CreatesAreLocal'
  BY ServedIds
<1>3. /\ Created(op.event).ver = op.event.ver
      /\ Updated(op.event).ver = op.event.ver
  BY <1>1, CreatedFields, UpdatedFields
<1>4. \A e \in events' :
         \/ e \in events /\ (e.id # op.event.id \/ (op.type = "create" /\ op \in calls))
         \/ op.type = "create" /\ e = Created(op.event)
         \/ op.type = "update" /\ e = Updated(op.event)
  BY <1>1, AnsweredScreen
<1>5. ShownAsUnsent'
  BY <1>1, <1>3, <1>4 DEF ShownAsUnsent
<1>6. ScreenCases'
  <2> SUFFICES ASSUME NEW e \in events'
               PROVE  \/ e \in remoteEvents' \/ e.ver \notin sent'
                      \/ Outdated(e)' \/ CreatedUnseen(e)'
    BY DEF ScreenCases
  <2>1. CASE op.type = "create" /\ e = Created(op.event)
    <3>1. Created(op.event) \in remoteEvents'
      BY <1>1, <2>1, ServeCreate DEF RemoteInv
    <3>2. QED
      BY <2>1, <3>1
  <2>2. CASE op.type = "update" /\ e = Updated(op.event)
    <3>1. Updated(op.event) \in remoteEvents'
      BY <1>1, <2>2, ServeUpdate DEF RemoteInv
    <3>2. QED
      BY <2>2, <3>1
  <2>3. CASE e \in events /\ (e.id # op.event.id \/ (op.type = "create" /\ op \in calls))
    <3>1. e \in remoteEvents => e \in remoteEvents'
      BY <2>3, ServedKeeps
    <3>2. Outdated(e) => Outdated(e)'
      BY <2>3, ServedKeeps
    <3>3. CreatedUnseen(e) => CreatedUnseen(e)'
      BY <2>3, ServedUnseen
    <3>4. e.ver \notin sent => e.ver \notin sent'
      <4>1. e.ver = op.event.ver /\ e.ver \notin sent =>
               op.event.id = e.id /\ op \notin calls
        BY <1>1, <2>3 DEF ShownAsUnsent
      <4>2. QED
        BY <1>1, <2>3, <4>1
    <3>5. QED
      BY <2>3, <3>1, <3>2, <3>3, <3>4 DEF ScreenCases
  <2>4. QED
    BY <1>4, <2>1, <2>2, <2>3
<1>7. QED
  BY <1>2, <1>5, <1>6

\* A request that was carried out unanswered changed the service's event.
LEMMA LostOutdates ==
  ASSUME ScreenInv, NEW op, Lost(op), op.type # "create",
         NEW e \in events, e.id = op.event.id
  PROVE  (op.type = "delete" /\ ~ Known(e.id)) \/ Outdated(e)'
<1> USE DEF ScreenInv
<1>1. /\ op \in Unsent /\ Serve(op) /\ TypeOK /\ op.event \in CalendarEvent
      /\ contended' = contended \cup {op.event.ver}
      /\ op.type \in {"create", "update", "delete"}
  BY UnsentEvent DEF Lost, RemoteInv, StampsInv
<1>2. CASE op.type = "update"
  <2>1. /\ Updated(op.event).id = op.event.id
        /\ Updated(op.event).ver = op.event.ver
    BY <1>1, UpdatedFields
  <2>2. Updated(op.event) \in remoteEvents'
    BY <1>1, <1>2, ServeUpdate DEF RemoteInv
  <2>3. QED
    BY <1>1, <2>1, <2>2 DEF Outdated
<1>3. CASE op.type = "delete" /\ Known(e.id)
  <2>1. PICK r \in remoteEvents : r.id = e.id
    BY <1>3 DEF Known
  <2>2. \E s \in remoteEvents' : s.id = e.id /\ s.deleted
    BY <1>1, <1>3, <2>1, ServeDelete DEF RemoteInv
  <2>3. QED
    BY <1>1, <2>2 DEF Outdated
<1>4. QED
  BY <1>1, <1>2, <1>3

LEMMA LostShown ==
  ASSUME ScreenInv, RemoteInv', NEW op, Lost(op)
  PROVE  ScreenInv'
<1> USE DEF ScreenInv
<1>1. /\ op \in Unsent /\ Serve(op) /\ Unsent' \subseteq Unsent /\ calls' \subseteq calls
      /\ sent' = sent \cup {op.event.ver} /\ TypeOK /\ op.event \in CalendarEvent
      /\ events' = events /\ contended' = contended \cup {op.event.ver}
  BY UnsentEvent DEF Lost, Serve, RemoteInv, StampsInv
<1>2. VersionsWereSent' /\ OriginsAgree' /\ CreatesAreLocal'
  BY ServedIds
<1>3. ShownAsUnsent'
  BY <1>1 DEF ShownAsUnsent
<1>4. ASSUME NEW e \in events, e.ver = op.event.ver, e.ver \notin sent, op.type = "create"
      PROVE  CreatedUnseen(e)'
  <2>1. op.event.id = <<"local", op.event.ver>> /\ op.event.origin = op.event.ver
    BY <1>1, <1>4 DEF CreatesAreLocal, RemoteInv, CreatesAreOriginal
  <2>2. e.id = <<"local", e.ver>>
    BY <1>1, <1>4, <2>1 DEF ShownAsUnsent
  <2>3. /\ Created(op.event).id[1] = "server"
        /\ Created(op.event).origin = e.ver /\ Created(op.event).ver = e.ver
        /\ Created(op.event) \in remoteEvents'
    BY <1>1, <1>4, <2>1, CreatedFields, ServeCreate DEF RemoteInv
  <2>4. ASSUME NEW x \in Seen, x.id[1] = "server" PROVE x.origin # e.ver
    <3>1. PICK r \in remoteEvents : r.id = x.id
      BY <2>4 DEF Seen, RemoteInv, IdsAreKnown, Known
    <3>2. r.origin = x.origin /\ r.origin \in sent
      BY <2>4, <3>1 DEF OriginsAgree, RemoteInv, CreatedWasSent
    <3>3. QED
      BY <1>4, <3>2
  <2>5. events \subseteq Seen /\ \A o \in Unsent : o.event \in Seen
    BY DEF Seen
  <2>6. e.ver \in contended'
    BY <1>1, <1>4
  <2>7. \E r \in remoteEvents' :
           r.id[1] = "server" /\ r.origin = e.ver /\ r.ver = e.ver /\ r.ver \in contended'
    BY <2>3, <2>6
  <2>8. QED
    BY <1>1, <2>2, <2>4, <2>5, <2>7 DEF CreatedUnseen
<1>5. ScreenCases'
  <2> SUFFICES ASSUME NEW e \in events
               PROVE  \/ e \in remoteEvents' \/ e.ver \notin sent'
                      \/ Outdated(e)' \/ CreatedUnseen(e)'
    BY <1>1 DEF ScreenCases
  <2>1. CreatedUnseen(e) => CreatedUnseen(e)'
    BY ServedUnseen
  <2>2. CASE e.ver \notin sent
    <3>1. e.ver = op.event.ver =>
             op.type # "delete" /\ op.event.id = e.id
      BY <1>1, <2>2 DEF ShownAsUnsent
    <3>2. QED
      BY <1>1, <1>4, <2>2, <3>1, LostOutdates
  <2>3. CASE e \in remoteEvents \/ Outdated(e)
    <3>1. Known(e.id)
      BY <2>3 DEF Known, Outdated
    <3>2. QED
      BY <2>3, <3>1, ServedKeeps, LostOutdates
  <2>4. QED
    BY <2>1, <2>2, <2>3 DEF ScreenCases
<1>6. QED
  BY <1>2, <1>3, <1>5

LEMMA NextScreen == ScreenInv /\ [Next]_vars => ScreenInv'
<1> SUFFICES ASSUME ScreenInv, [Next]_vars PROVE ScreenInv'
  OBVIOUS
<1>1. RemoteInv' /\ Kinds
  BY NextRemote, EveryStepIsOfAKind DEF ScreenInv, RemoteInv
<1>2. QED
  BY <1>1, UnservedScreen, EditedScreen, AnsweredShown, LostShown DEF Kinds

\* What is shown of an event is what the service holds or an edit it has not
\* carried out, unless an answer was lost or two flushes held an edit.
THEOREM WhatIsShownIsExplained == Spec => []ScreenExplained
<1>1. ScreenInv => ScreenExplained
  <2> SUFFICES ASSUME ScreenInv, NEW e \in events, e \notin remoteEvents, e.ver \in sent
               PROVE  \E r \in remoteEvents :
                         /\ r.origin = e.origin
                         /\ r.ver \in contended \/ (r.deleted /\ contended # {})
    BY DEF ScreenExplained
  <2>1. e \in Seen
    BY DEF Seen
  <2>2. CASE Outdated(e)
    BY <2>1, <2>2 DEF Outdated, ScreenInv, OriginsAgree
  <2>3. CASE CreatedUnseen(e)
    <3>1. e.id[1] = "local" /\ e.id[2] = e.ver
      BY <2>3 DEF CreatedUnseen
    <3>2. e.origin = e.ver
      BY <2>1, <3>1 DEF ScreenInv, OriginsAgree
    <3>3. QED
      BY <2>3, <3>2 DEF CreatedUnseen
  <2>4. QED
    BY <2>2, <2>3 DEF ScreenInv, ScreenCases
<1>2. QED
  BY InitScreen, NextScreen, <1>1, PTL DEF Spec
===========================================================================
