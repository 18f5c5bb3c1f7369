------------------------ MODULE CalendarController ------------------------
(***************************************************************************)
(* The offline calendar of the Flutter client.                             *)
(*                                                                         *)
(* CalendarController keeps the events on the screen and a queue of edits  *)
(* made while offline (or whose request failed); _flushQueue sends the     *)
(* queue, one awaited request per operation, and at its end writes back    *)
(* what is left of the list it started from.  CalendarApiService holds the *)
(* remote events.                                                          *)
(*                                                                         *)
(* Dart runs one piece of code at a time and switches only at an await, so *)
(* an action here is the code between two awaits.  A request of            *)
(* CalendarApiService takes effect and is answered in the same turn of the *)
(* event loop, after its delay; the delays are arbitrary here.  The        *)
(* in-memory service never throws, any other CalendarRepository may: the   *)
(* constant FailureModes says how (see below).                             *)
(***************************************************************************)
EXTENDS Naturals, Sequences, FiniteSets

CONSTANTS
    Flushes,       \* flush activations that may run at the same time
    MaxEdits,      \* bound on the user's edits
    MaxFailures,   \* bound on the requests that throw
    FailureModes   \* "unsent": thrown before the server acted;
                   \* "unanswered": the server acted and the answer was lost

ASSUME CalendarAssumption ==
    /\ Flushes # {}
    /\ MaxEdits \in Nat
    /\ MaxFailures \in Nat
    /\ FailureModes \subseteq {"unsent", "unanswered"}

VARIABLES
    (* CalendarState *)
    events,             \* the events shown
    pendingOperations,  \* the queue of unsent operations
    isOffline,
    isLoading,
    errorMessage,       \* whether a message is set
    (* CalendarController *)
    retryTimer,         \* whether the periodic retry timer exists
    flushes,            \* the suspended activations of _flushQueue/_loadEvents
    calls,              \* requests of _executeCreate/Update/Delete in flight
    (* CalendarApiService *)
    remoteEvents,
    lastId,             \* the last id _generateId gave out
    (* bounds and history *)
    edits,              \* number of user edits so far; it stamps each edit
    failures,           \* number of requests that threw
    sent,               \* stamps of the edits the server has carried out
    queued,             \* stamps of the edits that entered the queue
    exposed,            \* ... while some flush was suspended
    contended           \* stamps some flush took while another one was
                        \* suspended, or whose answer was lost

shown == <<events, pendingOperations, isOffline, isLoading, errorMessage>>
remote == <<remoteEvents, lastId>>
history == <<sent, queued, exposed, contended>>
vars == <<shown, retryTimer, flushes, calls, remote, edits, failures, history>>

---------------------------------------------------------------------------
(* Events and operations.  An id is either the "local-..." id addEvent     *)
(* makes up or one from the server.  The texts and times of an event are   *)
(* abstracted to `ver', the stamp of the edit they come from; `origin' is  *)
(* the stamp of the edit that created it.                                  *)

Stamp == Nat
EventId == {"local", "server"} \X Nat
CalendarEvent == [id : EventId, origin : Stamp, ver : Stamp, deleted : BOOLEAN]
PendingCalendarOperation ==
    [type : {"create", "update", "delete"}, event : CalendarEvent]

Idle == [at |-> "idle"]
Fetching == [at |-> "fetching"]
Sending ==
    [at : {"sending"}, load : BOOLEAN,
     todo : Seq(PendingCalendarOperation),
     remaining : Seq(PendingCalendarOperation)]
Flush == {Idle, Fetching} \cup Sending

\* The stamps of the operations in a sequence.
Stamps(ops) == {ops[i].event.ver : i \in DOMAIN ops}

Suspended(f) == flushes[f].at = "sending"
SomeFlushSuspended == \E f \in Flushes : Suspended(f)

\* The stamps a suspended flush still has to send or has failed to send.
Holds(f) == Stamps(flushes[f].todo) \cup Stamps(flushes[f].remaining)

---------------------------------------------------------------------------
(* CalendarApiService *)

Known(id) == \E r \in remoteEvents : r.id = id
RemoteEvent(id) == CHOOSE r \in remoteEvents : r.id = id

\* createEvent: the controller only creates events with local ids, which
\* the service replaces.
Created(event) == [event EXCEPT !.id = <<"server", lastId + 1>>, !.deleted = FALSE]

\* Mutant of Updated: the stored event is not merged with the update.
UpdatedUnmerged(event) == event

\* updateEvent: an unknown id is taken over as it is.
Updated(event) ==
    IF Known(event.id) THEN [RemoteEvent(event.id) EXCEPT !.ver = event.ver]
                       ELSE event

Put(event) == {r \in remoteEvents : r.id # event.id} \cup {event}

MarkDeleted(id) ==
    {IF r.id = id THEN [r EXCEPT !.deleted = TRUE] ELSE r : r \in remoteEvents}

\* One request carried out by the service.
Serve(op) ==
    /\ remoteEvents' = CASE op.type = "create" -> Put(Created(op.event))
                         [] op.type = "update" -> Put(Updated(op.event))
                         [] op.type = "delete" -> MarkDeleted(op.event.id)
    /\ lastId' = IF op.type = "create" THEN lastId + 1 ELSE lastId
    /\ sent' = sent \cup {op.event.ver}

\* One request that throws, before or after the service carried it out.
Throw(op) ==
    /\ failures < MaxFailures
    /\ failures' = failures + 1
    /\ \/ /\ "unsent" \in FailureModes
          /\ UNCHANGED <<remote, sent, contended>>
       \/ /\ "unanswered" \in FailureModes
          /\ Serve(op)
          /\ contended' = contended \cup {op.event.ver}

---------------------------------------------------------------------------
(* The screen *)

ReplaceEvent(originalId, updated) ==
    {IF e.id = originalId THEN updated ELSE e : e \in events}

RemoveEvent(id) == {e \in events : e.id # id}

ApplyOrInsert(event) == RemoveEvent(event.id) \cup {event}

---------------------------------------------------------------------------
(* The queue *)

\* Mutant of EnqueueOperation: the retry timer is not started.
EnqueueWithoutRetry(op) ==
    /\ pendingOperations' = Append(pendingOperations, op)
    /\ queued' = queued \cup {op.event.ver}
    /\ exposed' = IF SomeFlushSuspended THEN exposed \cup {op.event.ver}
                                        ELSE exposed
    /\ UNCHANGED retryTimer

\* _enqueueOperation
EnqueueOperation(op) ==
    /\ pendingOperations' = Append(pendingOperations, op)
    /\ retryTimer' = TRUE
    /\ queued' = queued \cup {op.event.ver}
    /\ exposed' = IF SomeFlushSuspended THEN exposed \cup {op.event.ver}
                                        ELSE exposed

\* Mutant of FlushQueue: an empty queue is flushed like any other.
FlushQueueEvenEmpty(f, load) ==
    /\ flushes[f] = Idle
    /\ flushes' = [flushes EXCEPT ![f] =
          [at |-> "sending", load |-> load,
           todo |-> pendingOperations, remaining |-> <<>>]]
    /\ UNCHANGED <<retryTimer, contended>>

\* _flushQueue(force: true) up to its first await, which is where a caller
\* that does not wait for it continues.  `load' says that _loadEvents waits
\* for it.  Every caller passes force: true.
FlushQueue(f, load) ==
    /\ flushes[f] = Idle
    /\ \/ /\ pendingOperations = <<>>
          /\ retryTimer' = FALSE
          /\ flushes' = [flushes EXCEPT ![f] = IF load THEN Fetching ELSE Idle]
          /\ UNCHANGED contended
       \/ /\ pendingOperations # <<>>
          /\ flushes' = [flushes EXCEPT ![f] =
                [at |-> "sending", load |-> load,
                 todo |-> pendingOperations, remaining |-> <<>>]]
          /\ contended' = IF SomeFlushSuspended
                            THEN contended \cup Stamps(pendingOperations)
                            ELSE contended
          /\ UNCHANGED retryTimer

\* Mutants of Advance: the write-back empties the queue, forgets to write,
\* or leaves the timer to the next enqueue.
AdvanceDropping(f, remaining) ==
    LET rest == Tail(flushes[f].todo) IN
    \/ /\ rest # <<>>
       /\ flushes' = [flushes EXCEPT ![f].todo = rest]
       /\ UNCHANGED <<pendingOperations, isOffline, retryTimer>>
    \/ /\ rest = <<>>
       /\ flushes' = [flushes EXCEPT ![f] = IF @.load THEN Fetching ELSE Idle]
       /\ pendingOperations' = <<>>
       /\ isOffline' = (remaining # <<>>)
       /\ retryTimer' = FALSE

AdvanceKeeping(f, remaining) ==
    LET rest == Tail(flushes[f].todo) IN
    \/ /\ rest # <<>>
       /\ flushes' = [flushes EXCEPT ![f].todo = rest,
                                     ![f].remaining = remaining]
       /\ UNCHANGED <<pendingOperations, isOffline, retryTimer>>
    \/ /\ rest = <<>>
       /\ flushes' = [flushes EXCEPT ![f] = IF @.load THEN Fetching ELSE Idle]
       /\ isOffline' = (remaining # <<>>)
       /\ UNCHANGED <<pendingOperations, retryTimer>>

AdvanceDisarming(f, remaining) ==
    LET rest == Tail(flushes[f].todo) IN
    \/ /\ rest # <<>>
       /\ flushes' = [flushes EXCEPT ![f].todo = rest,
                                     ![f].remaining = remaining]
       /\ UNCHANGED <<pendingOperations, isOffline, retryTimer>>
    \/ /\ rest = <<>>
       /\ flushes' = [flushes EXCEPT ![f] = IF @.load THEN Fetching ELSE Idle]
       /\ pendingOperations' = remaining
       /\ isOffline' = (remaining # <<>>)
       /\ retryTimer' = FALSE

\* The rest of the turn after the head of `todo' was answered: on to the
\* next operation, or the write-back that ends the flush.
Advance(f, remaining) ==
    LET rest == Tail(flushes[f].todo) IN
    \/ /\ rest # <<>>
       /\ flushes' = [flushes EXCEPT ![f].todo = rest,
                                     ![f].remaining = remaining]
       /\ UNCHANGED <<pendingOperations, isOffline, retryTimer>>
    \/ /\ rest = <<>>
       /\ flushes' = [flushes EXCEPT ![f] = IF @.load THEN Fetching ELSE Idle]
       /\ pendingOperations' = remaining
       /\ isOffline' = (remaining # <<>>)
       /\ retryTimer' = (remaining # <<>>)

\* Mutant of FlushSent: the answer of a create does not replace the local id.
FlushSentKeepingId(f) ==
    LET op == Head(flushes[f].todo) IN
    /\ Suspended(f)
    /\ Serve(op)
    /\ events' = CASE op.type = "create" -> events
                   [] op.type = "update" -> ReplaceEvent(op.event.id, Updated(op.event))
                   [] op.type = "delete" -> RemoveEvent(op.event.id)
    /\ Advance(f, flushes[f].remaining)
    /\ errorMessage' = FALSE
    /\ UNCHANGED <<isLoading, calls, edits, failures, queued, exposed, contended>>

\* The operation at the head of a flush is carried out.
FlushSent(f) ==
    LET op == Head(flushes[f].todo) IN
    /\ Suspended(f)
    /\ Serve(op)
    /\ events' = CASE op.type = "create" -> ReplaceEvent(op.event.id, Created(op.event))
                   [] op.type = "update" -> ReplaceEvent(op.event.id, Updated(op.event))
                   [] op.type = "delete" -> RemoveEvent(op.event.id)
    /\ Advance(f, flushes[f].remaining)
    /\ errorMessage' = FALSE
    /\ UNCHANGED <<isLoading, calls, edits, failures, queued, exposed, contended>>

\* The operation at the head of a flush throws: it is kept for later.
FlushFailed(f) ==
    LET op == Head(flushes[f].todo) IN
    /\ Suspended(f)
    /\ Throw(op)
    /\ Advance(f, Append(flushes[f].remaining, op))
    /\ errorMessage' = (errorMessage /\ Tail(flushes[f].todo) # <<>>)
    /\ UNCHANGED <<events, isLoading, calls, edits, queued, exposed>>

\* The retry timer fires.
RetryTick ==
    /\ retryTimer
    /\ \E f \in Flushes : FlushQueue(f, FALSE)
    /\ UNCHANGED <<shown, calls, remote, edits, failures, sent, queued, exposed>>

\* syncPending()
SyncPending ==
    /\ \E f \in Flushes : FlushQueue(f, FALSE)
    /\ UNCHANGED <<shown, calls, remote, edits, failures, sent, queued, exposed>>

\* toggleOfflineMode(): going online starts a flush.
ToggleOfflineMode ==
    /\ isOffline' = ~isOffline
    /\ errorMessage' = FALSE
    /\ \/ /\ isOffline
          /\ \E f \in Flushes : FlushQueue(f, FALSE)
       \/ /\ ~isOffline
          /\ UNCHANGED <<retryTimer, flushes, contended>>
    /\ UNCHANGED <<events, pendingOperations, isLoading, calls, remote, edits,
                   failures, sent, queued, exposed>>

---------------------------------------------------------------------------
(* Loading *)

\* refresh(): flush first, then fetch.
Refresh ==
    /\ isLoading' = TRUE
    /\ errorMessage' = FALSE
    /\ \E f \in Flushes : FlushQueue(f, TRUE)
    /\ UNCHANGED <<events, pendingOperations, isOffline, calls, remote, edits,
                   failures, sent, queued, exposed>>

\* The answer to fetchEvents replaces what is on the screen.
Fetched(f) ==
    /\ flushes[f] = Fetching
    /\ flushes' = [flushes EXCEPT ![f] = Idle]
    /\ events' = {r \in remoteEvents : ~r.deleted}
    /\ isLoading' = FALSE
    /\ errorMessage' = FALSE
    /\ UNCHANGED <<pendingOperations, isOffline, retryTimer, calls, remote,
                   edits, failures, history>>

FetchFailed(f) ==
    /\ flushes[f] = Fetching
    /\ FailureModes # {}
    /\ failures < MaxFailures
    /\ failures' = failures + 1
    /\ flushes' = [flushes EXCEPT ![f] = Idle]
    /\ isLoading' = FALSE
    /\ errorMessage' = TRUE
    /\ UNCHANGED <<events, pendingOperations, isOffline, retryTimer, calls,
                   remote, edits, history>>

\* clearError()
ClearError ==
    /\ errorMessage
    /\ errorMessage' = FALSE
    /\ UNCHANGED <<events, pendingOperations, isOffline, isLoading, retryTimer,
                   flushes, calls, remote, edits, failures, history>>

---------------------------------------------------------------------------
(* The user's edits.  Offline, an edit is queued and shown at once; online *)
(* it becomes a request and is shown when answered.                        *)

EditOffline(op, eventsShown) ==
    /\ isOffline
    /\ EnqueueOperation(op)
    /\ events' = eventsShown
    /\ errorMessage' = FALSE
    /\ UNCHANGED calls

EditOnline(op) ==
    /\ ~isOffline
    /\ calls' = calls \cup {op}
    /\ UNCHANGED <<events, pendingOperations, errorMessage, retryTimer, queued, exposed>>

Edit(op, eventsShown) ==
    /\ edits < MaxEdits
    /\ edits' = edits + 1
    /\ EditOffline(op, eventsShown) \/ EditOnline(op)
    /\ UNCHANGED <<isOffline, isLoading, flushes, remote, failures, sent, contended>>

AddEvent ==
    LET now == edits + 1
        pending == [id |-> <<"local", now>>, origin |-> now, ver |-> now,
                    deleted |-> FALSE]
    IN  Edit([type |-> "create", event |-> pending], events \cup {pending})

UpdateEvent(event) ==
    LET updated == [event EXCEPT !.ver = edits + 1]
    IN  Edit([type |-> "update", event |-> updated], ReplaceEvent(event.id, updated))

DeleteEvent(event) ==
    LET deleted == [event EXCEPT !.ver = edits + 1, !.deleted = TRUE]
    IN  Edit([type |-> "delete", event |-> deleted], RemoveEvent(event.id))

\* _executeCreate, _executeUpdate and _executeDelete after their await.
CallSent(op) ==
    /\ op \in calls
    /\ calls' = calls \ {op}
    /\ Serve(op)
    /\ events' = CASE op.type = "create" -> ApplyOrInsert(Created(op.event))
                   [] op.type = "update" -> ReplaceEvent(op.event.id, Updated(op.event))
                   [] op.type = "delete" -> RemoveEvent(op.event.id)
    /\ errorMessage' = FALSE
    /\ UNCHANGED <<pendingOperations, isOffline, isLoading, retryTimer, flushes,
                   edits, failures, queued, exposed, contended>>

\* A request that throws queues the edit; it is not shown.
CallFailed(op) ==
    /\ op \in calls
    /\ calls' = calls \ {op}
    /\ Throw(op)
    /\ EnqueueOperation(op)
    /\ isOffline' = TRUE
    /\ errorMessage' = TRUE
    /\ UNCHANGED <<events, isLoading, flushes, edits>>

---------------------------------------------------------------------------
\* The service starts with events of its own (one stands for them) and the
\* controller is constructed: _loadEvents finds the queue empty and fetches.
Seed == [id |-> <<"server", 0>>, origin |-> 0, ver |-> 0, deleted |-> FALSE]

Init ==
    /\ events = {}
    /\ pendingOperations = <<>>
    /\ isOffline = FALSE
    /\ isLoading = TRUE
    /\ errorMessage = FALSE
    /\ retryTimer = FALSE
    /\ \E f \in Flushes : flushes = [g \in Flushes |-> IF g = f THEN Fetching ELSE Idle]
    /\ calls = {}
    /\ remoteEvents = {Seed}
    /\ lastId = 0
    /\ edits = 0
    /\ failures = 0
    /\ sent = {0}
    /\ queued = {}
    /\ exposed = {}
    /\ contended = {}

Next ==
    \/ RetryTick
    \/ SyncPending
    \/ ToggleOfflineMode
    \/ Refresh
    \/ ClearError
    \/ AddEvent
    \/ \E f \in Flushes : FlushSent(f) \/ FlushFailed(f) \/ Fetched(f) \/ FetchFailed(f)
    \/ \E event \in events : UpdateEvent(event) \/ DeleteEvent(event)
    \/ \E op \in calls : CallSent(op) \/ CallFailed(op)

Spec == Init /\ [][Next]_vars

\* The event loop completes every request and fires the periodic timer; the
\* user need not do anything.
Fairness ==
    /\ WF_vars(RetryTick)
    /\ \A f \in Flushes :
        /\ WF_vars(FlushSent(f) \/ FlushFailed(f))
        /\ WF_vars(Fetched(f) \/ FetchFailed(f))
    /\ WF_vars(\E op \in calls : CallSent(op) \/ CallFailed(op))

FairSpec == Spec /\ Fairness

---------------------------------------------------------------------------
(* Properties *)

\* Every variable has its type; lists of suspended flushes are never empty.
TypeOK ==
    /\ events \subseteq CalendarEvent
    /\ pendingOperations \in Seq(PendingCalendarOperation)
    /\ isOffline \in BOOLEAN
    /\ isLoading \in BOOLEAN
    /\ errorMessage \in BOOLEAN
    /\ retryTimer \in BOOLEAN
    /\ flushes \in [Flushes -> Flush]
    /\ \A f \in Flushes : Suspended(f) => flushes[f].todo # <<>>
    /\ calls \subseteq PendingCalendarOperation
    /\ remoteEvents \subseteq CalendarEvent
    /\ lastId \in Nat
    /\ edits \in Nat
    /\ failures \in Nat
    /\ sent \subseteq Stamp
    /\ queued \subseteq Stamp
    /\ exposed \subseteq Stamp
    /\ contended \subseteq Stamp

\* The retry timer runs exactly while operations are queued, however flushes
\* overlap: no queued operation waits for a timer nobody will start, and no
\* timer outlives the queue.
RetryArmed == retryTimer <=> pendingOperations # <<>>

\* The write-back of a flush loses no operation that entered the queue while
\* no flush was suspended: it is still queued or was carried out.
NoQuietLoss == queued \subseteq (Stamps(pendingOperations) \cup sent \cup exposed)

\* A created event exists twice on the server only if two flushes held its
\* create at the same time, or an answer was lost.
CreatedTwiceOnlyIfContended ==
    \A r, s \in remoteEvents :
        (r.origin = s.origin /\ r # s /\ r.id[1] = "server" /\ s.id[1] = "server")
            => r.origin \in contended

\* What the screen shows of an event is what the server holds, or an edit the
\* server has not carried out - unless the server's version comes from an edit
\* whose answer was lost or that two flushes held (a delete keeps the version).
ScreenExplained ==
    \A e \in events :
        \/ e \in remoteEvents
        \/ e.ver \notin sent
        \/ \E r \in remoteEvents :
              /\ r.origin = e.origin
              /\ r.ver \in contended \/ (r.deleted /\ contended # {})

\* A remote event that was deleted stays deleted: neither a late update nor
\* a second create of a flush brings the same id back.
DeletedStaysDeleted ==
    [][\A r \in remoteEvents : r.deleted =>
          \E s \in remoteEvents' : s.id = r.id /\ s.deleted]_vars

\* Every edit that entered the queue while no flush was suspended is carried
\* out eventually.
QueuedIsDelivered ==
    \A n \in 1..MaxEdits : n \in queued \ exposed ~> n \in sent

---------------------------------------------------------------------------
(* What Docs/LifeMerge/03_Technical/Architecture/Offline_Sync_Design.md    *)
(* asks of the client and the code does not do.                            *)

\* Line 5, no data loss when the connection returns: every queued operation
\* is still queued or was carried out.
NoDataLoss == queued \subseteq (Stamps(pendingOperations) \cup sent)
===========================================================================
