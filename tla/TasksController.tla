-------------------------- MODULE TasksController --------------------------
(***************************************************************************)
(* The task list of the Flutter client: TasksController keeps the tasks on *)
(* the screen, TasksRepositoryImpl asks the server and rewrites the cache  *)
(* in the shared preferences, which is what the next start shows.          *)
(*                                                                         *)
(* A request has four moments: it is sent, the server acts, the repository *)
(* writes the cache (and awaits that write), the controller changes its    *)
(* state and writes the cache again.  Dart runs the code at one moment     *)
(* without interruption; between them anything else may run, and requests  *)
(* are served and answered in any order.  The user, who reads the screen,  *)
(* waits for nothing: no button is disabled while a request runs.          *)
(*                                                                         *)
(* A task is its id and its version, the stamp of the request it comes     *)
(* from.  Left out: the error message, which every step sets or clears,    *)
(* the order of the list, and the retry after a renewed access token,      *)
(* which is a delay here.  A fetch asks for one page and follows no        *)
(* cursor: on an account with more tasks the rest stays away.              *)
(*                                                                         *)
(* The server may carry out a request that writes or refuse it.  In this   *)
(* commit it refuses every creation and every removal (both handlers raise *)
(* before their commit, see TasksApi); here it may also do what they mean  *)
(* to.                                                                     *)
(***************************************************************************)
EXTENDS Naturals, Sequences, FiniteSets, SequencesExt

CONSTANTS
    Calls,       \* requests that may be in flight at the same time
    Seed,        \* the tasks the account has when the app is first started
    PageSize,    \* tasks a fetch asks for: 50
    MaxCalls,    \* bound on the requests
    MaxFaults    \* bound on failed requests, restarts and writes of others

ASSUME TasksAssumption ==
    /\ Calls # {}
    /\ Seed \in Nat
    /\ PageSize \in Nat \ {0}
    /\ MaxCalls \in Nat \ {0}   \* the constructor makes the first
    /\ MaxFaults \in Nat

VARIABLES
    items,       \* TasksState.items
    isLoading,   \* TasksState.isLoading
    cache,       \* the preference tasks_cache_v1
    calls,       \* the requests in flight
    remote,      \* the server's tasks
    begun,       \* number of requests so far; it stamps each
    faults,      \* number of faults so far
    crossed,     \* tasks on which requests crossed
    unsure       \* tasks the server changed without telling the client, and
                 \* tasks it left out of a page

screen == <<items, isLoading>>
screenVars == <<items, isLoading, cache, calls, remote, begun, faults, crossed, unsure>>

Task == [id : Nat, ver : Nat]
Ids(list) == {t.id : t \in list}
Idle == [op |-> "idle"]
AllTasks == 0
\* `before' is what the screen showed when the request was sent; `met' are
\* the tasks other requests were about while it ran, AllTasks for a fetch.
Call ==
    [op : {"fetch", "create", "update", "delete"},
     at : {"sent", "served", "answered"},
     id : Nat, ver : Nat, list : Seq(Task), before : Seq(Task), met : SUBSET Nat]

Running(c) == calls[c] # Idle
Is(c, op, at) == calls[c].op = op /\ calls[c].at = at
Edits(c) == Running(c) /\ calls[c].op # "fetch"
InFlight == {calls[c].id : c \in {d \in Calls : Edits(d)}}

---------------------------------------------------------------------------
(* Sending *)

Sent(op, id) ==
    [op |-> op, at |-> "sent", id |-> id, ver |-> begun + 1,
     list |-> <<>>, before |-> items, met |-> {}]

\* Request c starts: it and the ones in flight meet.
StartCall(c, call) ==
    /\ ~Running(c)
    /\ begun < MaxCalls
    /\ begun' = begun + 1
    /\ calls' = [d \in Calls |->
           CASE d = c      -> [call EXCEPT !.met = {calls[e].id : e \in {x \in Calls : Running(x)}}]
             [] Running(d) -> [calls[d] EXCEPT !.met = @ \cup {call.id}]
             [] OTHER      -> Idle]

Refresh(c) ==
    /\ StartCall(c, Sent("fetch", AllTasks))
    /\ isLoading' = TRUE
    /\ UNCHANGED <<items, cache, remote, faults, crossed, unsure>>

\* create: the id of the task is the server's to choose; `begun' stands for
\* its counter.
Create(c) ==
    /\ StartCall(c, Sent("create", Seed + begun + 1))
    /\ isLoading' = TRUE
    /\ UNCHANGED <<items, cache, remote, faults, crossed, unsure>>

SendUpdate(c) == \E id \in Ids(ToSet(items)) :
    /\ StartCall(c, Sent("update", id))
    /\ isLoading' = TRUE
    /\ UNCHANGED <<items, cache, remote, faults, crossed, unsure>>

\* `where', which keeps the order.
Without(list, id) ==
    LET kept[n \in 0 .. Len(list)] ==
            IF n = 0 THEN <<>>
            ELSE IF list[n].id = id THEN kept[n - 1] ELSE Append(kept[n - 1], list[n])
    IN  kept[Len(list)]

\* remove: the task leaves screen and cache before the server is asked.
Delete(c) == \E id \in Ids(ToSet(items)) :
    /\ StartCall(c, Sent("delete", id))
    /\ items' = Without(items, id)
    /\ cache' = items'
    /\ UNCHANGED <<isLoading, remote, faults, crossed, unsure>>

---------------------------------------------------------------------------
(* The server *)

Has(id) == id \in Ids(remote)
But(id) == {t \in remote : t.id # id}
Fresh(call) == [id |-> call.id, ver |-> call.ver]

\* One page of the account: all of it, or PageSize tasks, which ones depending
\* on their updated_at.
Pages ==
    {p \in SUBSET remote :
        Cardinality(p) = PageSize \/ (Cardinality(p) < PageSize /\ p = remote)}
LeftOut(list) == Ids(remote) \ Ids(ToSet(list))

\* get_tasks answers a page; patch_task does not find a task that is gone.
Serve(c) ==
    /\ Running(c) /\ calls[c].at = "sent"
    /\ calls[c].op \in {"update", "delete"} => Has(calls[c].id)
    /\ LET call == calls[c] IN
       /\ \E list \in IF call.op = "fetch" THEN {SetToSeq(p) : p \in Pages} ELSE {call.list} :
             /\ calls' = [calls EXCEPT ![c].at = "served", ![c].list = list]
             /\ unsure' = IF call.op = "fetch" THEN unsure \cup LeftOut(list) ELSE unsure
       /\ remote' = CASE call.op = "fetch"  -> remote
                      [] call.op = "delete" -> But(call.id)
                      [] OTHER              -> But(call.id) \cup {Fresh(call)}
    /\ UNCHANGED <<screen, cache, begun, faults, crossed>>

---------------------------------------------------------------------------
(* Answers *)

\* The request is over.
End(c) == calls' = [calls EXCEPT ![c] = Idle]

\* What ended request c leaves in doubt: its task, if something else was
\* about that task at the same time.
Crossed(c) == {calls[c].id : x \in {AllTasks, calls[c].id} \cap calls[c].met}

Replaced(list, call) ==
    [i \in DOMAIN list |-> IF list[i].id = call.id THEN Fresh(call) ELSE list[i]]

\* What a create or an update makes of a list.
Merged(list, call) ==
    IF call.op = "create" THEN <<Fresh(call)>> \o list ELSE Replaced(list, call)

\* Mutant of Base: the list of when the request was sent.
BaseThen(call) == call.before

\* The list a create or an update changes on the screen: the one of now.
Base(call) == items

\* The repository's part: the answer goes into the cache.
AnswerCall(c) ==
    /\ Running(c) /\ calls[c].at = "served" /\ calls[c].op # "delete"
    /\ cache' = IF calls[c].op = "fetch" THEN calls[c].list ELSE Merged(cache, calls[c])
    /\ calls' = [calls EXCEPT ![c].at = "answered"]
    /\ UNCHANGED <<screen, remote, begun, faults, crossed, unsure>>

\* ... and for a removal that is all.
Deleted(c) ==
    /\ Is(c, "delete", "served")
    /\ cache' = Without(cache, calls[c].id)
    /\ crossed' = crossed \cup Crossed(c)
    /\ End(c)
    /\ UNCHANGED <<screen, remote, begun, faults, unsure>>

\* The controller's part of a fetch.  It settles what was in doubt, unless
\* something else ran meanwhile: another request that writes screen and
\* cache between the two parts takes what was fetched out of the cache.
\* What its page left out stays unknown to the client.
Fetched(c) ==
    /\ Is(c, "fetch", "answered")
    /\ items' = calls[c].list
    /\ isLoading' = FALSE
    /\ crossed' = IF calls[c].met = {} THEN {} ELSE crossed \cup unsure
    /\ unsure' = IF calls[c].met = {} THEN LeftOut(calls[c].list) ELSE unsure
    /\ End(c)
    /\ UNCHANGED <<cache, remote, begun, faults>>

\* The controller's part of a create or an update.
Merge(c) ==
    /\ Running(c) /\ calls[c].at = "answered" /\ calls[c].op # "fetch"
    /\ items' = Merged(Base(calls[c]), calls[c])
    /\ isLoading' = FALSE
    /\ cache' = items'
    /\ crossed' = crossed \cup Crossed(c)
    /\ End(c)
    /\ UNCHANGED <<remote, begun, faults, unsure>>

---------------------------------------------------------------------------
(* Faults *)

Fault == faults < MaxFaults /\ faults' = faults + 1

\* Why a request may throw: the server refuses it and changes nothing (a
\* task that is gone, a version that is not the newest, an exception before
\* the commit), or the network fails before the server acts or after it.
Refused(c) == Edits(c) /\ calls[c].at = "sent" /\ UNCHANGED <<faults, unsure>>
Unsent(c) == calls[c].at = "sent" /\ Fault /\ UNCHANGED unsure
Unanswered(c) ==
    /\ calls[c].at = "served"
    /\ Fault
    /\ unsure' = IF Edits(c) THEN unsure \cup {calls[c].id} ELSE unsure
Throws(c) == Running(c) /\ (Refused(c) \/ Unsent(c) \/ Unanswered(c))

\* A fetch, create or update throws.
Fail(c) ==
    /\ Throws(c) /\ calls[c].op # "delete"
    /\ isLoading' = FALSE
    /\ crossed' = crossed \cup Crossed(c)
    /\ End(c)
    /\ UNCHANGED <<items, cache, remote, begun>>

\* Mutant of CacheRestored: only the screen gets its list back.
CacheLeft(call) == cache

CacheRestored(call) == call.before

\* A removal throws.  The list it brings back is old for every task that
\* was changed meanwhile.
Undelete(c) ==
    /\ Throws(c) /\ calls[c].op = "delete"
    /\ items' = calls[c].before
    /\ cache' = CacheRestored(calls[c])
    /\ crossed' = crossed \cup Crossed(c) \cup
           (IF AllTasks \in calls[c].met THEN 1..(Seed + begun) ELSE calls[c].met)
    /\ End(c)
    /\ UNCHANGED <<isLoading, remote, begun>>

\* The app is closed and started again: the controller shows the cache and
\* fetches.
Restart == \E c \in Calls :
    /\ Fault
    /\ begun < MaxCalls
    /\ begun' = begun + 1
    /\ items' = cache
    /\ isLoading' = TRUE
    /\ unsure' = unsure \cup InFlight
    /\ calls' = [d \in Calls |->
           IF d = c THEN [Sent("fetch", AllTasks) EXCEPT !.before = cache] ELSE Idle]
    /\ crossed' = crossed \cup UNION {Crossed(d) : d \in {e \in Calls : Edits(e)}}
    /\ UNCHANGED <<cache, remote>>

\* Another device of the user, or a request of before a restart that
\* arrives late, writes a task.
OthersChange == \E t \in remote :
    /\ Fault
    /\ begun < MaxCalls
    /\ begun' = begun + 1
    /\ \E left \in {{}, {[t EXCEPT !.ver = begun + 1]}} : remote' = But(t.id) \cup left
    /\ unsure' = unsure \cup {t.id}
    /\ calls' = [d \in Calls |->
           IF Running(d) THEN [calls[d] EXCEPT !.met = @ \cup {t.id}] ELSE Idle]
    /\ UNCHANGED <<screen, cache, crossed>>

---------------------------------------------------------------------------
(* The specification *)

Seeds == {[id |-> i, ver |-> 0] : i \in 1..Seed}

\* The first start: nothing is cached, and the constructor fetches.
ScreenInit ==
    /\ items = <<>> /\ cache = <<>>
    /\ isLoading = TRUE
    /\ remote = Seeds
    /\ begun = 1
    /\ faults = 0
    /\ crossed = {}
    /\ unsure = Ids(Seeds)
    /\ \E c \in Calls : calls = [d \in Calls |->
           IF d = c THEN [op |-> "fetch", at |-> "sent", id |-> AllTasks, ver |-> 1,
                          list |-> <<>>, before |-> <<>>, met |-> {}]
           ELSE Idle]

Start(c) == Refresh(c) \/ Create(c) \/ SendUpdate(c) \/ Delete(c)
Continue(c) ==
    \/ Serve(c) \/ AnswerCall(c) \/ Deleted(c) \/ Fetched(c) \/ Merge(c)
    \/ Fail(c) \/ Undelete(c)

ScreenNext ==
    \/ \E c \in Calls : Start(c) \/ Continue(c)
    \/ Restart
    \/ OthersChange

ScreenSpec == ScreenInit /\ [][ScreenNext]_screenVars

---------------------------------------------------------------------------
(* Properties *)

\* Every variable has its type: in particular a fetch is about all tasks
\* and every other request about one.
ScreenTypeOK ==
    /\ items \in Seq(Task) /\ cache \in Seq(Task)
    /\ isLoading \in BOOLEAN
    /\ calls \in [Calls -> Call \cup {Idle}]
    /\ \A c \in Calls : Running(c) => (calls[c].op = "fetch" <=> calls[c].id = AllTasks)
    /\ remote \subseteq Task
    /\ begun \in 0..MaxCalls /\ faults \in 0..MaxFaults
    /\ crossed \subseteq Nat /\ unsure \subseteq Nat

Versions(list, id) == {t.ver : t \in {u \in ToSet(list) : u.id = id}}
Once(list, id) == \A i, j \in DOMAIN list : list[i].id = id /\ list[j].id = id => i = j
Known == 1..(Seed + begun)

\* The screen shows a task as the server has it, once, and shows none the
\* server does not have.  Excepted are tasks with a request in flight, tasks
\* about which requests crossed and nothing was fetched since, writes the
\* client was not told of, and tasks a fetch left out: one asks for a page of
\* 50 and no more (tasks_repository_impl.dart:20), so that of a longer list
\* only the tasks of the page are claimed to be on the screen, until a fetch
\* lists the others.  (create, update and remove change the list of now,
\* tasks_controller.dart:38, 52 and 64; only a failed remove brings an old
\* one back, :71.)
ScreenIsServer == \A id \in Known \ (InFlight \cup crossed \cup unsure) :
    /\ Once(items, id)
    /\ Versions(items, id) = {t.ver : t \in {u \in remote : u.id = id}}

\* What the next start would show is what the screen shows, however often
\* requests failed: the cache that each moment rewrites agrees with the
\* screen on every task without a request in flight, unless requests about
\* that task crossed or a fetch is between its two parts.
CacheIsScreen == \A id \in Known \ (InFlight \cup crossed) :
    \/ Versions(items, id) = Versions(cache, id) /\ Once(cache, id)
    \/ \E c \in Calls : Is(c, "fetch", "answered")
=============================================================================
