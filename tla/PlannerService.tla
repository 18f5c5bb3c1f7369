--------------------------- MODULE PlannerService ---------------------------
(***************************************************************************)
(* The planner of the API server: PlannerOrchestrator over PlannerService. *)
(* A run asks the AI service for a plan and keeps it in the memory of the  *)
(* process, a replan replaces it by a new one, a decision declines it or   *)
(* writes its slots into the tasks table and commits.                      *)
(*                                                                         *)
(* Requests interleave at every await: at the claim of the idempotency key *)
(* (an INSERT that waits for a request in flight with the same key), at    *)
(* the call of the AI service, at each statement of a decision and at its  *)
(* commit.  Between awaits a handler is one step.  The database is         *)
(* PostgreSQL at READ COMMITTED.                                           *)
(*                                                                         *)
(* A plan object is named by the request that made it, a plan_request_id   *)
(* by its run.  A plan has a list of slots, each for a task (or None: the  *)
(* AI proposed it for no task), and may have several for one task; a       *)
(* slot_id is the object and the position in its list, so that every slot  *)
(* and every version has its own.  Edits of slots, which change times only *)
(* and keep positions, are in PlannerScheduling.                           *)
(***************************************************************************)
EXTENDS Naturals, Sequences, FiniteSets

CONSTANTS
    Runs, Replans, Decisions,   \* requests, each carried out at most once
    KeyChoices,    \* what keys (request_id or X-Idempotency-Key) requests may have
    Task,          \* rows of tasks
    Answers,       \* slots the AI service may answer each run or replan with
    Choices,       \* bound: sets of positions whose slots a client may pick
    Generated,     \* slots of the own generator
    MaxFaults,     \* bound on restarts, commits that fail and tasks deleted
    None

Makers == Runs \cup Replans
Requests == Makers \cup Decisions

ASSUME PlannerServiceAssumption ==
    /\ Runs \cap Replans = {} /\ Makers \cap Decisions = {}
    /\ \A k \in KeyChoices : DOMAIN k = Requests
    /\ None \notin Task \cup Requests
    /\ Answers \in [Makers -> SUBSET Seq(Task \cup {None})]
    /\ Choices \subseteq SUBSET (Nat \ {0})
    /\ Generated \in Seq(Task)
    /\ MaxFaults \in Nat

VARIABLES
    keyOf,         \* the key of each request; it never changes
    store,         \* _GENERATED_PLANS: plan_request_id -> plan object
    plans,         \* the plan objects
    live,          \* tasks that are not deleted, as committed
    keys,          \* idempotency keys of decisions, as committed
    pc,            \* how far a request is
    local,         \* its local variables
    faults,        \* restarts, failed commits and deleted tasks so far
    (* history *)
    applied,       \* <<decision, position>>: updates that were committed
    settled,       \* plan object -> decision that set its status last
    logged,        \* plan_request_id -> entries ever appended to its history
    installed,     \* plan_request_id -> objects that were stored under it
    raced,         \* objects two decisions worked on at the same time
    overlapped     \* plans two replans, or a decision and the end of a replan,
                   \* worked on at the same time

history == <<applied, settled, logged, installed, raced, overlapped>>
vars == <<keyOf, store, plans, live, keys, pc, local, faults, history>>

---------------------------------------------------------------------------
NoPlan == [status |-> "none", version |-> 0, slots |-> <<>>, history |-> 0]

\* The slot_ids of a plan object.
Slots(o) == {o} \X DOMAIN plans[o].slots

Blank == [plan |-> None, base |-> None, seen |-> None, verdict |-> "accept",
          accepted |-> {}, rest |-> {}, wrote |-> {}, skipped |-> {}]

\* Mutant of Claimed: the session of a failed request is not closed.
ClaimedStill(r) == pc[r] \in {"ai", "read", "write", "commit", "failed"}

Claimed(r) == pc[r] \in {"ai", "read", "write", "commit"}
Live(r) == pc[r] = "claim" \/ Claimed(r)

\* Keys are unique per method and path, and the path names the plan.
SameKey(r, u) ==
    /\ keyOf[r] = keyOf[u]
    /\ \/ r \in Runs /\ u \in Runs
       \/ r \in Replans /\ u \in Replans /\ local[r].plan = local[u].plan
       \/ r \in Decisions /\ u \in Decisions /\ local[r].plan = local[u].plan

\* Mutant of EnforceIdempotency: the key is looked up and not inserted.
EnforceByLookup(r) == \A u \in keys : ~ SameKey(r, u)

\* The INSERT of the key: it waits for a request in flight that has inserted
\* the same one and fails if that was committed.
EnforceIdempotency(r) ==
    /\ \A u \in Requests \ {r} : Claimed(u) => ~ SameKey(r, u)
    /\ \A u \in keys : ~ SameKey(r, u)

\* The end of a request that leaves nothing in the database.
Leave(r) ==
    /\ pc' = [pc EXCEPT ![r] = "done"]
    /\ local' = [local EXCEPT ![r] = Blank]

\* 409: the key was committed before.
Duplicate(r) ==
    /\ pc[r] = "claim"
    /\ \E u \in keys : SameKey(r, u)
    /\ Leave(r)
    /\ UNCHANGED <<keyOf, store, plans, live, keys, faults, history>>

---------------------------------------------------------------------------
(* Runs and replans *)

\* ensure_access turns a subscription_status of "free" away before anything else.
TurnAway(r) ==
    /\ pc[r] = "idle"
    /\ pc' = [pc EXCEPT ![r] = "done"]
    /\ UNCHANGED <<keyOf, store, plans, live, keys, local, faults, history>>

BeginRun(r) ==
    /\ pc[r] = "idle"
    /\ pc' = [pc EXCEPT ![r] = "claim"]
    /\ local' = [local EXCEPT ![r].plan = r]
    /\ UNCHANGED <<keyOf, store, plans, live, keys, faults, history>>

Replanning(p) == {u \in Replans : Live(u) /\ local[u].plan = p}

BeginReplan(r) ==
    /\ pc[r] = "idle"
    /\ \E p \in Runs :
          /\ plans[p].status # "none"
          /\ IF store[p] = None
             THEN /\ pc' = [pc EXCEPT ![r] = "done"]
                  /\ UNCHANGED <<local, overlapped>>
             ELSE /\ pc' = [pc EXCEPT ![r] = "claim"]
                  /\ local' = [local EXCEPT ![r].plan = p, ![r].seen = store[p]]
                  /\ overlapped' = IF Replanning(p) = {} THEN overlapped
                                   ELSE overlapped \cup {p}
    /\ UNCHANGED <<keyOf, store, plans, live, keys, faults, applied, settled, logged,
                   installed, raced>>

\* The key is claimed; enqueue_planner_run takes the plan that is to be
\* replaced and calls the AI service.
Enqueue(r) ==
    /\ pc[r] = "claim"
    /\ EnforceIdempotency(r)
    /\ pc' = [pc EXCEPT ![r] = "ai"]
    /\ local' = [local EXCEPT ![r].base = store[local[r].plan]]
    /\ UNCHANGED <<keyOf, store, plans, live, keys, faults, history>>

\* What the AI service is heard to say: the slots of the plan, or None for a
\* call that failed or timed out and for an answer without the plan.
RequestAiPlan(r) == Answers[r] \cup {None}

\* What becomes of it: without a plan, or without slots in it, the own
\* generator is used.
SlotsOf(answer) == IF answer \in {None, <<>>} THEN Generated ELSE answer

PreviousVersion(r) == IF local[r].seen = None THEN 0 ELSE plans[local[r].seen].version

\* Mutant of CopiedHistory: only the plan that was read first counts.
CopiedFromSeen(r) == IF local[r].seen = None THEN 0 ELSE 1

\* The history of the plan that is replaced, as it is when the AI has answered.
CopiedHistory(r) == IF local[r].base = None THEN 0 ELSE plans[local[r].base].history

\* The AI service has answered, or not; the new plan, to which the service of this
\* repository gives the next version and the status ready, as the own generator
\* does (the code would take any other from its answer), is stored, the answer
\* sent, and the key rolled back with the session, which is never committed.
Install(r) ==
    /\ pc[r] = "ai"
    /\ \E answer \in RequestAiPlan(r) :
          plans' = [plans EXCEPT ![r] =
                      [status |-> "ready", version |-> PreviousVersion(r) + 1,
                       slots |-> SlotsOf(answer), history |-> CopiedHistory(r) + 1]]
    /\ LET p == local[r].plan
       IN  /\ store' = [store EXCEPT ![p] = r]
           /\ logged' = [logged EXCEPT ![p] = @ + 1]
           /\ installed' = [installed EXCEPT ![p] = @ \cup {r}]
           /\ overlapped' = IF \E d \in Decisions : /\ pc[d] \in {"read", "write"}
                                                    /\ local[d].base = store[p]
                            THEN overlapped \cup {p} ELSE overlapped
    /\ Leave(r)
    /\ UNCHANGED <<keyOf, live, keys, faults, applied, settled, raced>>

---------------------------------------------------------------------------
(* Decisions *)

\* What a client may pick from a version of a plan.
Selections(o) == {{s \in Slots(o) : s[2] \in c} : c \in Choices}

\* The client decides about a plan: it declines it, or accepts all slots (no
\* accepted_slot_ids), or some slots of any version it has been shown.
BeginDecision(d) ==
    /\ pc[d] = "idle"
    /\ \E p \in Runs, verdict \in {"accept", "decline"} :
          /\ plans[p].status # "none"
          /\ \E slots \in {{}} \cup UNION {Selections(o) : o \in installed[p]} :
                /\ verdict = "decline" => slots = {}
                /\ local' = [local EXCEPT ![d].plan = p, ![d].verdict = verdict,
                                          ![d].accepted = slots]
    /\ pc' = [pc EXCEPT ![d] = "claim"]
    /\ UNCHANGED <<keyOf, store, plans, live, keys, faults, history>>

Terminal(o) == plans[o].status \in {"accepted", "declined"}

ToAccept(d, o) == IF local[d].accepted = {} THEN Slots(o) ELSE local[d].accepted

\* The slots of the plan that the loop will go through, by their positions.
AcceptedPositions(d, o) ==
    {i \in DOMAIN plans[o].slots : <<o, i>> \in ToAccept(d, o)}

\* The new status of the plan and the entry in its history.
Settle(d, o, status) ==
    /\ plans' = [plans EXCEPT ![o].status = status, ![o].history = @ + 1]
    /\ settled' = [settled EXCEPT ![o] = d]
    /\ logged' = [logged EXCEPT ![local[d].plan] = @ + 1]

\* Mutant of AcceptedStatus: any accepted slot makes the plan accepted.
AcceptedAny(d, o) == "accepted"

AcceptedStatus(d, o) ==
    IF Cardinality(ToAccept(d, o)) = Len(plans[o].slots) THEN "accepted"
    ELSE "partially_accepted"

\* On to the next accepted slot, or, without a further await, to the status.
Advance(d, o, rest) ==
    IF rest = {}
    THEN Settle(d, o, AcceptedStatus(d, o)) /\ pc' = [pc EXCEPT ![d] = "commit"]
    ELSE pc' = [pc EXCEPT ![d] = "read"] /\ UNCHANGED <<plans, settled, logged>>

PlanNotFound(d) ==
    /\ pc[d] = "claim"
    /\ EnforceIdempotency(d)
    /\ store[local[d].plan] = None
    /\ Leave(d)
    /\ UNCHANGED <<keyOf, store, plans, live, keys, faults, history>>

\* A plan that was accepted or declined answers with what was decided.
AlreadyDecided(d) ==
    /\ pc[d] = "claim"
    /\ EnforceIdempotency(d)
    /\ store[local[d].plan] # None
    /\ Terminal(store[local[d].plan])
    /\ pc' = [pc EXCEPT ![d] = "commit"]
    /\ UNCHANGED <<keyOf, store, plans, live, keys, local, faults, history>>

\* Mutant of Undecided: a plan that was declined can be decided again.
UndecidedOrDeclined(o) == plans[o].status # "accepted"

Undecided(o) == ~ Terminal(o)

\* apply_plan_decision as far as its first await.
Decide(d) ==
    /\ pc[d] = "claim"
    /\ EnforceIdempotency(d)
    /\ LET o == store[local[d].plan]
       IN  /\ o # None
           /\ Undecided(o)
           /\ local' = [local EXCEPT ![d].base = o, ![d].rest = AcceptedPositions(d, o)]
           /\ raced' = IF \E u \in Decisions : /\ pc[u] \in {"read", "write"}
                                               /\ local[u].base = o
                       THEN raced \cup {o} ELSE raced
           /\ IF local[d].verdict = "decline"
              THEN Settle(d, o, "declined") /\ pc' = [pc EXCEPT ![d] = "commit"]
              ELSE Advance(d, o, AcceptedPositions(d, o))
    /\ UNCHANGED <<keyOf, store, live, keys, faults, applied, installed, overlapped>>

\* Position i of the plan is the one its loop has come to, and t its task.
At(d, i, t) ==
    /\ i \in local[d].rest
    /\ \A j \in local[d].rest : i <= j
    /\ t = plans[local[d].base].slots[i]

\* get_task: a slot whose task is gone is passed over.
GetTask(d) ==
    /\ pc[d] = "read"
    /\ \E i \in local[d].rest, t \in Task :
          /\ At(d, i, t)
          /\ IF t \in live
             THEN /\ pc' = [pc EXCEPT ![d] = "write"]
                  /\ UNCHANGED <<plans, settled, logged, local>>
             ELSE /\ local' = [local EXCEPT ![d].rest = @ \ {i}, ![d].skipped = @ \cup {i}]
                  /\ Advance(d, local[d].base, local[d].rest \ {i})
    /\ UNCHANGED <<keyOf, store, live, keys, faults, applied, installed, raced, overlapped>>

\* A slot without a task: create_task fails, SQLTaskRepository.save calls a
\* function that does not exist.  The answer is 500, the session rolled back.
CreateTask(d) ==
    /\ pc[d] = "read"
    /\ \E i \in local[d].rest : At(d, i, None)
    /\ Leave(d)
    /\ UNCHANGED <<keyOf, store, plans, live, keys, faults, history>>

\* The rows of tasks that d has updated and not yet committed.
Locked(d) == {plans[local[d].base].slots[i] : i \in local[d].wrote}

WaitsFor(d, u) ==
    /\ d # u /\ pc[d] = "write"
    /\ pc[u] \in {"read", "write", "commit"}
    /\ \E i \in local[d].rest, t \in Locked(u) : At(d, i, t)

\* update_task: the UPDATE of the row, whatever has become of it.
UpdateTask(d) ==
    /\ pc[d] = "write"
    /\ \A u \in Decisions : ~ WaitsFor(d, u)
    /\ \E i \in local[d].rest, t \in Task :
          /\ At(d, i, t)
          /\ local' = [local EXCEPT ![d].rest = @ \ {i}, ![d].wrote = @ \cup {i}]
          /\ Advance(d, local[d].base, local[d].rest \ {i})
    /\ UNCHANGED <<keyOf, store, live, keys, faults, applied, installed, raced, overlapped>>

Commit(d) ==
    /\ pc[d] = "commit"
    /\ keys' = keys \cup {d}
    /\ applied' = applied \cup ({d} \X local[d].wrote)
    /\ pc' = [pc EXCEPT ![d] = "committed"]
    /\ UNCHANGED <<keyOf, store, plans, live, local, faults, settled, logged, installed,
                   raced, overlapped>>

---------------------------------------------------------------------------
(* Faults and the other users of the tables *)

Fault == faults < MaxFaults /\ faults' = faults + 1

\* db.commit() throws; what is in memory stays as it is.
CommitFails(d) ==
    /\ pc[d] = "commit"
    /\ Fault
    /\ pc' = [pc EXCEPT ![d] = "failed"]
    /\ UNCHANGED <<keyOf, store, plans, live, keys, local, history>>

\* PostgreSQL aborts one of two decisions that wait for each other.
DeadlockAborts(d) ==
    /\ \E u \in Decisions : WaitsFor(d, u) /\ WaitsFor(u, d)
    /\ pc' = [pc EXCEPT ![d] = "failed"]
    /\ UNCHANGED <<keyOf, store, plans, live, keys, local, faults, history>>

\* The server restarts: plans and requests are gone.
Restart ==
    /\ Fault
    /\ store' = [p \in Runs |-> None]
    /\ pc' = [r \in Requests |-> IF Live(r) THEN "failed" ELSE pc[r]]
    /\ UNCHANGED <<keyOf, plans, live, keys, local, history>>

\* Batch sync marks a task deleted.
DeleteTask(t) ==
    /\ t \in live
    /\ Fault
    /\ \A d \in Decisions : pc[d] \in {"read", "write", "commit"} => t \notin Locked(d)
    /\ live' = live \ {t}
    /\ UNCHANGED <<keyOf, store, plans, keys, pc, local, history>>

Init ==
    /\ keyOf \in KeyChoices
    /\ store = [p \in Runs |-> None]
    /\ plans = [o \in Makers |-> NoPlan]
    /\ live = Task
    /\ keys = {}
    /\ pc = [r \in Requests |-> "idle"]
    /\ local = [r \in Requests |-> Blank]
    /\ faults = 0
    /\ applied = {}
    /\ settled = [o \in Makers |-> None]
    /\ logged = [p \in Runs |-> 0]
    /\ installed = [p \in Runs |-> {}]
    /\ raced = {} /\ overlapped = {}

Step(r) ==
    \/ r \in Makers /\ (Duplicate(r) \/ Enqueue(r) \/ Install(r))
    \/ /\ r \in Decisions
       /\ \/ Duplicate(r) \/ PlanNotFound(r) \/ AlreadyDecided(r) \/ Decide(r)
          \/ GetTask(r) \/ CreateTask(r) \/ UpdateTask(r) \/ Commit(r)

Next ==
    \/ \E r \in Makers : TurnAway(r)
    \/ \E r \in Runs : BeginRun(r)
    \/ \E r \in Replans : BeginReplan(r)
    \/ \E d \in Decisions : BeginDecision(d) \/ CommitFails(d) \/ DeadlockAborts(d)
    \/ \E r \in Requests : Step(r)
    \/ Restart
    \/ \E t \in Task : DeleteTask(t)

Spec == Init /\ [][Next]_vars

\* Requests that were begun go on (the call of the AI service has a timeout),
\* and the database resolves deadlocks.
Fairness ==
    /\ \A r \in Requests : WF_vars(Step(r))
    /\ \A d \in Decisions : WF_vars(DeadlockAborts(d))

FairSpec == Spec /\ Fairness

---------------------------------------------------------------------------
(* Properties *)

Plan == [status : {"none", "ready", "accepted", "partially_accepted", "declined"},
         version : Nat, slots : Seq(Task \cup {None}), history : Nat]

Local == [plan : Runs \cup {None}, base : Makers \cup {None}, seen : Makers \cup {None},
          verdict : {"accept", "decline"},
          accepted : SUBSET (Makers \X (Nat \ {0})),
          rest : SUBSET (Nat \ {0}), wrote : SUBSET (Nat \ {0}),
          skipped : SUBSET (Nat \ {0})]

\* Every variable has its type; a request that has begun has its plan, a run or
\* replan never commits, and a decision in its loop goes through positions of
\* the plan object it has found.
TypeOK ==
    /\ keyOf \in KeyChoices
    /\ store \in [Runs -> Makers \cup {None}]
    /\ plans \in [Makers -> Plan]
    /\ live \subseteq Task
    /\ keys \subseteq Decisions
    /\ pc \in [Requests -> {"idle", "claim", "ai", "read", "write", "commit",
                            "committed", "done", "failed"}]
    /\ local \in [Requests -> Local]
    /\ faults \in 0 .. MaxFaults
    /\ applied \subseteq Decisions \X (Nat \ {0})
    /\ settled \in [Makers -> Decisions \cup {None}]
    /\ logged \in [Runs -> Nat]
    /\ installed \in [Runs -> SUBSET Makers]
    /\ raced \subseteq Makers /\ overlapped \subseteq Runs
    /\ \A r \in Requests : Live(r) => local[r].plan \in Runs
    /\ \A r \in Makers : pc[r] \notin {"read", "write", "commit", "committed"}
    /\ \A d \in Decisions :
          /\ pc[d] # "ai"
          /\ pc[d] \in {"read", "write"} =>
                /\ local[d].base \in Makers
                /\ local[d].rest # {}
                /\ local[d].rest \subseteq DOMAIN plans[local[d].base].slots

\* A plan that was accepted or declined stays so - unless another decision
\* was writing its slots when one of them was let in.
TerminalStays ==
    [][\A o \in Makers \ raced' : Terminal(o) => plans'[o].status = plans[o].status]_vars

\* An accepted plan is in the tasks: every slot of it was written by the
\* decision that made it accepted, or its task was gone - unless that commit
\* is still to come or failed, or the client accepted slots of another version
\* (they are counted, not compared).
AcceptedIsApplied ==
    \A o \in Makers : plans[o].status = "accepted" =>
        LET d == settled[o]
        IN  \/ pc[d] \in {"commit", "failed"}
            \/ ~ (local[d].accepted \subseteq Slots(o))
            \/ \A i \in DOMAIN plans[o].slots :
                  <<d, i>> \in applied \/ i \in local[d].skipped

\* A decision is carried out once: of two with one key for one plan only one
\* is committed.
DecidedOncePerKey ==
    \A d, e \in Decisions :
        d # e /\ pc[d] = "committed" /\ pc[e] = "committed" => ~ SameKey(d, e)

\* The history of a stored plan has an entry for every version and decision,
\* those made while the AI was asked included, and the versions differ - unless
\* replans overlapped or one replaced a plan that a decision was still writing.
HistoryIsComplete ==
    \A p \in Runs \ overlapped :
        /\ store[p] # None => plans[store[p]].history = logged[p]
        /\ \A o, q \in installed[p] : o # q => plans[o].version # plans[q].version

\* Every request that was begun ends.
RequestsEnd == <>[](\A r \in Requests : ~ Live(r))
============================================================================
