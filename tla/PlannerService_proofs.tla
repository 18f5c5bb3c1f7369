----------------------- MODULE PlannerService_proofs -----------------------
(***************************************************************************)
(* What TLAPS proves about PlannerService, for any number of requests,     *)
(* tasks, keys and faults, and any answers of the AI service.              *)
(***************************************************************************)
EXTENDS PlannerService, FiniteSetTheorems, TLAPS

\* A plan object that has been stored.
Made(o) == pc[o] = "done" /\ plans[o].status # "none"

\* The object of a run or replan that has not been stored is empty.
Unmade == \A r \in Makers : pc[r] \in {"idle", "claim", "ai"} => plans[r] = NoPlan

\* Whatever is referred to has been stored.
RefersToMade ==
    /\ \A p \in Runs : store[p] # None => store[p] \in installed[p]
    /\ \A p \in Runs : \A o \in installed[p] : Made(o)
    /\ \A d \in Decisions : pc[d] \in {"read", "write"} => Made(local[d].base)

TInv == TypeOK /\ Unmade /\ RefersToMade

---------------------------------------------------------------------------
(* What the parts of the actions do *)

LEMMA BlankIsLocal == Blank \in Local
  BY DEF Blank, Local

\* The new local variables of one request.
LEMMA LocalStep ==
    ASSUME TypeOK, NEW r \in Requests, NEW v \in Local, local' = [local EXCEPT ![r] = v]
    PROVE  /\ local' \in [Requests -> Local]
           /\ local'[r] = v
           /\ \A u \in Requests \ {r} : local'[u] = local[u]
  BY DEF TypeOK

\* A step of one request keeps the type invariant.
LEMMA TypeMove ==
    ASSUME TInv, NEW r \in Requests, NEW v \in Local,
           NEW to \in {"claim", "ai", "read", "write", "commit", "committed", "done", "failed"},
           local' = [local EXCEPT ![r] = v],
           pc' = [pc EXCEPT ![r] = to],
           to \in {"claim", "ai", "read", "write", "commit"} => v.plan \in Runs,
           r \in Makers => /\ to \notin {"read", "write", "commit", "committed"}
                           /\ pc[r] # "done"
                           /\ to \in {"claim", "ai"} => pc[r] \in {"idle", "claim"},
           r \in Decisions => to # "ai",
           to \in {"read", "write"} =>
                /\ v.base \in Makers
                /\ v.rest # {}
                /\ v.rest \subseteq DOMAIN plans[v.base].slots
                /\ Made(v.base),
           keyOf' = keyOf, store' = store, live' = live, installed' = installed,
           keys' \subseteq Decisions, faults' \in 0 .. MaxFaults,
           applied' \subseteq Decisions \X (Nat \ {0}), raced' \subseteq Makers,
           overlapped' \subseteq Runs,
           plans' \in [Makers -> Plan],
           settled' \in [Makers -> Decisions \cup {None}],
           logged' \in [Runs -> Nat],
           \A o \in Makers : IF Made(o) THEN /\ plans'[o].slots = plans[o].slots
                                             /\ plans'[o].status # "none"
                                        ELSE plans'[o] = plans[o]
    PROVE  TInv'
<1>1. /\ local' \in [Requests -> Local]
      /\ local'[r] = v
      /\ \A u \in Requests \ {r} : local'[u] = local[u]
  BY LocalStep DEF TInv
<1>2. /\ pc' \in [Requests -> {"idle", "claim", "ai", "read", "write", "commit",
                               "committed", "done", "failed"}]
      /\ pc'[r] = to
      /\ \A u \in Requests \ {r} : pc'[u] = pc[u]
  BY DEF TInv, TypeOK
<1>3. r \in Decisions => r \notin Makers
  BY PlannerServiceAssumption
<1>4. \A o \in Makers : Made(o) => pc'[o] = "done" /\ plans'[o].status # "none"
  BY <1>2, <1>3 DEF Made, Requests
<1>5. Makers \subseteq Requests /\ Decisions \subseteq Requests
  BY DEF Requests
<1>6. \A u \in Requests : Live(u)' => local'[u].plan \in Runs
  BY <1>1, <1>2 DEF TInv, TypeOK, Live, Claimed
<1>7. \A u \in Makers : pc'[u] \notin {"read", "write", "commit", "committed"}
  BY <1>2, <1>5 DEF TInv, TypeOK
<1>8. ASSUME NEW d \in Decisions
      PROVE  /\ pc'[d] # "ai"
             /\ pc'[d] \in {"read", "write"} =>
                  /\ local'[d].base \in Makers
                  /\ local'[d].rest # {}
                  /\ local'[d].rest \subseteq DOMAIN plans'[local'[d].base].slots
                  /\ pc'[local'[d].base] = "done"
                  /\ plans'[local'[d].base].status # "none"
  <2>1. CASE d = r
    BY <2>1, <1>1, <1>2, <1>4 
  <2>2. CASE d # r
    <3>1. pc'[d] = pc[d] /\ local'[d] = local[d]
      BY <2>2, <1>1, <1>2, <1>5
    <3>2. pc[d] # "ai"
      BY DEF TInv, TypeOK
    <3>3. ASSUME pc[d] \in {"read", "write"}
          PROVE  /\ local[d].base \in Makers
                 /\ local[d].rest # {}
                 /\ local[d].rest \subseteq DOMAIN plans[local[d].base].slots
                 /\ Made(local[d].base)
      BY <3>3 DEF TInv, TypeOK, RefersToMade
    <3> QED
      BY <3>1, <3>2, <3>3, <1>4
  <2> QED
    BY <2>1, <2>2
<1>9. TypeOK'
  BY <1>1, <1>2, <1>6, <1>7, <1>8 DEF TInv, TypeOK
<1>10. Unmade'
  BY <1>2, <1>3, <1>5 DEF TInv, Unmade, Made
<1>11. RefersToMade'
  BY <1>4, <1>8 DEF TInv, RefersToMade, TypeOK, Made
<1> QED
  BY <1>9, <1>10, <1>11 DEF TInv

\* Settling a plan changes its status and adds to its history.
LEMMA SettleFacts ==
    ASSUME TypeOK, NEW d \in Decisions, NEW o \in Makers, local[d].plan \in Runs,
           NEW status \in {"accepted", "partially_accepted", "declined"},
           Settle(d, o, status)
    PROVE  /\ plans' \in [Makers -> Plan]
           /\ settled' \in [Makers -> Decisions \cup {None}]
           /\ logged' \in [Runs -> Nat]
           /\ \A q \in Makers : plans'[q].slots = plans[q].slots
           /\ \A q \in Makers : plans'[q].version = plans[q].version
           /\ \A q \in Makers \ {o} : plans'[q] = plans[q] /\ settled'[q] = settled[q]
           /\ \A p \in Runs \ {local[d].plan} : logged'[p] = logged[p]
           /\ plans'[o].status = status
           /\ plans'[o].history = plans[o].history + 1
           /\ settled'[o] = d
           /\ logged'[local[d].plan] = logged[local[d].plan] + 1
<1>1. /\ plans' = [plans EXCEPT ![o].status = status, ![o].history = @ + 1]
      /\ settled' = [settled EXCEPT ![o] = d]
      /\ logged' = [logged EXCEPT ![local[d].plan] = @ + 1]
  BY DEF Settle
<1>2. plans \in [Makers -> Plan] /\ logged \in [Runs -> Nat]
      /\ settled \in [Makers -> Decisions \cup {None}]
  BY DEF TypeOK
<1> DEFINE h == plans[o].history + 1
           new == [plans[o] EXCEPT !.status = status, !.history = h]
<1>3. /\ new \in Plan /\ new.status = status /\ new.history = h
      /\ new.slots = plans[o].slots /\ new.version = plans[o].version
  <2>1. plans[o] \in Plan
    BY <1>2
  <2>2. h \in Nat
    BY <2>1 DEF Plan
  <2> HIDE DEF h
  <2> QED
    BY <2>1, <2>2 DEF Plan
<1>a. plans' = [plans EXCEPT ![o] = new]
  BY <1>1
<1> HIDE DEF new
<1>4. /\ plans'[o].status = status
      /\ plans'[o].history = plans[o].history + 1
      /\ plans'[o].slots = plans[o].slots
      /\ plans'[o].version = plans[o].version
      /\ plans'[o] \in Plan
      /\ \A q \in Makers \ {o} : plans'[q] = plans[q]
      /\ plans' \in [Makers -> Plan]
  BY <1>2, <1>3, <1>a
<1>5. /\ logged' \in [Runs -> Nat]
      /\ \A p \in Runs \ {local[d].plan} : logged'[p] = logged[p]
      /\ logged'[local[d].plan] = logged[local[d].plan] + 1
  BY <1>1, <1>2
<1>6. /\ settled' \in [Makers -> Decisions \cup {None}]
      /\ settled'[o] = d
      /\ \A q \in Makers \ {o} : settled'[q] = settled[q]
  BY <1>1, <1>2
<1>7. \A q \in Makers : plans'[q].slots = plans[q].slots
  BY <1>4
<1>8. \A q \in Makers : plans'[q].version = plans[q].version
  BY <1>4
<1> QED
  BY <1>4, <1>5, <1>6, <1>7, <1>8

LEMMA AcceptedStatuses ==
    ASSUME NEW d, NEW o
    PROVE  AcceptedStatus(d, o) \in {"accepted", "partially_accepted"}
  BY DEF AcceptedStatus

\* The loop of a decision goes on, or ends and settles the plan.
LEMMA AdvanceFacts ==
    ASSUME TypeOK, NEW d \in Decisions, NEW o \in Makers, local[d].plan \in Runs,
           NEW rest, Advance(d, o, rest)
    PROVE  /\ plans' \in [Makers -> Plan]
           /\ settled' \in [Makers -> Decisions \cup {None}]
           /\ logged' \in [Runs -> Nat]
           /\ \A q \in Makers : plans'[q].slots = plans[q].slots
           /\ \A q \in Makers : plans'[q].version = plans[q].version
           /\ \A q \in Makers \ {o} : plans'[q] = plans[q] /\ settled'[q] = settled[q]
           /\ plans'[o].status # plans[o].status => plans'[o].status # "none"
           /\ pc' = [pc EXCEPT ![d] = IF rest = {} THEN "commit" ELSE "read"]
<1>1. CASE rest = {}
  <2>1. Settle(d, o, AcceptedStatus(d, o)) /\ pc' = [pc EXCEPT ![d] = "commit"]
    BY <1>1 DEF Advance
  <2>2. AcceptedStatus(d, o) \in {"accepted", "partially_accepted", "declined"}
    BY AcceptedStatuses
  <2> QED
    BY <1>1, <2>1, <2>2, SettleFacts
<1>2. CASE rest # {}
  BY <1>2 DEF Advance, TypeOK
<1> QED
  BY <1>1, <1>2

---------------------------------------------------------------------------
(* The type invariant *)

LEMMA TypeInit == Init => TInv
<1> SUFFICES ASSUME Init PROVE TInv
  OBVIOUS
<1>1. NoPlan \in Plan
  BY DEF NoPlan, Plan
<1>2. /\ plans \in [Makers -> Plan]
      /\ local \in [Requests -> Local]
      /\ store \in [Runs -> Makers \cup {None}]
      /\ settled \in [Makers -> Decisions \cup {None}]
      /\ logged \in [Runs -> Nat]
      /\ installed \in [Runs -> SUBSET Makers]
      /\ pc = [r \in Requests |-> "idle"]
  BY <1>1, BlankIsLocal DEF Init
<1>3. \A r \in Requests : pc[r] = "idle"
  BY <1>2
<1>4. keyOf \in KeyChoices /\ live \subseteq Task /\ keys = {} /\ faults = 0 /\ applied = {}
      /\ raced = {} /\ overlapped = {}
  BY DEF Init
<1>5. 0 \in 0 .. MaxFaults
  BY PlannerServiceAssumption
<1>6. TypeOK
  BY <1>2, <1>3, <1>4, <1>5 DEF TypeOK, Live, Claimed, Requests
<1>7. Unmade /\ RefersToMade
  BY <1>3 DEF Init, Unmade, RefersToMade, Requests
<1> QED
  BY <1>6, <1>7 DEF TInv

LEMMA TypeLeave ==
    ASSUME TInv, NEW r \in Requests, Leave(r), pc[r] # "done",
           UNCHANGED <<keyOf, store, plans, live, keys, faults, history>>
    PROVE  TInv'
  BY TypeMove, BlankIsLocal DEF TInv, TypeOK, Leave, history, Made

\* A step of one request that changes nothing but how far it is.
LEMMA TypeGoto ==
    ASSUME TInv, NEW r \in Requests, NEW to \in {"commit", "done", "failed", "committed"},
           pc' = [pc EXCEPT ![r] = to],
           r \in Makers => to = "done" /\ pc[r] # "done",
           to = "commit" => Live(r),
           keys' \subseteq Decisions, faults' \in 0 .. MaxFaults,
           applied' \subseteq Decisions \X (Nat \ {0}),
           UNCHANGED <<keyOf, store, plans, live, local, settled, logged, installed,
                       raced, overlapped>>
    PROVE  TInv'
<1>1. local[r] \in Local /\ local' = [local EXCEPT ![r] = local[r]]
  BY DEF TInv, TypeOK
<1>2. to = "commit" => local[r].plan \in Runs
  BY DEF TInv, TypeOK
<1> QED
  BY <1>1, <1>2, TypeMove DEF TInv, TypeOK, Made

\* A request begins for a run's plan; of the plans it changes nothing.
LEMMA TypeClaim ==
    ASSUME TInv, NEW r \in Requests, NEW v \in Local, v.plan \in Runs, pc[r] = "idle",
           local' = [local EXCEPT ![r] = v],
           pc' = [pc EXCEPT ![r] = "claim"],
           overlapped' \subseteq Runs,
           UNCHANGED <<keyOf, store, plans, live, keys, faults, applied, settled, logged,
                       installed, raced>>
    PROVE  TInv'
<1>1. /\ keyOf' = keyOf /\ store' = store /\ live' = live /\ installed' = installed
      /\ plans' = plans
  OBVIOUS
<1>2. /\ keys' \subseteq Decisions /\ faults' \in 0 .. MaxFaults
      /\ applied' \subseteq Decisions \X (Nat \ {0}) /\ raced' \subseteq Makers
      /\ settled' \in [Makers -> Decisions \cup {None}]
      /\ logged' \in [Runs -> Nat]
  BY DEF TInv, TypeOK
<1>3. plans' \in [Makers -> Plan]
  BY <1>1 DEF TInv, TypeOK
<1>4. \A o \in Makers : IF Made(o) THEN /\ plans'[o].slots = plans[o].slots
                                        /\ plans'[o].status # "none"
                                   ELSE plans'[o] = plans[o]
  BY <1>1 DEF Made
<1> QED
  BY <1>1, <1>2, <1>3, <1>4, TypeMove

\* A request begins.
LEMMA TypeBegin ==
    ASSUME TInv, NEW r \in Requests,
           \/ r \in Runs /\ BeginRun(r)
           \/ r \in Replans /\ BeginReplan(r)
           \/ r \in Decisions /\ BeginDecision(r)
    PROVE  TInv'
<1>0. /\ local \in [Requests -> Local] /\ local[r] \in Local
      /\ overlapped \subseteq Runs
  BY DEF TInv, TypeOK
<1>1. CASE r \in Runs /\ BeginRun(r)
  <2> DEFINE v == [local[r] EXCEPT !.plan = r]
  <2>1. v \in Local /\ v.plan = r
    BY <1>0, <1>1 DEF Local
  <2>2. local' = [local EXCEPT ![r] = v] /\ pc' = [pc EXCEPT ![r] = "claim"] /\ pc[r] = "idle"
    BY <1>1 DEF BeginRun
  <2> HIDE DEF v
  <2> QED
    <3>1. overlapped' \subseteq Runs
      BY <1>0, <1>1 DEF BeginRun, history
    <3>2. UNCHANGED <<keyOf, store, plans, live, keys, faults, applied, settled, logged,
                      installed, raced>>
      BY <1>1 DEF BeginRun, history
    <3> QED
      BY <1>1, <2>1, <2>2, <3>1, <3>2, TypeClaim
<1>2. CASE r \in Replans /\ BeginReplan(r)
  <2>1. PICK p \in Runs :
          /\ plans[p].status # "none"
          /\ IF store[p] = None
             THEN /\ pc' = [pc EXCEPT ![r] = "done"]
                  /\ UNCHANGED <<local, overlapped>>
             ELSE /\ pc' = [pc EXCEPT ![r] = "claim"]
                  /\ local' = [local EXCEPT ![r].plan = p, ![r].seen = store[p]]
                  /\ overlapped' = IF Replanning(p) = {} THEN overlapped
                                   ELSE overlapped \cup {p}
    BY <1>2 DEF BeginReplan
  <2>2. pc[r] = "idle" /\ UNCHANGED <<keyOf, store, plans, live, keys, faults, applied,
                                      settled, logged, installed, raced>>
    BY <1>2 DEF BeginReplan
  <2>3. CASE store[p] = None
    BY <2>1, <2>2, <2>3, TypeGoto DEF TInv, TypeOK
  <2>4. CASE store[p] # None
    <3> DEFINE v == [local[r] EXCEPT !.plan = p, !.seen = store[p]]
    <3>1. v \in Local /\ v.plan = p
      BY <1>0, <2>4 DEF Local, TInv, TypeOK
    <3>2. local' = [local EXCEPT ![r] = v] /\ pc' = [pc EXCEPT ![r] = "claim"]
      BY <2>1, <2>4
    <3>3. overlapped' \subseteq Runs
      BY <1>0, <2>1, <2>4
    <3> HIDE DEF v
    <3> QED
      BY <2>2, <3>1, <3>2, <3>3, TypeClaim
  <2> QED
    BY <2>3, <2>4
<1>3. CASE r \in Decisions /\ BeginDecision(r)
  <2>0. PICK p \in Runs, verdict \in {"accept", "decline"} :
          \E slots \in {{}} \cup UNION {Selections(o) : o \in installed[p]} :
            local' = [local EXCEPT ![r].plan = p, ![r].verdict = verdict,
                                   ![r].accepted = slots]
    BY <1>3 DEF BeginDecision
  <2>1. PICK slots \in {{}} \cup UNION {Selections(o) : o \in installed[p]} :
          local' = [local EXCEPT ![r].plan = p, ![r].verdict = verdict, ![r].accepted = slots]
    BY <2>0
  <2>2. slots \in SUBSET (Makers \X (Nat \ {0}))
    <3>1. \A o \in installed[p] : o \in Makers
      BY DEF TInv, TypeOK
    <3>2. ASSUME NEW o \in Makers PROVE Slots(o) \subseteq Makers \X (Nat \ {0})
      <4>1. DOMAIN plans[o].slots \subseteq Nat \ {0}
        <5>1. plans[o].slots \in Seq(Task \cup {None})
          BY DEF TInv, TypeOK, Plan
        <5> QED
          BY <5>1
      <4> QED
        BY <4>1 DEF Slots
    <3> QED
      BY <3>1, <3>2 DEF Selections
  <2> DEFINE v == [local[r] EXCEPT !.plan = p, !.verdict = verdict, !.accepted = slots]
  <2>3. v \in Local /\ v.plan = p
    BY <1>0, <2>2 DEF Local
  <2>4. local' = [local EXCEPT ![r] = v] /\ pc' = [pc EXCEPT ![r] = "claim"] /\ pc[r] = "idle"
    BY <2>1, <1>3 DEF BeginDecision
  <2> HIDE DEF v
  <2> QED
    <3>1. UNCHANGED <<keyOf, store, plans, live, keys, faults, history>>
      BY <1>3 DEF BeginDecision
    <3>2. UNCHANGED <<keyOf, store, plans, live, keys, faults, applied, settled, logged,
                      installed, raced, overlapped>>
      BY <3>1 DEF history
    <3>3. overlapped' \subseteq Runs
      BY <1>0, <3>2
    <3> QED
      BY <2>3, <2>4, <3>2, <3>3, TypeClaim
<1> QED
  BY <1>1, <1>2, <1>3

LEMMA TypeEnqueue ==
    ASSUME TInv, NEW r \in Makers, Enqueue(r)
    PROVE  TInv'
<1> DEFINE v == [local[r] EXCEPT !.base = store[local[r].plan]]
<1>1. r \in Requests /\ local[r] \in Local /\ local[r].plan \in Runs
  BY DEF TInv, TypeOK, Enqueue, Live, Requests
<1>2. store[local[r].plan] \in Makers \cup {None}
  BY <1>1 DEF TInv, TypeOK
<1>3. v \in Local /\ v.plan = local[r].plan
  BY <1>1, <1>2 DEF Local
<1>4. local' = [local EXCEPT ![r] = v] /\ pc' = [pc EXCEPT ![r] = "ai"] /\ pc[r] = "claim"
  BY DEF Enqueue
<1> HIDE DEF v
<1> QED
  BY <1>1, <1>3, <1>4, TypeMove, PlannerServiceAssumption
  DEF Enqueue, history, TInv, TypeOK, Made

\* The AI service may answer with any slots, and the own generator with its.
LEMMA AnswersAreSlots ==
    ASSUME NEW r \in Makers, NEW answer \in RequestAiPlan(r)
    PROVE  SlotsOf(answer) \in Seq(Task \cup {None})
<1>1. Generated \in Seq(Task \cup {None})
  BY PlannerServiceAssumption
<1>2. Answers[r] \subseteq Seq(Task \cup {None})
  BY PlannerServiceAssumption
<1> QED
  BY <1>1, <1>2 DEF SlotsOf, RequestAiPlan

\* What a run or replan stores.
LEMMA InstallFacts ==
    ASSUME TInv, NEW r \in Makers, Install(r)
    PROVE  /\ local[r].plan \in Runs
           /\ r \in Requests /\ pc[r] = "ai"
           /\ plans' \in [Makers -> Plan]
           /\ plans'[r].status = "ready"
           /\ plans'[r].version = PreviousVersion(r) + 1
           /\ plans'[r].history = CopiedHistory(r) + 1
           /\ \A o \in Makers \ {r} : plans'[o] = plans[o]
           /\ pc'[r] = "done"
           /\ \A u \in Requests \ {r} : pc'[u] = pc[u] /\ local'[u] = local[u]
           /\ local' \in [Requests -> Local]
<1>1. r \in Requests /\ pc[r] = "ai" /\ local[r].plan \in Runs /\ local[r] \in Local
  BY DEF Install, TInv, TypeOK, Live, Claimed, Requests
<1>2. PreviousVersion(r) \in Nat /\ CopiedHistory(r) \in Nat
  BY <1>1 DEF PreviousVersion, CopiedHistory, TInv, TypeOK, Plan, Local
<1>3. PICK answer \in RequestAiPlan(r) :
        plans' = [plans EXCEPT ![r] =
                    [status |-> "ready", version |-> PreviousVersion(r) + 1,
                     slots |-> SlotsOf(answer), history |-> CopiedHistory(r) + 1]]
  BY DEF Install
<1>4. [status |-> "ready", version |-> PreviousVersion(r) + 1,
       slots |-> SlotsOf(answer), history |-> CopiedHistory(r) + 1] \in Plan
  BY <1>2, AnswersAreSlots DEF Plan
<1>5. plans \in [Makers -> Plan] /\ local \in [Requests -> Local]
  BY DEF TInv, TypeOK
<1>6. pc' = [pc EXCEPT ![r] = "done"] /\ local' = [local EXCEPT ![r] = Blank]
  BY DEF Install, Leave
<1> QED
  BY <1>1, <1>3, <1>4, <1>5, <1>6, BlankIsLocal DEF TInv, TypeOK

LEMMA TypeInstall ==
    ASSUME TInv, NEW r \in Makers, Install(r)
    PROVE  TInv'
<1> DEFINE p == local[r].plan
<1>1. /\ store' = [store EXCEPT ![p] = r]
      /\ logged' = [logged EXCEPT ![p] = @ + 1]
      /\ installed' = [installed EXCEPT ![p] = @ \cup {r}]
      /\ overlapped' \subseteq overlapped \cup {p}
      /\ pc' = [pc EXCEPT ![r] = "done"]
      /\ UNCHANGED <<keyOf, live, keys, faults, applied, settled, raced>>
  BY DEF Install, Leave
<1>2. /\ store' \in [Runs -> Makers \cup {None}]
      /\ logged' \in [Runs -> Nat]
      /\ installed' \in [Runs -> SUBSET Makers]
      /\ overlapped' \subseteq Runs
  BY <1>1, InstallFacts DEF TInv, TypeOK
<1>3. \A o \in Makers : Made(o) => o # r /\ pc'[o] = "done" /\ plans'[o] = plans[o]
  BY InstallFacts DEF Made, Requests
<1>4. \A d \in Decisions : d # r /\ pc'[d] = pc[d] /\ local'[d] = local[d]
  BY InstallFacts, PlannerServiceAssumption DEF Requests
<1>5. TypeOK'
  <2>1. \A u \in Requests : Live(u)' => local'[u].plan \in Runs
    BY InstallFacts DEF TInv, TypeOK, Live, Claimed
  <2>2. \A u \in Makers : pc'[u] \notin {"read", "write", "commit", "committed"}
    BY InstallFacts DEF TInv, TypeOK, Requests
  <2>3. \A d \in Decisions : pc[d] \in {"read", "write"} =>
          plans'[local[d].base].slots = plans[local[d].base].slots
    BY <1>3 DEF TInv, RefersToMade, TypeOK
  <2>4. \A d \in Decisions :
          /\ pc'[d] # "ai"
          /\ pc'[d] \in {"read", "write"} =>
                /\ local'[d].base \in Makers
                /\ local'[d].rest # {}
                /\ local'[d].rest \subseteq DOMAIN plans'[local'[d].base].slots
    BY <1>4, <2>3 DEF TInv, TypeOK
  <2> QED
    BY <1>1, <1>2, <2>1, <2>2, <2>4, InstallFacts DEF TInv, TypeOK
<1>6. Unmade'
  BY InstallFacts DEF TInv, Unmade, Requests
<1>7. RefersToMade'
  <2>1. \A q \in Runs : store'[q] # None => store'[q] \in installed'[q]
    BY <1>1, InstallFacts DEF TInv, TypeOK, RefersToMade
  <2>2. Made(r)'
    BY InstallFacts DEF Made
  <2>3. \A q \in Runs : \A o \in installed'[q] : Made(o)'
    BY <1>1, <1>3, <2>2, InstallFacts DEF TInv, TypeOK, RefersToMade, Made
  <2>4. \A d \in Decisions : pc'[d] \in {"read", "write"} => Made(local[d].base)'
    BY <1>3, <1>4 DEF TInv, TypeOK, RefersToMade, Made
  <2> QED
    BY <1>4, <2>1, <2>3, <2>4 DEF RefersToMade, Made
<1> QED
  BY <1>5, <1>6, <1>7 DEF TInv

\* The loop of decision d over plan object o begins, goes on or ends with
\* positions rest left.
LEMMA TypeAdvance ==
    ASSUME TInv, NEW d \in Decisions, NEW o \in Makers, NEW v \in Local, Made(o),
           local' = [local EXCEPT ![d] = v], v.plan = local[d].plan, Live(d),
           v.base = o, v.rest \subseteq DOMAIN plans[o].slots,
           Advance(d, o, v.rest), raced' \subseteq Makers,
           UNCHANGED <<keyOf, store, live, keys, faults, applied, installed, overlapped>>
    PROVE  TInv'
<1>1. local[d].plan \in Runs /\ d \in Requests /\ d \notin Makers
  BY PlannerServiceAssumption DEF TInv, TypeOK, Requests
<1>2. /\ plans' \in [Makers -> Plan]
      /\ settled' \in [Makers -> Decisions \cup {None}]
      /\ logged' \in [Runs -> Nat]
      /\ \A q \in Makers : plans'[q].slots = plans[q].slots
      /\ \A q \in Makers \ {o} : plans'[q] = plans[q]
      /\ plans'[o].status # plans[o].status => plans'[o].status # "none"
      /\ pc' = [pc EXCEPT ![d] = IF v.rest = {} THEN "commit" ELSE "read"]
  BY <1>1, AdvanceFacts DEF TInv
<1>3. \A q \in Makers : IF Made(q) THEN /\ plans'[q].slots = plans[q].slots
                                        /\ plans'[q].status # "none"
                                   ELSE plans'[q] = plans[q]
  BY <1>2 DEF Made
<1> QED
  BY <1>1, <1>2, <1>3, TypeMove DEF TInv, TypeOK

LEMMA TypeDecide ==
    ASSUME TInv, NEW d \in Decisions, Decide(d)
    PROVE  TInv'
<1> DEFINE o == store[local[d].plan]
           v == [local[d] EXCEPT !.base = o, !.rest = AcceptedPositions(d, o)]
<1>1. /\ d \in Requests /\ d \notin Makers /\ local[d] \in Local /\ local[d].plan \in Runs
      /\ Live(d)
  BY PlannerServiceAssumption DEF TInv, TypeOK, Requests, Decide, Live
<1>2. o \in Makers /\ Made(o)
  BY <1>1 DEF TInv, TypeOK, RefersToMade, Decide
<1>3. AcceptedPositions(d, o) \subseteq DOMAIN plans[o].slots
  BY DEF AcceptedPositions
<1>4. DOMAIN plans[o].slots \subseteq Nat \ {0}
  BY <1>2 DEF TInv, TypeOK, Plan
<1>5. /\ v \in Local /\ v.plan = local[d].plan /\ v.base = o
      /\ v.rest = AcceptedPositions(d, o)
  BY <1>1, <1>2, <1>3, <1>4 DEF Local
<1>6. /\ local' = [local EXCEPT ![d] = v]
      /\ raced' \subseteq Makers
      /\ UNCHANGED <<keyOf, store, live, keys, faults, applied, installed, overlapped>>
  BY <1>2 DEF Decide, TInv, TypeOK
<1>7. \/ Advance(d, o, AcceptedPositions(d, o))
      \/ Settle(d, o, "declined") /\ pc' = [pc EXCEPT ![d] = "commit"]
  BY DEF Decide
<1> HIDE DEF o, v
<1>8. CASE Advance(d, o, AcceptedPositions(d, o))
  BY <1>1, <1>2, <1>3, <1>5, <1>6, <1>8, TypeAdvance
<1>9. CASE Settle(d, o, "declined") /\ pc' = [pc EXCEPT ![d] = "commit"]
  <2>1. /\ plans' \in [Makers -> Plan]
        /\ settled' \in [Makers -> Decisions \cup {None}]
        /\ logged' \in [Runs -> Nat]
        /\ \A q \in Makers : plans'[q].slots = plans[q].slots
        /\ \A q \in Makers \ {o} : plans'[q] = plans[q]
        /\ plans'[o].status = "declined"
    BY <1>1, <1>2, <1>9, SettleFacts DEF TInv
  <2>2. \A q \in Makers : IF Made(q) THEN /\ plans'[q].slots = plans[q].slots
                                          /\ plans'[q].status # "none"
                                     ELSE plans'[q] = plans[q]
    BY <1>2, <2>1 DEF Made
  <2> QED
    BY <1>1, <1>5, <1>6, <1>9, <2>1, <2>2, TypeMove DEF TInv, TypeOK
<1> QED
  BY <1>7, <1>8, <1>9

\* One position less for the loop.
LEMMA TypeLoop ==
    ASSUME TInv, NEW d \in Decisions, GetTask(d) \/ UpdateTask(d)
    PROVE  TInv'
<1>1. /\ d \in Requests /\ d \notin Makers /\ local[d] \in Local /\ local[d].plan \in Runs
      /\ Live(d) /\ pc[d] \in {"read", "write"}
  BY PlannerServiceAssumption DEF TInv, TypeOK, Requests, GetTask, UpdateTask, Live, Claimed
<1>2. /\ local[d].base \in Makers /\ Made(local[d].base)
      /\ local[d].rest \subseteq DOMAIN plans[local[d].base].slots /\ local[d].rest # {}
  BY <1>1 DEF TInv, TypeOK, RefersToMade
<1>3. UNCHANGED <<keyOf, store, live, keys, faults, applied, installed, raced, overlapped>>
  BY DEF GetTask, UpdateTask
<1>4. raced \subseteq Makers
  BY DEF TInv, TypeOK
<1>5. CASE GetTask(d)
  <2>1. PICK i \in local[d].rest, t \in Task :
          IF t \in live
          THEN /\ pc' = [pc EXCEPT ![d] = "write"]
               /\ UNCHANGED <<plans, settled, logged, local>>
          ELSE /\ local' = [local EXCEPT ![d].rest = @ \ {i}, ![d].skipped = @ \cup {i}]
               /\ Advance(d, local[d].base, local[d].rest \ {i})
    BY <1>5 DEF GetTask
  <2>2. CASE t \in live
    <3>1. local' = [local EXCEPT ![d] = local[d]]
      BY <2>1, <2>2 DEF TInv, TypeOK
    <3>2. /\ keys \subseteq Decisions /\ faults \in 0 .. MaxFaults
          /\ applied \subseteq Decisions \X (Nat \ {0}) /\ overlapped \subseteq Runs
          /\ plans \in [Makers -> Plan]
          /\ settled \in [Makers -> Decisions \cup {None}] /\ logged \in [Runs -> Nat]
      BY DEF TInv, TypeOK
    <3>3. plans' = plans /\ settled' = settled /\ logged' = logged
      BY <2>1, <2>2
    <3>4. \A o \in Makers : Made(o) => plans[o].status # "none"
      BY DEF Made
    <3> QED
      BY <1>1, <1>2, <1>3, <1>4, <2>1, <2>2, <3>1, <3>2, <3>3, <3>4, TypeMove
  <2>3. CASE t \notin live
    <3> DEFINE v == [local[d] EXCEPT !.rest = @ \ {i}, !.skipped = @ \cup {i}]
    <3>1. /\ v \in Local /\ v.plan = local[d].plan /\ v.base = local[d].base
          /\ v.rest = local[d].rest \ {i}
      BY <1>1 DEF Local
    <3>2. local' = [local EXCEPT ![d] = v]
      BY <2>1, <2>3
    <3> HIDE DEF v
    <3> QED
      BY <1>1, <1>2, <1>3, <1>4, <2>1, <2>3, <3>1, <3>2, TypeAdvance
  <2> QED
    BY <2>2, <2>3
<1>6. CASE UpdateTask(d)
  <2>1. PICK i \in local[d].rest, t \in Task :
          /\ local' = [local EXCEPT ![d].rest = @ \ {i}, ![d].wrote = @ \cup {i}]
          /\ Advance(d, local[d].base, local[d].rest \ {i})
    BY <1>6 DEF UpdateTask
  <2> DEFINE v == [local[d] EXCEPT !.rest = @ \ {i}, !.wrote = @ \cup {i}]
  <2>2. /\ v \in Local /\ v.plan = local[d].plan /\ v.base = local[d].base
        /\ v.rest = local[d].rest \ {i}
    BY <1>1 DEF Local
  <2>3. local' = [local EXCEPT ![d] = v]
    BY <2>1
  <2> HIDE DEF v
  <2> QED
    BY <1>1, <1>2, <1>3, <1>4, <2>1, <2>2, <2>3, TypeAdvance
<1> QED
  BY <1>5, <1>6

\* A restart, or a task deleted by a batch.
LEMMA TypeOthers ==
    ASSUME TInv, Restart \/ \E t \in Task : DeleteTask(t)
    PROVE  TInv'
<1>1. CASE Restart
  <2>1. /\ store' \in [Runs -> Makers \cup {None}]
        /\ faults' \in 0 .. MaxFaults
        /\ UNCHANGED <<keyOf, plans, live, keys, local, history>>
    BY <1>1, PlannerServiceAssumption DEF Restart, Fault, TInv, TypeOK
  <2>2. \A r \in Requests : pc'[r] = IF Live(r) THEN "failed" ELSE pc[r]
    BY <1>1 DEF Restart
  <2>3. pc' \in [Requests -> {"idle", "claim", "ai", "read", "write", "commit",
                              "committed", "done", "failed"}]
    BY <1>1 DEF Restart, TInv, TypeOK
  <2>4. Makers \subseteq Requests /\ Decisions \subseteq Requests
    BY DEF Requests
  <2>5. TypeOK'
    BY <2>1, <2>2, <2>3, <2>4 DEF TInv, TypeOK, Live, Claimed, history
  <2>6. Unmade'
    BY <2>1, <2>2, <2>4 DEF TInv, Unmade, Live, Claimed
  <2>7. RefersToMade'
    BY <1>1, <2>1, <2>2, <2>4 DEF TInv, TypeOK, RefersToMade, Live, Claimed, history, Made, Restart
  <2> QED
    BY <2>5, <2>6, <2>7 DEF TInv
<1>2. ASSUME NEW t \in Task, DeleteTask(t)
      PROVE  TInv'
  BY <1>2, PlannerServiceAssumption
  DEF DeleteTask, Fault, TInv, TypeOK, Unmade, RefersToMade, Live, Claimed, history, Made
<1> QED
  BY <1>1, <1>2

LEMMA TypeNext == TInv /\ [Next]_vars => TInv'
<1> SUFFICES ASSUME TInv, [Next]_vars PROVE TInv'
  OBVIOUS
<1>1. CASE UNCHANGED vars
  BY <1>1 DEF vars, history, TInv, TypeOK, Unmade, RefersToMade, Live, Claimed, Made
<1>2. ASSUME NEW r \in Makers, TurnAway(r) PROVE TInv'
  BY <1>2, TypeGoto DEF TurnAway, history, Requests, TInv, TypeOK
<1>3. ASSUME NEW r \in Runs, BeginRun(r) PROVE TInv'
  BY <1>3, TypeBegin DEF Requests, Makers
<1>9. ASSUME NEW r \in Replans, BeginReplan(r) PROVE TInv'
  BY <1>9, TypeBegin DEF Requests, Makers
<1>10. ASSUME NEW d \in Decisions, BeginDecision(d) PROVE TInv'
  BY <1>10, TypeBegin DEF Requests
<1>4. ASSUME NEW d \in Decisions, CommitFails(d) \/ DeadlockAborts(d) PROVE TInv'
  <2>1. d \notin Makers /\ d \in Requests
    BY PlannerServiceAssumption DEF Requests
  <2>2. faults' \in 0 .. MaxFaults
    BY <1>4, PlannerServiceAssumption DEF CommitFails, DeadlockAborts, Fault, TInv, TypeOK
  <2> QED
    BY <1>4, <2>1, <2>2, TypeGoto DEF CommitFails, DeadlockAborts, history, TInv, TypeOK
<1>5. ASSUME NEW r \in Requests, Duplicate(r) PROVE TInv'
  BY <1>5, TypeLeave DEF Duplicate
<1>6. ASSUME NEW d \in Decisions, PlanNotFound(d) \/ CreateTask(d) PROVE TInv'
  BY <1>6, TypeLeave DEF PlanNotFound, CreateTask, Requests
<1>7. ASSUME NEW d \in Decisions, AlreadyDecided(d) PROVE TInv'
  <2>1. d \notin Makers /\ d \in Requests
    BY PlannerServiceAssumption DEF Requests
  <2> QED
    BY <1>7, <2>1, TypeGoto DEF AlreadyDecided, history, TInv, TypeOK, Live
<1>8. ASSUME NEW d \in Decisions, Commit(d) PROVE TInv'
  <2>1. d \notin Makers /\ d \in Requests
    BY PlannerServiceAssumption DEF Requests
  <2>2. local[d].wrote \subseteq Nat \ {0}
    BY <2>1 DEF TInv, TypeOK, Local
  <2> QED
    BY <1>8, <2>1, <2>2, TypeGoto DEF Commit, TInv, TypeOK
<1> QED
  <2> SUFFICES ASSUME Next PROVE TInv'
    BY <1>1
  <2>1. ASSUME NEW r \in Requests, Step(r) PROVE TInv'
    BY <2>1, <1>5, <1>6, <1>7, <1>8, TypeEnqueue, TypeInstall, TypeDecide, TypeLoop DEF Step
  <2> QED
    BY <2>1, <1>2, <1>3, <1>9, <1>10, <1>4, TypeOthers DEF Next

\* Every variable keeps its type, ...
THEOREM TypeCorrect == Spec => []TypeOK
<1>1. TInv => TypeOK
  BY DEF TInv
<1> QED
  BY <1>1, TypeInit, TypeNext, PTL DEF Spec

---------------------------------------------------------------------------
(* One request at a time *)

\* What request r can do.
ActionOf(r) ==
    \/ r \in Makers /\ TurnAway(r)
    \/ r \in Runs /\ BeginRun(r)
    \/ r \in Replans /\ BeginReplan(r)
    \/ r \in Decisions /\ (BeginDecision(r) \/ CommitFails(r) \/ DeadlockAborts(r))
    \/ Step(r)

LEMMA NextIsOfOne ==
    ASSUME [Next]_vars
    PROVE  \/ UNCHANGED vars
           \/ \E r \in Requests : ActionOf(r)
           \/ Restart
           \/ \E t \in Task : DeleteTask(t)
  BY DEF Next, ActionOf, Requests, Makers

\* No request touches the progress and the local variables of another.
LEMMA OthersStay ==
    ASSUME TInv, NEW r \in Requests, ActionOf(r), NEW u \in Requests \ {r}
    PROVE  pc'[u] = pc[u] /\ local'[u] = local[u]
<1>1. pc \in [Requests -> {"idle", "claim", "ai", "read", "write", "commit",
                           "committed", "done", "failed"}]
      /\ local \in [Requests -> Local]
  BY DEF TInv, TypeOK
<1>2. ASSUME NEW o, NEW rest, Advance(r, o, rest) PROVE pc'[u] = pc[u]
  BY <1>1, <1>2 DEF Advance
<1>3. CASE r \in Makers /\ TurnAway(r)
  BY <1>1, <1>3 DEF TurnAway
<1>4. CASE r \in Runs /\ BeginRun(r)
  BY <1>1, <1>4 DEF BeginRun
<1>5. CASE r \in Replans /\ BeginReplan(r)
  BY <1>1, <1>5 DEF BeginReplan
<1>6. CASE r \in Decisions /\ BeginDecision(r)
  BY <1>1, <1>6 DEF BeginDecision
<1>7. CASE CommitFails(r) \/ DeadlockAborts(r) \/ AlreadyDecided(r) \/ Commit(r)
  BY <1>1, <1>7 DEF CommitFails, DeadlockAborts, AlreadyDecided, Commit
<1>8. CASE Duplicate(r) \/ PlanNotFound(r) \/ CreateTask(r) \/ Install(r)
  <2>1. Leave(r)
    BY <1>8 DEF Duplicate, PlanNotFound, CreateTask, Install
  <2> QED
    BY <1>1, <2>1 DEF Leave
<1>9. CASE Enqueue(r)
  BY <1>1, <1>9 DEF Enqueue
<1>10. CASE Decide(r)
  BY <1>1, <1>2, <1>10 DEF Decide
<1>11. CASE GetTask(r)
  BY <1>1, <1>2, <1>11 DEF GetTask
<1>12. CASE UpdateTask(r)
  BY <1>1, <1>2, <1>12 DEF UpdateTask
<1> QED
  BY <1>3, <1>4, <1>5, <1>6, <1>7, <1>8, <1>9, <1>10, <1>11, <1>12 DEF ActionOf, Step

\* The steps of a decision.
LEMMA DecisionSteps ==
    ASSUME NEW d \in Decisions, ActionOf(d)
    PROVE  \/ BeginDecision(d)
           \/ CommitFails(d) \/ DeadlockAborts(d)
           \/ Duplicate(d) \/ PlanNotFound(d) \/ CreateTask(d)
           \/ AlreadyDecided(d) \/ Commit(d)
           \/ Decide(d)
           \/ GetTask(d) \/ UpdateTask(d)
<1>1. d \notin Makers /\ d \notin Runs /\ d \notin Replans
  BY PlannerServiceAssumption DEF Makers
<1> QED
  BY <1>1 DEF ActionOf, Step

InLoop(d) == pc[d] \in {"read", "write"}

\* A decision in its loop goes on to its next step, or settles the plan.
LEMMA LoopFacts ==
    ASSUME TInv, NEW d \in Decisions, GetTask(d) \/ UpdateTask(d)
    PROVE  /\ InLoop(d) /\ d \in Requests
           /\ local[d].base \in Makers /\ Made(local[d].base) /\ local[d].plan \in Runs
           /\ local'[d].plan = local[d].plan /\ local'[d].base = local[d].base
           /\ local'[d].accepted = local[d].accepted
           /\ local[d].wrote \subseteq local'[d].wrote
           /\ local[d].skipped \subseteq local'[d].skipped
           /\ \A i \in local[d].rest \ local'[d].rest :
                 i \in local'[d].wrote \cup local'[d].skipped
           /\ UNCHANGED <<keyOf, store, live, keys, faults, applied, installed, raced,
                          overlapped>>
           /\ \/ pc'[d] \in {"read", "write"} /\ UNCHANGED <<plans, settled, logged>>
              \/ /\ pc'[d] = "commit" /\ local'[d].rest = {}
                 /\ Settle(d, local[d].base, AcceptedStatus(d, local[d].base))
<1>1. /\ d \in Requests /\ local[d] \in Local /\ local[d].plan \in Runs
      /\ pc[d] \in {"read", "write"} /\ local \in [Requests -> Local]
  BY DEF TInv, TypeOK, Requests, GetTask, UpdateTask, Live, Claimed
<1>2. local[d].base \in Makers /\ Made(local[d].base)
  BY <1>1 DEF TInv, TypeOK, RefersToMade
<1>3. UNCHANGED <<keyOf, store, live, keys, faults, applied, installed, raced, overlapped>>
  BY DEF GetTask, UpdateTask
<1>4. ASSUME NEW rest, Advance(d, local[d].base, rest)
      PROVE  \/ /\ rest # {} /\ pc'[d] \in {"read", "write"}
                /\ UNCHANGED <<plans, settled, logged>>
             \/ /\ rest = {} /\ pc'[d] = "commit"
                /\ Settle(d, local[d].base, AcceptedStatus(d, local[d].base))
  BY <1>1, <1>4 DEF Advance, TInv, TypeOK
<1>5. CASE GetTask(d)
  <2>1. PICK i \in local[d].rest, t \in Task :
          /\ At(d, i, t)
          /\ IF t \in live
             THEN /\ pc' = [pc EXCEPT ![d] = "write"]
                  /\ UNCHANGED <<plans, settled, logged, local>>
             ELSE /\ local' = [local EXCEPT ![d].rest = @ \ {i}, ![d].skipped = @ \cup {i}]
                  /\ Advance(d, local[d].base, local[d].rest \ {i})
    BY <1>5 DEF GetTask
  <2>2. CASE t \in live
    <3>1. pc'[d] = "write" /\ local' = local /\ UNCHANGED <<plans, settled, logged>>
      BY <1>1, <2>1, <2>2 DEF TInv, TypeOK
    <3> QED
      BY <1>1, <1>2, <1>3, <3>1 DEF InLoop
  <2>3. CASE t \notin live
    <3>1. /\ local'[d].plan = local[d].plan /\ local'[d].base = local[d].base
          /\ local'[d].accepted = local[d].accepted /\ local'[d].wrote = local[d].wrote
          /\ local'[d].skipped = local[d].skipped \cup {i}
          /\ local'[d].rest = local[d].rest \ {i}
      BY <1>1, <2>1, <2>3 DEF Local
    <3>2. Advance(d, local[d].base, local[d].rest \ {i})
      BY <2>1, <2>3
    <3> QED
      BY <1>1, <1>2, <1>3, <1>4, <3>1, <3>2 DEF InLoop
  <2> QED
    BY <2>2, <2>3
<1>6. CASE UpdateTask(d)
  <2>1. PICK i \in local[d].rest, t \in Task :
          /\ At(d, i, t)
          /\ local' = [local EXCEPT ![d].rest = @ \ {i}, ![d].wrote = @ \cup {i}]
          /\ Advance(d, local[d].base, local[d].rest \ {i})
    BY <1>6 DEF UpdateTask
  <2>2. /\ local'[d].plan = local[d].plan /\ local'[d].base = local[d].base
        /\ local'[d].accepted = local[d].accepted /\ local'[d].skipped = local[d].skipped
        /\ local'[d].wrote = local[d].wrote \cup {i}
        /\ local'[d].rest = local[d].rest \ {i}
    BY <1>1, <2>1 DEF Local
  <2> QED
    BY <1>1, <1>2, <1>3, <1>4, <2>1, <2>2 DEF InLoop
<1> QED
  BY <1>5, <1>6

\* A decision enters its loop, or settles the plan at once.
LEMMA DecideFacts ==
    ASSUME TInv, NEW d \in Decisions, Decide(d)
    PROVE  LET o == store[local[d].plan]
           IN  /\ pc[d] = "claim" /\ d \in Requests /\ EnforceIdempotency(d)
               /\ local[d].plan \in Runs /\ o \in Makers /\ Made(o) /\ Undecided(o)
               /\ local'[d].plan = local[d].plan /\ local'[d].base = o
               /\ local'[d].accepted = local[d].accepted
               /\ local'[d].rest = AcceptedPositions(d, o)
               /\ raced \subseteq raced'
               /\ \A u \in Decisions : InLoop(u) /\ local[u].base = o => o \in raced'
               /\ UNCHANGED <<keyOf, store, live, keys, faults, applied, installed,
                              overlapped>>
               /\ \/ pc'[d] \in {"read", "write"} /\ UNCHANGED <<plans, settled, logged>>
                  \/ pc'[d] = "commit" /\ Settle(d, o, "declined")
                  \/ /\ pc'[d] = "commit" /\ local'[d].rest = {}
                     /\ Settle(d, o, AcceptedStatus(d, o))
<1> DEFINE o == store[local[d].plan]
<1>1. /\ d \in Requests /\ local[d] \in Local /\ local[d].plan \in Runs
      /\ pc[d] = "claim" /\ local \in [Requests -> Local]
  BY DEF TInv, TypeOK, Requests, Decide, Live
<1>2. o \in Makers /\ Made(o)
  BY <1>1 DEF TInv, TypeOK, RefersToMade, Decide
<1>3. /\ EnforceIdempotency(d) /\ Undecided(o)
      /\ local' = [local EXCEPT ![d].base = o, ![d].rest = AcceptedPositions(d, o)]
      /\ raced' = IF \E u \in Decisions : /\ pc[u] \in {"read", "write"}
                                          /\ local[u].base = o
                  THEN raced \cup {o} ELSE raced
      /\ UNCHANGED <<keyOf, store, live, keys, faults, applied, installed, overlapped>>
  BY DEF Decide
<1>4. \/ Advance(d, o, AcceptedPositions(d, o))
      \/ Settle(d, o, "declined") /\ pc' = [pc EXCEPT ![d] = "commit"]
  BY DEF Decide
<1> HIDE DEF o
<1>5. /\ local'[d].plan = local[d].plan /\ local'[d].base = o
      /\ local'[d].accepted = local[d].accepted
      /\ local'[d].rest = AcceptedPositions(d, o)
  BY <1>1, <1>3 DEF Local
<1>6. \/ pc'[d] \in {"read", "write"} /\ UNCHANGED <<plans, settled, logged>>
      \/ pc'[d] = "commit" /\ Settle(d, o, "declined")
      \/ /\ pc'[d] = "commit" /\ AcceptedPositions(d, o) = {}
         /\ Settle(d, o, AcceptedStatus(d, o))
  BY <1>1, <1>4 DEF Advance, TInv, TypeOK
<1>7. raced \subseteq raced' /\ \A u \in Decisions : InLoop(u) /\ local[u].base = o => o \in raced'
  BY <1>3 DEF InLoop
<1> QED
  BY <1>1, <1>2, <1>3, <1>5, <1>6, <1>7 DEF o

\* The other steps of decisions touch no plan, ...
QuietDecision(d) ==
    /\ UNCHANGED <<keyOf, store, plans, live, settled, logged, installed, raced, overlapped>>
    /\ pc[d] \in {"idle", "claim", "read", "write", "commit"}
    /\ pc'[d] \in {"claim", "commit", "committed", "done", "failed"}
    /\ pc[d] = "commit" => pc'[d] \in {"committed", "failed"}
    /\ pc'[d] = "commit" => pc[d] = "claim"
    /\ pc'[d] \in {"commit", "committed", "failed"} => local'[d] = local[d]
    /\ applied' = IF pc'[d] = "committed" THEN applied \cup ({d} \X local[d].wrote)
                  ELSE applied

LEMMA DecisionCases ==
    ASSUME TInv, NEW d \in Decisions, ActionOf(d)
    PROVE  Decide(d) \/ GetTask(d) \/ UpdateTask(d) \/ QuietDecision(d)
<1>1. /\ pc \in [Requests -> {"idle", "claim", "ai", "read", "write", "commit",
                              "committed", "done", "failed"}]
      /\ local \in [Requests -> Local] /\ d \in Requests
  BY DEF TInv, TypeOK, Requests
<1>2. CASE BeginDecision(d)
  BY <1>1, <1>2 DEF BeginDecision, QuietDecision, history
<1>3. CASE CommitFails(d) \/ DeadlockAborts(d)
  BY <1>1, <1>3 DEF CommitFails, DeadlockAborts, WaitsFor, QuietDecision, history
<1>4. CASE Duplicate(d) \/ PlanNotFound(d) \/ CreateTask(d)
  BY <1>1, <1>4 DEF Duplicate, PlanNotFound, CreateTask, Leave, QuietDecision, history
<1>5. CASE AlreadyDecided(d)
  BY <1>1, <1>5 DEF AlreadyDecided, QuietDecision, history
<1>6. CASE Commit(d)
  BY <1>1, <1>6 DEF Commit, QuietDecision
<1> QED
  BY <1>2, <1>3, <1>4, <1>5, <1>6, DecisionSteps

\* ... and neither do those of runs and replans before they install one.
QuietMaker(r) ==
    /\ UNCHANGED <<keyOf, store, plans, live, keys, applied, settled, logged, installed, raced>>
    /\ overlapped \subseteq overlapped'

LEMMA MakerCases ==
    ASSUME TInv, NEW r \in Makers, ActionOf(r)
    PROVE  Install(r) \/ QuietMaker(r)
<1>1. r \notin Decisions
  BY PlannerServiceAssumption
<1>2. CASE TurnAway(r) \/ BeginRun(r) \/ BeginReplan(r)
  BY <1>2 DEF TurnAway, BeginRun, BeginReplan, QuietMaker, history
<1>3. CASE Duplicate(r) \/ Enqueue(r)
  BY <1>3 DEF Duplicate, Enqueue, QuietMaker, history
<1> QED
  BY <1>1, <1>2, <1>3 DEF ActionOf, Step

---------------------------------------------------------------------------
(* Keys *)

Held(d) == pc[d] \in {"read", "write", "commit", "committed"}

\* The keys of decisions that are committed are kept, and no two decisions
\* hold the same one, committed or in flight.
KeysInv ==
    /\ \A d \in Decisions : d \in keys <=> pc[d] = "committed"
    /\ \A d, e \in Decisions : d # e /\ Held(d) /\ Held(e) => ~ SameKey(d, e)

\* A decision that comes to hold its key has found nobody with it.
LEMMA HeldSteps ==
    ASSUME TInv, NEW r \in Requests, ActionOf(r), NEW d \in Decisions, Held(d)'
    PROVE  /\ local'[d].plan = local[d].plan
           /\ Held(d) \/ (d = r /\ EnforceIdempotency(d))
<1>1. d \in Requests
  BY DEF Requests
<1>2. CASE d # r
  BY <1>1, <1>2, OthersStay DEF Held
<1>3. CASE d = r
  <2>1. pc \in [Requests -> {"idle", "claim", "ai", "read", "write", "commit",
                             "committed", "done", "failed"}]
        /\ local \in [Requests -> Local]
    BY DEF TInv, TypeOK
  <2>2. CASE BeginDecision(d)
    BY <1>1, <2>1, <2>2 DEF BeginDecision, Held
  <2>3. CASE CommitFails(d) \/ DeadlockAborts(d)
    BY <1>1, <2>1, <2>3 DEF CommitFails, DeadlockAborts, Held
  <2>4. CASE Duplicate(d) \/ PlanNotFound(d) \/ CreateTask(d)
    BY <1>1, <2>1, <2>4 DEF Duplicate, PlanNotFound, CreateTask, Leave, Held
  <2>5. CASE AlreadyDecided(d) \/ Commit(d)
    BY <1>3, <2>5 DEF AlreadyDecided, Commit, Held
  <2>6. CASE Decide(d)
    BY <1>3, <2>6, DecideFacts
  <2>7. CASE GetTask(d) \/ UpdateTask(d)
    BY <2>7, LoopFacts DEF InLoop, Held
  <2> QED
    BY <1>3, <2>2, <2>3, <2>4, <2>5, <2>6, <2>7, DecisionSteps
<1> QED
  BY <1>2, <1>3

\* The keys that are kept are those of the commits.
LEMMA KeysSteps ==
    ASSUME TInv, NEW r \in Requests, ActionOf(r)
    PROVE  /\ keyOf' = keyOf
           /\ \/ r \in Decisions /\ keys' = keys \cup {r} /\ pc'[r] = "committed"
              \/ /\ keys' = keys
                 /\ r \in Decisions => pc[r] # "committed" /\ pc'[r] # "committed"
<1>1. pc \in [Requests -> {"idle", "claim", "ai", "read", "write", "commit",
                           "committed", "done", "failed"}]
  BY DEF TInv, TypeOK
<1>2. CASE r \in Makers /\ (TurnAway(r) \/ Enqueue(r) \/ Install(r))
  BY <1>2, PlannerServiceAssumption DEF TurnAway, Enqueue, Install
<1>3. CASE BeginDecision(r) \/ CommitFails(r) \/ DeadlockAborts(r) \/ AlreadyDecided(r)
  BY <1>1, <1>3 DEF BeginDecision, CommitFails, DeadlockAborts, WaitsFor, AlreadyDecided
<1>4. CASE Duplicate(r) \/ PlanNotFound(r) \/ CreateTask(r)
  BY <1>1, <1>4 DEF Duplicate, PlanNotFound, CreateTask, Leave
<1>5. CASE r \in Decisions /\ Commit(r)
  BY <1>1, <1>5 DEF Commit
<1>6. CASE r \in Decisions /\ Decide(r)
  BY <1>6, DecideFacts
<1>7. CASE r \in Decisions /\ (GetTask(r) \/ UpdateTask(r))
  BY <1>7, LoopFacts DEF InLoop
<1>8. CASE r \in Runs /\ BeginRun(r)
  BY <1>8, PlannerServiceAssumption DEF BeginRun, Makers
<1>9. CASE r \in Replans /\ BeginReplan(r)
  BY <1>9, PlannerServiceAssumption DEF BeginReplan, Makers
<1> QED
  BY <1>2, <1>3, <1>4, <1>5, <1>6, <1>7, <1>8, <1>9 DEF ActionOf, Step

LEMMA KeysInit == Init => KeysInv
  BY DEF Init, KeysInv, Held, Requests

LEMMA KeysNext == TInv /\ KeysInv /\ [Next]_vars => KeysInv'
<1> SUFFICES ASSUME TInv, KeysInv, [Next]_vars PROVE KeysInv'
  OBVIOUS
<1>1. CASE UNCHANGED vars
  BY <1>1 DEF vars, KeysInv, Held, SameKey
<1>2. ASSUME NEW r \in Requests, ActionOf(r) PROVE KeysInv'
  <2>1. \A d \in Decisions : d \in keys' <=> pc'[d] = "committed"
    BY <1>2, KeysSteps, OthersStay DEF KeysInv, Requests
  <2>2. ASSUME NEW d \in Decisions, NEW e \in Decisions, d # e, Held(d)', Held(e)',
               SameKey(d, e)
        PROVE  FALSE
    <3>1. SameKey(e, d)
      BY <2>2 DEF SameKey
    <3>2. Held(d) \/ Held(e)
      BY <1>2, <2>2, HeldSteps
    <3>3. CASE Held(d) /\ Held(e)
      BY <2>2, <3>3 DEF KeysInv
    <3>4. ASSUME NEW x \in Decisions, NEW y \in Decisions, x # y, Held(y),
                 EnforceIdempotency(x), SameKey(x, y)
          PROVE  FALSE
      <4>1. Claimed(y) \/ y \in keys
        BY <3>4 DEF Held, Claimed, KeysInv
      <4> QED
        BY <3>4, <4>1 DEF EnforceIdempotency, Requests
    <3> QED
      BY <1>2, <2>2, <3>1, <3>2, <3>3, <3>4, HeldSteps
  <2>3. ASSUME NEW d \in Decisions, NEW e \in Decisions, d # e, Held(d)', Held(e)',
               SameKey(d, e)'
        PROVE  SameKey(d, e)
    <3>1. local'[d].plan = local[d].plan /\ local'[e].plan = local[e].plan
      BY <1>2, <2>3, HeldSteps
    <3> QED
      BY <1>2, <2>3, <3>1, KeysSteps, PlannerServiceAssumption DEF SameKey, Makers
  <2> QED
    BY <2>1, <2>2, <2>3 DEF KeysInv
<1>3. CASE Restart
  <2>1. \A d \in Decisions : pc'[d] = IF Live(d) THEN "failed" ELSE pc[d]
    BY <1>3 DEF Restart, Requests
  <2>2. keys' = keys /\ keyOf' = keyOf /\ local' = local
    BY <1>3 DEF Restart
  <2> QED
    BY <2>1, <2>2 DEF KeysInv, Held, Live, Claimed, SameKey
<1>4. ASSUME NEW t \in Task, DeleteTask(t) PROVE KeysInv'
  BY <1>4 DEF DeleteTask, KeysInv, Held, SameKey
<1> QED
  BY <1>1, <1>2, <1>3, <1>4, NextIsOfOne

\* ... of two decisions with one key for one plan, only one is committed, ...
THEOREM DecisionsAreSingle == Spec => []DecidedOncePerKey
<1>1. KeysInv => DecidedOncePerKey
  BY DEF KeysInv, DecidedOncePerKey, Held
<1> QED
  BY <1>1, TypeInit, TypeNext, KeysInit, KeysNext, PTL DEF Spec

---------------------------------------------------------------------------
(* Decided plans *)

\* Two decisions in their loops over one object have raced for it, and so has
\* one that goes on over an object that is decided.
LoopsInv ==
    /\ \A d, e \in Decisions :
          d # e /\ InLoop(d) /\ InLoop(e) /\ local[d].base = local[e].base
             => local[d].base \in raced
    /\ \A d \in Decisions : InLoop(d) /\ Terminal(local[d].base) => local[d].base \in raced

LEMMA LoopsInit == Init => LoopsInv
  BY DEF Init, LoopsInv, InLoop, Requests

\* Nothing but its status can make an object terminal.
LEMMA TerminalDependsOnStatus ==
    ASSUME NEW o \in Makers, plans'[o].status = plans[o].status
    PROVE  Terminal(o)' <=> Terminal(o)
  BY DEF Terminal

LEMMA LoopsAction ==
    ASSUME TInv, LoopsInv, NEW r \in Requests, ActionOf(r)
    PROVE  /\ LoopsInv'
           /\ \A o \in Makers \ raced' : Terminal(o) => plans'[o].status = plans[o].status
<1>1. \A d \in Decisions \ {r} : pc'[d] = pc[d] /\ local'[d] = local[d]
  BY OthersStay DEF Requests
<1>2. \A d \in Decisions : InLoop(d) => local[d].base \in Makers /\ Made(local[d].base)
  BY DEF TInv, TypeOK, RefersToMade, InLoop
<1>3. CASE r \in Makers
  <2>1. r \notin Decisions
    BY <1>3, PlannerServiceAssumption
  <2>2. CASE Install(r)
    <3>1. raced' = raced
      BY <2>2 DEF Install
    <3>2. \A o \in Makers : Terminal(o)' => Terminal(o)
      BY <1>3, <2>2, InstallFacts DEF Terminal
    <3>3. ~ Terminal(r) /\ \A o \in Makers \ {r} : plans'[o] = plans[o]
      BY <1>3, <2>2, InstallFacts DEF TInv, Unmade, NoPlan, Terminal
    <3>4. LoopsInv'
      BY <1>1, <1>2, <2>1, <3>1, <3>2 DEF LoopsInv, InLoop, Terminal
    <3> QED
      BY <3>3, <3>4
  <2>3. CASE QuietMaker(r)
    BY <1>1, <2>1, <2>3 DEF QuietMaker, LoopsInv, InLoop, Terminal
  <2> QED
    BY <1>3, <2>2, <2>3, MakerCases
<1>4. CASE r \in Decisions
  <2>1. CASE QuietDecision(r)
    BY <1>1, <1>4, <2>1 DEF QuietDecision, LoopsInv, InLoop, Terminal
  <2>2. CASE Decide(r)
    <3> DEFINE o == store[local[r].plan]
    <3>1. /\ r \in Requests /\ o \in Makers /\ local[r].plan \in Runs /\ Undecided(o)
          /\ local'[r].base = o /\ raced \subseteq raced'
          /\ \A u \in Decisions : InLoop(u) /\ local[u].base = o => o \in raced'
          /\ ~ InLoop(r)
      BY <1>4, <2>2, DecideFacts DEF InLoop
    <3>2. \/ pc'[r] \in {"read", "write"} /\ plans' = plans
          \/ pc'[r] = "commit" /\ Settle(r, o, "declined")
          \/ pc'[r] = "commit" /\ Settle(r, o, AcceptedStatus(r, o))
      BY <1>4, <2>2, DecideFacts
    <3> HIDE DEF o
    <3>3. AcceptedStatus(r, o) \in {"accepted", "partially_accepted", "declined"}
      BY AcceptedStatuses
    <3>4. \A q \in Makers \ {o} : plans'[q] = plans[q]
      BY <1>4, <3>1, <3>2, <3>3, SettleFacts DEF TInv
    <3>5. InLoop(r)' => plans' = plans
      BY <3>2 DEF InLoop
    <3>6. LoopsInv'
      BY <1>1, <1>2, <3>1, <3>4, <3>5 DEF LoopsInv, InLoop, Terminal, Undecided
    <3> QED
      BY <3>1, <3>4, <3>6 DEF Undecided
  <2>3. CASE GetTask(r) \/ UpdateTask(r)
    <3> DEFINE o == local[r].base
    <3>1. /\ r \in Requests /\ o \in Makers /\ local[r].plan \in Runs
          /\ local'[r].base = o /\ raced' = raced /\ InLoop(r)
      BY <1>4, <2>3, LoopFacts
    <3>2. \/ pc'[r] \in {"read", "write"} /\ plans' = plans
          \/ pc'[r] = "commit" /\ Settle(r, o, AcceptedStatus(r, o))
      BY <1>4, <2>3, LoopFacts
    <3> HIDE DEF o
    <3>3. AcceptedStatus(r, o) \in {"accepted", "partially_accepted", "declined"}
      BY AcceptedStatuses
    <3>4. \A q \in Makers \ {o} : plans'[q] = plans[q]
      BY <1>4, <3>1, <3>2, <3>3, SettleFacts DEF TInv
    <3>5. InLoop(r)' => plans' = plans
      BY <3>2 DEF InLoop
    <3>6. \A d \in Decisions \ {r} : InLoop(d) /\ local[d].base = o => o \in raced
      BY <1>4, <3>1 DEF LoopsInv, o
    <3>7. Terminal(o) => o \in raced
      BY <1>4, <3>1 DEF LoopsInv, o
    <3>8. o = local[r].base
      BY DEF o
    <3>9. LoopsInv'
      <4>1. \A d \in Decisions : InLoop(d)' => InLoop(d) /\ local'[d].base = local[d].base
        BY <1>1, <3>1, <3>8 DEF InLoop
      <4>2. ASSUME NEW d \in Decisions, InLoop(d)', Terminal(local'[d].base), local[d].base # o
            PROVE  local'[d].base \in raced'
        BY <4>1, <4>2, <3>1 DEF LoopsInv
      <4>3. ASSUME NEW d \in Decisions, InLoop(d)', plans'[local'[d].base].status \in {"accepted", "declined"}
            PROVE  local'[d].base \in raced'
        BY <1>2, <4>1, <4>2, <4>3, <3>1, <3>4, <3>5, <3>6, <3>7 DEF Terminal
      <4> QED
        BY <4>1, <4>3, <3>1 DEF LoopsInv, InLoop, Terminal
    <3> QED
      BY <3>1, <3>4, <3>7, <3>9
  <2> QED
    BY <1>4, <2>1, <2>2, <2>3, DecisionCases
<1> QED
  BY <1>3, <1>4 DEF Requests

LEMMA LoopsNext ==
    TInv /\ LoopsInv /\ [Next]_vars
      => /\ LoopsInv'
         /\ \A o \in Makers \ raced' : Terminal(o) => plans'[o].status = plans[o].status
<1> SUFFICES ASSUME TInv, LoopsInv, [Next]_vars
             PROVE  /\ LoopsInv'
                    /\ \A o \in Makers \ raced' :
                          Terminal(o) => plans'[o].status = plans[o].status
  OBVIOUS
<1>1. CASE UNCHANGED vars
  BY <1>1 DEF vars, history, LoopsInv, InLoop, Terminal
<1>2. CASE Restart
  <2>1. \A d \in Decisions : pc'[d] = IF Live(d) THEN "failed" ELSE pc[d]
    BY <1>2 DEF Restart, Requests
  <2>2. UNCHANGED <<plans, local, raced>>
    BY <1>2 DEF Restart, history
  <2> QED
    BY <2>1, <2>2 DEF LoopsInv, InLoop, Terminal, Live, Claimed
<1>3. ASSUME NEW t \in Task, DeleteTask(t)
      PROVE  /\ LoopsInv'
             /\ \A o \in Makers \ raced' : Terminal(o) => plans'[o].status = plans[o].status
  BY <1>3 DEF DeleteTask, history, LoopsInv, InLoop, Terminal
<1> QED
  BY <1>1, <1>2, <1>3, NextIsOfOne, LoopsAction

\* ... a plan that was accepted or declined stays so, unless decisions raced for it, ...
THEOREM DecidedPlansStay == Spec => TerminalStays
<1>1. TInv /\ LoopsInv /\ [Next]_vars
        => [\A o \in Makers \ raced' : Terminal(o) => plans'[o].status = plans[o].status]_vars
  BY LoopsNext
<1> QED
  BY <1>1, TypeInit, TypeNext, LoopsInit, LoopsNext, PTL DEF Spec, TerminalStays

---------------------------------------------------------------------------
(* Accepted plans *)

\* The task of position i is one that d has written or passed over.
Handled(d, i) == i \in local[d].wrote \cup local[d].skipped

AppliedInv ==
    /\ \A d \in Decisions : InLoop(d) =>
          \A i \in AcceptedPositions(d, local[d].base) :
             i \in local[d].rest \/ Handled(d, i)
    /\ \A d \in Decisions : pc[d] = "committed" => {d} \X local[d].wrote \subseteq applied
    /\ \A o \in Makers : plans[o].status = "accepted" =>
          LET d == settled[o]
          IN  /\ d \in Decisions
              /\ pc[d] \in {"commit", "committed", "failed"}
              /\ local[d].accepted \subseteq Slots(o) =>
                    \A i \in DOMAIN plans[o].slots : Handled(d, i)

\* A plan has as many slot_ids as it has positions.
LEMMA SlotsAreCounted ==
    ASSUME TypeOK, NEW o \in Makers
    PROVE  IsFiniteSet(Slots(o)) /\ Cardinality(Slots(o)) <= Len(plans[o].slots)
<1> DEFINE n == Len(plans[o].slots)
           f == [i \in 1 .. n |-> <<o, i>>]
<1>1. plans[o].slots \in Seq(Task \cup {None})
  BY DEF TypeOK, Plan
<1>2. n \in Nat /\ DOMAIN plans[o].slots = 1 .. n
  BY <1>1
<1>3. f \in Surjection(1 .. n, Slots(o))
  <2>1. Slots(o) = {o} \X (1 .. n)
    BY <1>2 DEF Slots
  <2> HIDE DEF n
  <2>2. f \in [1 .. n -> Slots(o)]
    BY <2>1
  <2>3. ASSUME NEW s \in Slots(o) PROVE \E i \in 1 .. n : f[i] = s
    <3>1. s[2] \in 1 .. n /\ s = <<o, s[2]>>
      BY <2>1, <2>3
    <3>2. f[s[2]] = s
      BY <3>1
    <3> QED
      BY <3>1, <3>2
  <2> QED
    BY <2>2, <2>3 DEF Surjection
<1> HIDE DEF f, n
<1>4. IsFiniteSet(1 .. n) /\ Cardinality(1 .. n) = n
  BY <1>2, FS_Interval
<1>5. n = Len(plans[o].slots)
  BY DEF n
<1> QED
  BY <1>3, <1>4, <1>5, FS_Surjection

\* A decision that makes a plan accepted, and whose slots are slots of the plan,
\* goes through all positions of it.
LEMMA AcceptedAreAll ==
    ASSUME TypeOK, NEW d \in Decisions, NEW o \in Makers,
           AcceptedStatus(d, o) = "accepted", local[d].accepted \subseteq Slots(o)
    PROVE  AcceptedPositions(d, o) = DOMAIN plans[o].slots
<1>1. ToAccept(d, o) \subseteq Slots(o)
  BY DEF ToAccept
<1>2. Cardinality(ToAccept(d, o)) = Len(plans[o].slots)
  BY DEF AcceptedStatus
<1>3. IsFiniteSet(Slots(o)) /\ Cardinality(Slots(o)) <= Len(plans[o].slots)
  BY SlotsAreCounted
<1>4. /\ Cardinality(ToAccept(d, o)) <= Cardinality(Slots(o))
      /\ Cardinality(Slots(o)) = Cardinality(ToAccept(d, o)) => Slots(o) = ToAccept(d, o)
  BY <1>1, <1>3, FS_Subset
<1>5. Cardinality(Slots(o)) \in Nat /\ Len(plans[o].slots) \in Nat
  BY <1>3, FS_CardinalityType DEF TypeOK, Plan
<1>6. ToAccept(d, o) = Slots(o)
  BY <1>2, <1>3, <1>4, <1>5
<1>7. \A i \in DOMAIN plans[o].slots : <<o, i>> \in Slots(o)
  BY DEF Slots
<1> QED
  BY <1>6, <1>7 DEF AcceptedPositions

LEMMA AppliedInit == Init => AppliedInv
  BY DEF Init, AppliedInv, InLoop, Requests, NoPlan

\* What AppliedInv says of the plan objects, ...
ObjectApplied(o) ==
    plans[o].status = "accepted" =>
        LET d == settled[o]
        IN  /\ d \in Decisions
            /\ pc[d] \in {"commit", "committed", "failed"}
            /\ local[d].accepted \subseteq Slots(o) =>
                  \A i \in DOMAIN plans[o].slots : Handled(d, i)

\* ... is not disturbed while the object and the decision that settled it stay.
LEMMA AppliedStays ==
    ASSUME TypeOK, NEW o \in Makers, ObjectApplied(o), plans'[o] = plans[o],
           settled'[o] = settled[o],
           settled[o] \in Decisions /\ pc[settled[o]] \in {"commit", "committed", "failed"} =>
                /\ pc'[settled[o]] \in {"commit", "committed", "failed"}
                /\ local'[settled[o]] = local[settled[o]]
    PROVE  ObjectApplied(o)'
  BY DEF ObjectApplied, Slots, Handled

\* A decision that settles the plan it has gone through applies it.
LEMMA SettledIsApplied ==
    ASSUME TypeOK, NEW d \in Decisions, NEW o \in Makers, local[d].plan \in Runs,
           Settle(d, o, AcceptedStatus(d, o)), pc'[d] = "commit",
           local'[d].accepted = local[d].accepted,
           \A i \in AcceptedPositions(d, o) :
              i \in local'[d].wrote \cup local'[d].skipped
    PROVE  ObjectApplied(o)'
<1>1. AcceptedStatus(d, o) \in {"accepted", "partially_accepted", "declined"}
  BY AcceptedStatuses
<1>2. /\ plans'[o].slots = plans[o].slots /\ plans'[o].status = AcceptedStatus(d, o)
      /\ settled'[o] = d
  BY <1>1, SettleFacts
<1>3. ASSUME AcceptedStatus(d, o) = "accepted", local'[d].accepted \subseteq Slots(o)'
      PROVE  \A i \in DOMAIN plans'[o].slots : Handled(d, i)'
  <2>1. Slots(o)' = Slots(o)
    BY <1>2 DEF Slots
  <2> QED
    BY <1>2, <1>3, <2>1, AcceptedAreAll DEF Handled
<1> QED
  BY <1>2, <1>3 DEF ObjectApplied

LEMMA AppliedUnchanged ==
    ASSUME AppliedInv, UNCHANGED <<plans, pc, local, applied, settled>>
    PROVE  AppliedInv'
<1>1. \A o \in Makers : Slots(o)' = Slots(o)
  BY DEF Slots
<1>2. \A d \in Decisions : AcceptedPositions(d, local[d].base)'
                           = AcceptedPositions(d, local[d].base)
  BY DEF AcceptedPositions, ToAccept, Slots
<1> QED
  BY <1>1, <1>2 DEF AppliedInv, InLoop, Handled

LEMMA AppliedAction ==
    ASSUME TInv, AppliedInv, NEW r \in Requests, ActionOf(r)
    PROVE  AppliedInv'
<1>1. \A d \in Decisions \ {r} : pc'[d] = pc[d] /\ local'[d] = local[d]
  BY OthersStay DEF Requests
<1>2. \A d \in Decisions : InLoop(d) => local[d].base \in Makers /\ Made(local[d].base)
  BY DEF TInv, TypeOK, RefersToMade, InLoop
<1>3. \A o \in Makers : ObjectApplied(o)
  BY DEF AppliedInv, ObjectApplied
<1>4. \A d \in Decisions \ {r}, o \in Makers :
        plans'[o].slots = plans[o].slots => AcceptedPositions(d, o)' = AcceptedPositions(d, o)
  BY <1>1 DEF AcceptedPositions, ToAccept, Slots
<1> DEFINE LoopApplied(d) ==
             InLoop(d) => \A i \in AcceptedPositions(d, local[d].base) :
                             i \in local[d].rest \/ Handled(d, i)
<1>5. ASSUME \A o \in Makers : Made(o) => plans'[o].slots = plans[o].slots,
             NEW d \in Decisions \ {r}
      PROVE  LoopApplied(d)'
  <2>1. local'[d] = local[d] /\ pc'[d] = pc[d]
    BY <1>1
  <2>2. InLoop(d) => plans'[local[d].base].slots = plans[local[d].base].slots
    BY <1>2, <1>5
  <2>3. InLoop(d) => AcceptedPositions(d, local[d].base)' = AcceptedPositions(d, local[d].base)
    BY <2>1, <2>2 DEF AcceptedPositions, ToAccept, Slots
  <2>4. LoopApplied(d)
    BY DEF AppliedInv
  <2> QED
    BY <2>1, <2>2, <2>3, <2>4 DEF InLoop, Handled
<1>6. CASE r \in Makers
  <2>1. r \notin Decisions
    BY <1>6, PlannerServiceAssumption
  <2>2. CASE Install(r)
    <3>1. settled' = settled /\ applied' = applied
      BY <2>2 DEF Install
    <3>2. ~ Made(r) /\ plans'[r].status = "ready" /\ \A o \in Makers \ {r} : plans'[o] = plans[o]
      BY <1>6, <2>2, InstallFacts DEF Made
    <3>3. \A d \in Decisions : LoopApplied(d)'
      BY <1>5, <2>1, <3>2
    <3>4. \A o \in Makers : ObjectApplied(o)'
      <4>1. ObjectApplied(r)'
        BY <3>2 DEF ObjectApplied
      <4>2. ASSUME NEW o \in Makers \ {r} PROVE ObjectApplied(o)'
        BY <1>1, <1>3, <2>1, <3>1, <3>2, AppliedStays DEF TInv
      <4> QED
        BY <4>1, <4>2
    <3> QED
      BY <1>1, <2>1, <3>1, <3>3, <3>4 DEF AppliedInv, ObjectApplied
  <2>3. CASE QuietMaker(r)
    <3>1. plans' = plans /\ settled' = settled /\ applied' = applied
      BY <2>3 DEF QuietMaker
    <3>2. \A d \in Decisions : LoopApplied(d)'
      BY <1>5, <2>1, <3>1
    <3>3. \A o \in Makers : ObjectApplied(o)'
      BY <1>1, <1>3, <2>1, <3>1, AppliedStays DEF TInv
    <3> QED
      BY <1>1, <2>1, <3>1, <3>2, <3>3 DEF AppliedInv, ObjectApplied
  <2> QED
    BY <1>6, <2>2, <2>3, MakerCases
<1>7. CASE r \in Decisions
  <2>1. CASE QuietDecision(r)
    <3>1. plans' = plans /\ settled' = settled
      BY <2>1 DEF QuietDecision
    <3>2. ~ InLoop(r)' /\ \A d \in Decisions \ {r} : LoopApplied(d)'
      BY <1>5, <2>1, <3>1 DEF InLoop, QuietDecision
    <3>3. \A o \in Makers : ObjectApplied(o)'
      <4>1. pc[r] \in {"commit", "committed", "failed"} =>
              pc'[r] \in {"commit", "committed", "failed"} /\ local'[r] = local[r]
        BY <2>1 DEF QuietDecision
      <4> QED
        BY <1>1, <1>3, <3>1, <4>1, AppliedStays DEF TInv
    <3>4. \A d \in Decisions : pc'[d] = "committed" => {d} \X local'[d].wrote \subseteq applied'
      BY <1>1, <2>1 DEF QuietDecision, AppliedInv
    <3> QED
      BY <3>2, <3>3, <3>4 DEF AppliedInv, ObjectApplied
  <2>2. CASE Decide(r)
    <3>0. PICK o \in Makers : o = store[local[r].plan]
      BY <1>7, <2>2, DecideFacts
    <3>1. /\ pc[r] = "claim" /\ o \in Makers /\ local[r].plan \in Runs
          /\ local'[r].accepted = local[r].accepted /\ local'[r].base = o
          /\ local'[r].rest = AcceptedPositions(r, o) /\ applied' = applied
      BY <1>7, <2>2, <3>0, DecideFacts
    <3>2. \/ pc'[r] \in {"read", "write"} /\ UNCHANGED <<plans, settled>>
          \/ pc'[r] = "commit" /\ Settle(r, o, "declined")
          \/ /\ pc'[r] = "commit" /\ local'[r].rest = {}
             /\ Settle(r, o, AcceptedStatus(r, o))
      BY <1>7, <2>2, <3>0, DecideFacts
    <3>3. AcceptedStatus(r, o) \in {"accepted", "partially_accepted", "declined"}
      BY AcceptedStatuses
    <3>4. /\ \A q \in Makers \ {o} : plans'[q] = plans[q] /\ settled'[q] = settled[q]
          /\ \A q \in Makers : plans'[q].slots = plans[q].slots
      BY <1>7, <3>1, <3>2, <3>3, SettleFacts DEF TInv
    <3>5. LoopApplied(r)'
      BY <3>1, <3>4 DEF AcceptedPositions, ToAccept, Slots
    <3>6. \A d \in Decisions : LoopApplied(d)'
      BY <1>5, <3>4, <3>5
    <3>7. ObjectApplied(o)'
      <4>1. CASE pc'[r] \in {"read", "write"} /\ UNCHANGED <<plans, settled>>
        BY <1>1, <1>3, <3>1, <4>1, AppliedStays DEF TInv
      <4>2. CASE Settle(r, o, "declined")
        BY <1>7, <3>1, <4>2, SettleFacts DEF TInv, ObjectApplied
      <4>3. CASE /\ pc'[r] = "commit" /\ local'[r].rest = {}
                 /\ Settle(r, o, AcceptedStatus(r, o))
        BY <1>7, <3>1, <4>3, SettledIsApplied DEF TInv
      <4> QED
        BY <3>2, <4>1, <4>2, <4>3
    <3>8. \A q \in Makers \ {o} : ObjectApplied(q)'
      BY <1>1, <1>3, <3>1, <3>4, AppliedStays DEF TInv
    <3>9. pc'[r] # "committed"
      BY <3>2
    <3> QED
      BY <1>1, <3>1, <3>6, <3>7, <3>8, <3>9 DEF AppliedInv, ObjectApplied
  <2>3. CASE GetTask(r) \/ UpdateTask(r)
    <3>0. PICK o \in Makers : o = local[r].base
      BY <1>7, <2>3, LoopFacts
    <3>1. /\ InLoop(r) /\ o \in Makers /\ local[r].plan \in Runs
          /\ local'[r].accepted = local[r].accepted /\ local'[r].base = o
          /\ applied' = applied
          /\ local[r].wrote \subseteq local'[r].wrote
          /\ local[r].skipped \subseteq local'[r].skipped
          /\ \A i \in local[r].rest \ local'[r].rest :
                 i \in local'[r].wrote \cup local'[r].skipped
      BY <1>7, <2>3, <3>0, LoopFacts
    <3>2. \/ pc'[r] \in {"read", "write"} /\ UNCHANGED <<plans, settled>>
          \/ /\ pc'[r] = "commit" /\ local'[r].rest = {}
             /\ Settle(r, o, AcceptedStatus(r, o))
      BY <1>7, <2>3, <3>0, LoopFacts
    <3>3. \A i \in AcceptedPositions(r, o) : i \in local[r].rest \/ Handled(r, i)
      BY <1>7, <3>0, <3>1 DEF AppliedInv
    <3>4. \A i \in AcceptedPositions(r, o) :
            \/ i \in local'[r].rest
            \/ i \in local'[r].wrote \cup local'[r].skipped
      BY <3>1, <3>3 DEF Handled
    <3>5. AcceptedStatus(r, o) \in {"accepted", "partially_accepted", "declined"}
      BY AcceptedStatuses
    <3>6. /\ \A q \in Makers \ {o} : plans'[q] = plans[q] /\ settled'[q] = settled[q]
          /\ \A q \in Makers : plans'[q].slots = plans[q].slots
      BY <1>7, <3>1, <3>2, <3>5, SettleFacts DEF TInv
    <3>7. LoopApplied(r)'
      <4>1. AcceptedPositions(r, o)' = AcceptedPositions(r, o)
        BY <3>1, <3>6 DEF AcceptedPositions, ToAccept, Slots
      <4> QED
        BY <3>1, <3>4, <3>6, <4>1 DEF Handled
    <3>8. \A d \in Decisions : LoopApplied(d)'
      BY <1>5, <3>6, <3>7
    <3>9. ObjectApplied(o)'
      <4>1. CASE pc'[r] \in {"read", "write"} /\ UNCHANGED <<plans, settled>>
        BY <1>1, <1>3, <3>1, <4>1, AppliedStays DEF TInv, InLoop
      <4>2. CASE /\ pc'[r] = "commit" /\ local'[r].rest = {}
                 /\ Settle(r, o, AcceptedStatus(r, o))
        BY <1>7, <3>1, <3>4, <4>2, SettledIsApplied DEF TInv
      <4> QED
        BY <3>2, <4>1, <4>2
    <3>10. \A q \in Makers \ {o} : ObjectApplied(q)'
      BY <1>1, <1>3, <3>1, <3>6, AppliedStays DEF TInv, InLoop
    <3>11. pc'[r] # "committed"
      BY <3>2
    <3> QED
      BY <1>1, <3>1, <3>8, <3>10, <3>9, <3>11 DEF AppliedInv, ObjectApplied
  <2> QED
    BY <1>7, <2>1, <2>2, <2>3, DecisionCases
<1> QED
  BY <1>6, <1>7 DEF Requests

LEMMA AppliedNext == TInv /\ AppliedInv /\ [Next]_vars => AppliedInv'
<1> SUFFICES ASSUME TInv, AppliedInv, [Next]_vars PROVE AppliedInv'
  OBVIOUS
<1>1. CASE UNCHANGED vars
  <2>1. UNCHANGED <<plans, pc, local, applied, settled>>
    BY <1>1 DEF vars, history
  <2> QED
    BY <2>1, AppliedUnchanged
<1>2. CASE Restart
  <2>1. \A d \in Decisions : pc'[d] = IF Live(d) THEN "failed" ELSE pc[d]
    BY <1>2 DEF Restart, Requests
  <2>2. UNCHANGED <<plans, local, applied, settled>>
    BY <1>2 DEF Restart, history
  <2>3. \A d \in Decisions : ~ InLoop(d)' /\ (pc'[d] = "committed" => pc[d] = "committed")
    BY <2>1 DEF InLoop, Live, Claimed
  <2>4. \A d \in Decisions : pc[d] \in {"commit", "committed", "failed"}
                              => pc'[d] \in {"commit", "committed", "failed"}
    BY <2>1
  <2> QED
    BY <2>2, <2>3, <2>4 DEF AppliedInv, Slots, Handled
<1>3. ASSUME NEW t \in Task, DeleteTask(t) PROVE AppliedInv'
  <2>1. UNCHANGED <<plans, pc, local, applied, settled>>
    BY <1>3 DEF DeleteTask, history
  <2> QED
    BY <2>1, AppliedUnchanged
<1> QED
  BY <1>1, <1>2, <1>3, NextIsOfOne, AppliedAction

\* ... the tasks of an accepted plan were written and committed, unless the commit
\* is to come or failed, or other slots were accepted, ...
THEOREM AcceptedPlansAreApplied == Spec => []AcceptedIsApplied
<1>1. TInv /\ AppliedInv => AcceptedIsApplied
  <2> SUFFICES ASSUME TInv, AppliedInv, NEW o \in Makers, plans[o].status = "accepted",
                      pc[settled[o]] \notin {"commit", "failed"},
                      local[settled[o]].accepted \subseteq Slots(o),
                      NEW i \in DOMAIN plans[o].slots
               PROVE  <<settled[o], i>> \in applied \/ i \in local[settled[o]].skipped
    BY DEF AcceptedIsApplied
  <2>1. Handled(settled[o], i) /\ pc[settled[o]] = "committed" /\ settled[o] \in Decisions
    BY DEF AppliedInv
  <2>2. {settled[o]} \X local[settled[o]].wrote \subseteq applied
    BY <2>1 DEF AppliedInv
  <2> QED
    BY <2>1, <2>2 DEF Handled
<1> QED
  BY <1>1, TypeInit, TypeNext, AppliedInit, AppliedNext, PTL DEF Spec

---------------------------------------------------------------------------
(* Histories *)

\* A run or replan in flight: a run has nothing to replace, a replan has read
\* the plan that it is to replace; and a decision in its loop works on a
\* version of its plan.
FlightInv ==
    /\ \A r \in Makers : pc[r] = "idle" => local[r] = Blank
    /\ \A p \in Runs : pc[p] \in {"idle", "claim", "ai"} =>
          store[p] = None /\ installed[p] = {} /\ logged[p] = 0
    /\ \A r \in Runs : Live(r) =>
          /\ local[r].plan = r /\ local[r].seen = None
          /\ pc[r] = "ai" => local[r].base = None
    /\ \A r \in Replans : Live(r) => local[r].seen \in installed[local[r].plan]
    /\ \A d \in Decisions : InLoop(d) => local[d].base \in installed[local[d].plan]
    /\ \A p, q \in Runs : \A o \in installed[p] : o \in installed[q] => p = q

\* Of a plan that requests have not overlapped on, everyone at work on it works
\* on the version that is stored.
CurrentInv ==
    /\ \A r, u \in Replans :
          r # u /\ Live(r) /\ Live(u) /\ local[r].plan = local[u].plan
             => local[r].plan \in overlapped
    /\ \A r \in Replans : Live(r) /\ local[r].plan \notin overlapped =>
          /\ local[r].seen = store[local[r].plan]
          /\ pc[r] = "ai" => local[r].base = store[local[r].plan]
    /\ \A d \in Decisions : InLoop(d) /\ local[d].plan \notin overlapped =>
          local[d].base = store[local[d].plan]

\* The stored version is the newest, and its history is complete.
NewestInv ==
    \A p \in Runs \ overlapped :
        /\ store[p] # None =>
              /\ plans[store[p]].history = logged[p]
              /\ \A o \in installed[p] \ {store[p]} :
                    plans[o].version < plans[store[p]].version
        /\ \A o, q \in installed[p] : o # q => plans[o].version # plans[q].version

HistoryInv == FlightInv /\ CurrentInv /\ NewestInv

LEMMA HistoryInit == Init => HistoryInv
  BY PlannerServiceAssumption
  DEF Init, HistoryInv, FlightInv, CurrentInv, NewestInv, Live, Claimed, InLoop, Requests, Makers

\* HistoryInv speaks of requests in flight and of what is stored only.
LEMMA HistoryUnchanged ==
    ASSUME HistoryInv, UNCHANGED <<store, plans, pc, local, logged, installed, overlapped>>
    PROVE  HistoryInv'
  BY DEF HistoryInv, FlightInv, CurrentInv, NewestInv, Live, Claimed, InLoop

LEMMA HistoryRestart ==
    ASSUME TInv, HistoryInv, Restart
    PROVE  HistoryInv'
<1>1. /\ \A p \in Runs : store'[p] = None
      /\ UNCHANGED <<plans, local, logged, installed, overlapped>>
      /\ \A r \in Requests : pc'[r] = IF Live(r) THEN "failed" ELSE pc[r]
  BY DEF Restart, history
<1>2. \A r \in Requests : ~ Live(r)' /\ (pc'[r] \in {"idle", "claim", "ai"} => pc'[r] = pc[r])
  BY <1>1 DEF Live, Claimed
<1>3. \A d \in Decisions : ~ InLoop(d)'
  BY <1>2 DEF Live, Claimed, InLoop, Requests
<1>4. Runs \subseteq Requests /\ Replans \subseteq Requests /\ Makers \subseteq Requests
  BY DEF Requests, Makers
<1>5. FlightInv'
  BY <1>1, <1>2, <1>3, <1>4 DEF HistoryInv, FlightInv
<1>6. CurrentInv'
  BY <1>2, <1>3, <1>4 DEF CurrentInv
<1>7. NewestInv'
  BY <1>1 DEF HistoryInv, NewestInv
<1> QED
  BY <1>5, <1>6, <1>7 DEF HistoryInv

\* A plan that is settled gets its entry in the stored version, unless requests
\* have overlapped on it.
LEMMA SettleNewest ==
    ASSUME TInv, HistoryInv, NEW d \in Decisions, NEW o \in Makers, local[d].plan \in Runs,
           NEW status \in {"accepted", "partially_accepted", "declined"},
           Settle(d, o, status), o \in installed[local[d].plan],
           local[d].plan \notin overlapped => o = store[local[d].plan],
           UNCHANGED <<store, installed, overlapped>>
    PROVE  /\ NewestInv'
           /\ \A p \in Runs : installed[p] = {} => logged'[p] = logged[p]
<1> DEFINE p == local[d].plan
<1>1. /\ \A q \in Makers : plans'[q].version = plans[q].version
      /\ \A q \in Makers \ {o} : plans'[q] = plans[q]
      /\ \A q \in Runs \ {p} : logged'[q] = logged[q]
      /\ plans'[o].history = plans[o].history + 1
      /\ logged'[p] = logged[p] + 1
  BY SettleFacts DEF TInv
<1>2. \A q \in Runs : installed[q] \subseteq Makers /\ (store[q] # None => store[q] \in installed[q])
  BY DEF TInv, TypeOK, RefersToMade
<1>3. ASSUME NEW q \in Runs \ overlapped
      PROVE  /\ store[q] # None =>
                   /\ plans'[store[q]].history = logged'[q]
                   /\ \A x \in installed[q] \ {store[q]} :
                         plans'[x].version < plans'[store[q]].version
             /\ \A x, y \in installed[q] : x # y => plans'[x].version # plans'[y].version
  <2>1. /\ store[q] # None =>
              /\ plans[store[q]].history = logged[q]
              /\ \A x \in installed[q] \ {store[q]} :
                    plans[x].version < plans[store[q]].version
        /\ \A x, y \in installed[q] : x # y => plans[x].version # plans[y].version
    BY DEF HistoryInv, NewestInv
  <2>2. CASE q = p
    BY <1>1, <1>2, <2>1, <2>2
  <2>3. CASE q # p
    <3>1. store[q] # None => store[q] # o
      BY <1>2, <2>3 DEF HistoryInv, FlightInv
    <3> QED
      BY <1>1, <1>2, <2>1, <2>3, <3>1
  <2> QED
    BY <2>2, <2>3
<1> QED
  BY <1>1, <1>3 DEF NewestInv

\* A step of a decision keeps what HistoryInv says of the requests in flight.
LEMMA HistoryOfDecision ==
    ASSUME TInv, HistoryInv, NEW r \in Decisions,
           \A u \in Requests \ {r} : pc'[u] = pc[u] /\ local'[u] = local[u],
           UNCHANGED <<store, installed, overlapped>>,
           \A p \in Runs : installed[p] = {} => logged'[p] = logged[p],
           InLoop(r)' => /\ local'[r].base \in installed[local'[r].plan]
                         /\ local'[r].plan \notin overlapped =>
                               local'[r].base = store[local'[r].plan],
           NewestInv'
    PROVE  HistoryInv'
<1>1. \A u \in Makers : u \in Requests \ {r}
  BY PlannerServiceAssumption DEF Requests
<1>2. \A u \in Makers : pc'[u] = pc[u] /\ local'[u] = local[u] /\ (Live(u)' <=> Live(u))
  BY <1>1 DEF Live, Claimed
<1>3. Runs \subseteq Makers /\ Replans \subseteq Makers
  BY DEF Makers
<1>4. \A d \in Decisions \ {r} : local'[d] = local[d] /\ (InLoop(d)' <=> InLoop(d))
  BY DEF InLoop, Requests
<1>5. FlightInv'
  BY <1>2, <1>3, <1>4 DEF HistoryInv, FlightInv
<1>6. CurrentInv'
  BY <1>2, <1>3, <1>4 DEF HistoryInv, CurrentInv
<1> QED
  BY <1>5, <1>6 DEF HistoryInv

LEMMA HistoryDecision ==
    ASSUME TInv, HistoryInv, NEW r \in Decisions, ActionOf(r)
    PROVE  HistoryInv'
<1>0. /\ r \in Requests
      /\ \A u \in Requests \ {r} : pc'[u] = pc[u] /\ local'[u] = local[u]
  BY OthersStay DEF Requests
<1>1. CASE QuietDecision(r)
  <2>1. UNCHANGED <<store, plans, logged, installed, overlapped>> /\ ~ InLoop(r)'
    BY <1>1 DEF QuietDecision, InLoop
  <2>2. NewestInv'
    BY <2>1 DEF HistoryInv, NewestInv
  <2> QED
    BY <1>0, <2>1, <2>2, HistoryOfDecision
<1>2. CASE Decide(r) \/ GetTask(r) \/ UpdateTask(r)
  <2>1. PICK o \in Makers : o = IF Decide(r) THEN store[local[r].plan] ELSE local[r].base
    BY <1>2, DecideFacts, LoopFacts
  <2>2. /\ local[r].plan \in Runs /\ o \in installed[local[r].plan]
        /\ local[r].plan \notin overlapped => o = store[local[r].plan]
        /\ local'[r].plan = local[r].plan /\ local'[r].base = o
        /\ UNCHANGED <<store, installed, overlapped>>
    <3>1. CASE Decide(r)
      <4>1. o # None
        BY PlannerServiceAssumption DEF Requests
      <4> QED
        BY <2>1, <3>1, <4>1, DecideFacts DEF TInv, RefersToMade
    <3>2. CASE ~ Decide(r)
      BY <1>2, <2>1, <3>2, LoopFacts DEF HistoryInv, FlightInv, CurrentInv
    <3> QED
      BY <3>1, <3>2
  <2>3. \/ UNCHANGED <<plans, logged>>
        \/ \E status \in {"accepted", "partially_accepted", "declined"} : Settle(r, o, status)
    BY <1>2, <2>1, DecideFacts, LoopFacts, AcceptedStatuses
  <2>4. NewestInv' /\ \A p \in Runs : installed[p] = {} => logged'[p] = logged[p]
    <3>1. CASE UNCHANGED <<plans, logged>>
      BY <2>2, <3>1 DEF HistoryInv, NewestInv
    <3>2. CASE \E status \in {"accepted", "partially_accepted", "declined"} :
                 Settle(r, o, status)
      BY <2>2, <3>2, SettleNewest
    <3> QED
      BY <2>3, <3>1, <3>2
  <2> QED
    BY <1>0, <2>2, <2>4, HistoryOfDecision
<1> QED
  BY <1>1, <1>2, DecisionCases

\* What a run or replan does before it installs a plan: it ends, or it goes on.
MakerStep(r) ==
    \/ /\ pc[r] \in {"idle", "claim"} /\ pc'[r] = "done" /\ overlapped' = overlapped
    \/ /\ r \in Runs /\ pc[r] = "idle" /\ pc'[r] = "claim" /\ overlapped' = overlapped
       /\ local'[r].plan = r /\ local'[r].seen = local[r].seen
    \/ /\ r \in Replans /\ pc[r] = "idle" /\ pc'[r] = "claim"
       /\ local'[r].plan \in Runs /\ store[local'[r].plan] # None
       /\ local'[r].seen = store[local'[r].plan]
       /\ overlapped' = IF Replanning(local'[r].plan) = {} THEN overlapped
                        ELSE overlapped \cup {local'[r].plan}
    \/ /\ pc[r] = "claim" /\ pc'[r] = "ai" /\ overlapped' = overlapped
       /\ local'[r].plan = local[r].plan /\ local'[r].seen = local[r].seen
       /\ local'[r].base = store[local[r].plan]

LEMMA MakerSteps ==
    ASSUME TInv, NEW r \in Makers, ActionOf(r), ~ Install(r)
    PROVE  MakerStep(r) /\ QuietMaker(r)
<1> SUFFICES MakerStep(r)
  BY MakerCases
<1>1. /\ pc \in [Requests -> {"idle", "claim", "ai", "read", "write", "commit",
                              "committed", "done", "failed"}]
      /\ local \in [Requests -> Local] /\ r \in Requests /\ r \notin Decisions
  BY PlannerServiceAssumption DEF TInv, TypeOK, Requests
<1>2. CASE TurnAway(r) \/ Duplicate(r)
  BY <1>1, <1>2 DEF TurnAway, Duplicate, Leave, MakerStep, history
<1>3. CASE r \in Runs /\ BeginRun(r)
  <2>1. local'[r].plan = r /\ local'[r].seen = local[r].seen
    BY <1>1, <1>3 DEF BeginRun, Local
  <2> QED
    BY <1>1, <1>3, <2>1 DEF BeginRun, MakerStep, history
<1>4. CASE r \in Replans /\ BeginReplan(r)
  <2>1. PICK p \in Runs :
          IF store[p] = None
          THEN /\ pc' = [pc EXCEPT ![r] = "done"]
               /\ UNCHANGED <<local, overlapped>>
          ELSE /\ pc' = [pc EXCEPT ![r] = "claim"]
               /\ local' = [local EXCEPT ![r].plan = p, ![r].seen = store[p]]
               /\ overlapped' = IF Replanning(p) = {} THEN overlapped
                                ELSE overlapped \cup {p}
    BY <1>4 DEF BeginReplan
  <2>2. CASE store[p] = None
    BY <1>1, <1>4, <2>1, <2>2 DEF BeginReplan, MakerStep
  <2>3. CASE store[p] # None
    <3>1. local'[r].plan = p /\ local'[r].seen = store[p]
      BY <1>1, <2>1, <2>3 DEF Local
    <3> QED
      BY <1>1, <1>4, <2>1, <2>3, <3>1 DEF BeginReplan, MakerStep
  <2> QED
    BY <2>2, <2>3
<1>5. CASE Enqueue(r)
  <2>1. /\ local'[r].plan = local[r].plan /\ local'[r].seen = local[r].seen
        /\ local'[r].base = store[local[r].plan]
    BY <1>1, <1>5 DEF Enqueue, Local
  <2> QED
    BY <1>1, <1>5, <2>1 DEF Enqueue, MakerStep, history
<1> QED
  BY <1>1, <1>2, <1>3, <1>4, <1>5 DEF ActionOf, Step

LEMMA HistoryMaker ==
    ASSUME TInv, HistoryInv, NEW r \in Makers, ActionOf(r), ~ Install(r)
    PROVE  HistoryInv'
<1>1. MakerStep(r) /\ QuietMaker(r)
  BY MakerSteps
<1>2. /\ UNCHANGED <<store, plans, logged, installed>> /\ overlapped \subseteq overlapped'
  BY <1>1 DEF QuietMaker
<1>3. /\ r \in Requests /\ Runs \subseteq Makers /\ Replans \subseteq Makers
      /\ Makers \subseteq Requests /\ Runs \cap Replans = {}
  BY PlannerServiceAssumption DEF Requests, Makers
<1>4. \A u \in Requests \ {r} : pc'[u] = pc[u] /\ local'[u] = local[u] /\ (Live(u)' <=> Live(u))
  BY <1>3, OthersStay DEF Live, Claimed
<1>5. \A d \in Decisions : local'[d] = local[d] /\ (InLoop(d)' <=> InLoop(d))
  BY <1>4, PlannerServiceAssumption DEF InLoop, Requests
<1>6. Live(r)' <=> pc'[r] \in {"claim", "ai"}
  BY <1>1, <1>3 DEF Live, Claimed, MakerStep
<1>7. pc[r] \in {"idle", "claim"} /\ pc'[r] # "idle" /\ (pc[r] = "claim" => Live(r))
  BY <1>1 DEF Live, MakerStep
<1>8. FlightInv'
  <2>1. \A u \in Makers : pc'[u] = "idle" => local'[u] = Blank
    BY <1>3, <1>4, <1>7 DEF HistoryInv, FlightInv
  <2>2. \A p \in Runs : pc'[p] \in {"idle", "claim", "ai"} =>
          store[p] = None /\ installed[p] = {} /\ logged[p] = 0
    BY <1>3, <1>4, <1>7 DEF HistoryInv, FlightInv
  <2>3. ASSUME NEW u \in Runs, Live(u)'
        PROVE  /\ local'[u].plan = u /\ local'[u].seen = None
               /\ pc'[u] = "ai" => local'[u].base = None
    <3>1. CASE u # r
      BY <1>3, <1>4, <2>3, <3>1 DEF HistoryInv, FlightInv
    <3>2. CASE u = r
      BY <1>1, <1>3, <1>6, <1>7, <2>3, <3>2 DEF HistoryInv, FlightInv, MakerStep, Blank
    <3> QED
      BY <3>1, <3>2
  <2>4. ASSUME NEW u \in Replans, Live(u)'
        PROVE  local'[u].seen \in installed[local'[u].plan]
    <3>1. CASE u # r
      BY <1>3, <1>4, <2>4, <3>1 DEF HistoryInv, FlightInv
    <3>2. CASE u = r
      BY <1>1, <1>3, <1>6, <1>7, <2>4, <3>2
      DEF HistoryInv, FlightInv, MakerStep, TInv, RefersToMade
    <3> QED
      BY <3>1, <3>2
  <2> QED
    BY <1>2, <1>5, <2>1, <2>2, <2>3, <2>4 DEF HistoryInv, FlightInv
<1>9. CurrentInv'
  <2>1. ASSUME NEW u \in Replans, NEW v \in Replans, u # v, Live(u)', Live(v)',
               local'[u].plan = local'[v].plan
        PROVE  local'[u].plan \in overlapped'
    <3>1. ASSUME NEW x \in Replans \ {r}, r \in Replans, Live(x), Live(r)',
                 local[x].plan = local'[r].plan
          PROVE  local[x].plan \in overlapped'
      <4>1. CASE pc[r] = "idle"
        <5>1. x \in Replanning(local'[r].plan)
          BY <3>1 DEF Replanning
        <5> QED
          BY <1>1, <1>3, <1>6, <3>1, <4>1, <5>1 DEF MakerStep
      <4>2. CASE pc[r] = "claim"
        <5>1. local'[r].plan = local[r].plan
          BY <1>1, <1>6, <3>1, <4>2 DEF MakerStep
        <5> QED
          BY <1>2, <1>7, <3>1, <4>2, <5>1 DEF HistoryInv, CurrentInv
      <4> QED
        BY <1>7, <4>1, <4>2
    <3>2. CASE u # r /\ v # r
      BY <1>2, <1>3, <1>4, <2>1, <3>2 DEF HistoryInv, CurrentInv
    <3>3. CASE u = r \/ v = r
      BY <1>3, <1>4, <2>1, <3>1, <3>3
    <3> QED
      BY <3>2, <3>3
  <2>2. ASSUME NEW u \in Replans, Live(u)', local'[u].plan \notin overlapped'
        PROVE  /\ local'[u].seen = store[local'[u].plan]
               /\ pc'[u] = "ai" => local'[u].base = store[local'[u].plan]
    <3>1. CASE u # r
      BY <1>2, <1>3, <1>4, <2>2, <3>1 DEF HistoryInv, CurrentInv
    <3>2. CASE u = r
      BY <1>1, <1>2, <1>3, <1>6, <1>7, <2>2, <3>2 DEF HistoryInv, CurrentInv, MakerStep
    <3> QED
      BY <3>1, <3>2
  <2> QED
    BY <1>2, <1>5, <2>1, <2>2 DEF HistoryInv, CurrentInv
<1>10. NewestInv'
  BY <1>2 DEF HistoryInv, NewestInv
<1> QED
  BY <1>8, <1>9, <1>10 DEF HistoryInv

\* What is stored in a plan is newer than all before and has the whole history,
\* unless requests have overlapped on the plan.
LEMMA InstalledIsNewest ==
    ASSUME TInv, HistoryInv, NEW r \in Makers, Install(r), local[r].plan \notin overlapped
    PROVE  /\ plans'[r].history = logged[local[r].plan] + 1
           /\ \A o \in installed[local[r].plan] : plans[o].version < plans'[r].version
<1> DEFINE p == local[r].plan
<1>1. /\ p \in Runs /\ pc[r] = "ai" /\ Live(r)
      /\ plans'[r].version = PreviousVersion(r) + 1
      /\ plans'[r].history = CopiedHistory(r) + 1
  BY InstallFacts DEF Live, Claimed
<1>2. installed[p] \subseteq Makers /\ logged[p] \in Nat
      /\ \A o \in Makers : plans[o].version \in Nat
  BY <1>1 DEF TInv, TypeOK, Plan
<1>3. CASE r \in Runs
  BY <1>1, <1>3 DEF HistoryInv, FlightInv, CopiedHistory
<1>4. CASE r \in Replans
  <2>1. local[r].seen \in installed[p] /\ local[r].seen = store[p] /\ local[r].base = store[p]
    BY <1>1, <1>4 DEF HistoryInv, FlightInv, CurrentInv
  <2>2. store[p] # None /\ store[p] \in Makers
    BY <1>2, <2>1, PlannerServiceAssumption DEF Requests
  <2>3. /\ plans[store[p]].history = logged[p]
        /\ \A o \in installed[p] \ {store[p]} : plans[o].version < plans[store[p]].version
    BY <1>1, <2>2 DEF HistoryInv, NewestInv
  <2>4. PreviousVersion(r) = plans[store[p]].version /\ CopiedHistory(r) = plans[store[p]].history
    BY <2>1, <2>2 DEF PreviousVersion, CopiedHistory
  <2>5. ASSUME NEW o \in installed[p]
        PROVE  plans[o].version < plans[store[p]].version + 1
    BY <1>2, <2>2, <2>3
  <2> QED
    BY <1>1, <2>3, <2>4, <2>5
<1> QED
  BY <1>3, <1>4 DEF Makers

LEMMA HistoryInstall ==
    ASSUME TInv, HistoryInv, NEW r \in Makers, Install(r)
    PROVE  HistoryInv'
<1>0. PICK p \in Runs : p = local[r].plan
  BY InstallFacts
<1>1. /\ store' = [store EXCEPT ![p] = r]
      /\ logged' = [logged EXCEPT ![p] = @ + 1]
      /\ installed' = [installed EXCEPT ![p] = @ \cup {r}]
      /\ overlapped' = IF \E d \in Decisions : InLoop(d) /\ local[d].base = store[p]
                       THEN overlapped \cup {p} ELSE overlapped
  BY <1>0 DEF Install, InLoop
<1>2. /\ store'[p] = r /\ logged'[p] = logged[p] + 1 /\ installed'[p] = installed[p] \cup {r}
      /\ \A q \in Runs \ {p} : store'[q] = store[q] /\ logged'[q] = logged[q]
                              /\ installed'[q] = installed[q]
      /\ overlapped \subseteq overlapped'
  BY <1>1 DEF TInv, TypeOK
<1>3. /\ r \in Requests /\ Runs \subseteq Makers /\ Replans \subseteq Makers
      /\ Makers \subseteq Requests /\ Decisions \subseteq Requests
      /\ Runs \cap Replans = {} /\ r \notin Decisions /\ None \notin Makers
  BY PlannerServiceAssumption DEF Requests, Makers
<1>4. \A u \in Requests \ {r} : pc'[u] = pc[u] /\ local'[u] = local[u] /\ (Live(u)' <=> Live(u))
                                /\ (InLoop(u)' <=> InLoop(u))
  BY InstallFacts DEF Live, Claimed, InLoop
<1>5. pc[r] = "ai" /\ Live(r) /\ pc'[r] = "done" /\ ~ Live(r)'
      /\ \A o \in Makers \ {r} : plans'[o] = plans[o]
  BY InstallFacts DEF Live, Claimed
<1>6. \A q \in Runs : installed[q] \subseteq Makers \ {r}
  BY <1>5 DEF TInv, TypeOK, RefersToMade, Made
<1>7. ASSUME NEW q \in Runs, pc[q] \in {"idle", "claim", "ai"}, q # r
      PROVE  q # p
  <2>1. installed[q] = {}
    BY <1>7 DEF HistoryInv, FlightInv
  <2>2. CASE r \in Runs
    BY <1>0, <1>5, <1>7, <2>2 DEF HistoryInv, FlightInv
  <2>3. CASE r \in Replans
    BY <1>0, <1>5, <2>1, <2>3 DEF HistoryInv, FlightInv
  <2> QED
    BY <2>2, <2>3 DEF Makers
<1>8. FlightInv'
  <2>1. \A u \in Makers : pc'[u] = "idle" => local'[u] = Blank
    BY <1>3, <1>4, <1>5 DEF HistoryInv, FlightInv
  <2>2. \A q \in Runs : pc'[q] \in {"idle", "claim", "ai"} =>
          store'[q] = None /\ installed'[q] = {} /\ logged'[q] = 0
    BY <1>2, <1>3, <1>4, <1>5, <1>7 DEF HistoryInv, FlightInv
  <2>3. \A u \in Runs : Live(u)' =>
          /\ local'[u].plan = u /\ local'[u].seen = None
          /\ pc'[u] = "ai" => local'[u].base = None
    BY <1>3, <1>4, <1>5 DEF HistoryInv, FlightInv
  <2>4. \A q \in Runs : installed[q] \subseteq installed'[q]
    BY <1>2
  <2>5. ASSUME NEW u \in Replans, Live(u)' PROVE local'[u].seen \in installed'[local'[u].plan]
    <3>1. u # r /\ Live(u) /\ local'[u] = local[u]
      BY <1>3, <1>4, <1>5, <2>5
    <3>2. local[u].plan \in Runs /\ local[u].seen \in installed[local[u].plan]
      BY <1>3, <3>1 DEF HistoryInv, FlightInv, TInv, TypeOK
    <3> QED
      BY <2>4, <3>1, <3>2
  <2>6. ASSUME NEW d \in Decisions, InLoop(d)'
        PROVE  local'[d].base \in installed'[local'[d].plan]
    <3>1. InLoop(d) /\ local'[d] = local[d]
      BY <1>3, <1>4, <2>6
    <3>2. local[d].plan \in Runs /\ local[d].base \in installed[local[d].plan]
      BY <1>3, <3>1 DEF HistoryInv, FlightInv, TInv, TypeOK, InLoop, Live, Claimed
    <3> QED
      BY <2>4, <3>1, <3>2
  <2>7. \A q, s \in Runs : \A o \in installed'[q] : o \in installed'[s] => q = s
    BY <1>2, <1>6 DEF HistoryInv, FlightInv
  <2> QED
    BY <2>1, <2>2, <2>3, <2>5, <2>6, <2>7 DEF FlightInv
<1>9. CurrentInv'
  <2>1. \A u, v \in Replans :
          u # v /\ Live(u)' /\ Live(v)' /\ local'[u].plan = local'[v].plan
            => local'[u].plan \in overlapped'
    BY <1>2, <1>3, <1>4, <1>5 DEF HistoryInv, CurrentInv
  <2>2. ASSUME NEW u \in Replans, Live(u)', local'[u].plan \notin overlapped'
        PROVE  /\ local'[u].seen = store'[local'[u].plan]
               /\ pc'[u] = "ai" => local'[u].base = store'[local'[u].plan]
    <3>1. u # r /\ Live(u) /\ local'[u] = local[u] /\ pc'[u] = pc[u]
      BY <1>3, <1>4, <1>5, <2>2
    <3>2. local[u].plan \in Runs /\ local[u].plan \notin overlapped
      BY <1>2, <1>3, <2>2, <3>1 DEF TInv, TypeOK
    <3>3. local[u].plan # p
      <4>1. CASE r \in Replans
        BY <1>0, <1>5, <3>1, <3>2, <4>1 DEF HistoryInv, CurrentInv
      <4>2. CASE r \in Runs
        BY <1>0, <1>5, <3>1, <4>2 DEF HistoryInv, FlightInv
      <4> QED
        BY <4>1, <4>2 DEF Makers
    <3> QED
      BY <1>2, <3>1, <3>2, <3>3 DEF HistoryInv, CurrentInv
  <2>3. ASSUME NEW d \in Decisions, InLoop(d)', local'[d].plan \notin overlapped'
        PROVE  local'[d].base = store'[local'[d].plan]
    <3>1. InLoop(d) /\ local'[d] = local[d]
      BY <1>3, <1>4, <2>3
    <3>2. local[d].plan \in Runs /\ local[d].plan \notin overlapped
      BY <1>2, <1>3, <2>3, <3>1 DEF TInv, TypeOK, InLoop, Live, Claimed
    <3>3. local[d].base = store[local[d].plan]
      BY <3>1, <3>2 DEF HistoryInv, CurrentInv
    <3>4. local[d].plan # p
      BY <1>1, <2>3, <3>1, <3>3
    <3> QED
      BY <1>2, <3>1, <3>2, <3>3, <3>4
  <2> QED
    BY <2>1, <2>2, <2>3 DEF CurrentInv
<1>10. NewestInv'
  <2>1. ASSUME NEW q \in Runs \ overlapped'
        PROVE  /\ store'[q] # None =>
                     /\ plans'[store'[q]].history = logged'[q]
                     /\ \A o \in installed'[q] \ {store'[q]} :
                           plans'[o].version < plans'[store'[q]].version
               /\ \A x, y \in installed'[q] : x # y => plans'[x].version # plans'[y].version
    <3>1. q \in Runs \ overlapped
      BY <1>2, <2>1
    <3>2. /\ store[q] # None =>
                /\ plans[store[q]].history = logged[q]
                /\ \A o \in installed[q] \ {store[q]} :
                      plans[o].version < plans[store[q]].version
          /\ \A x, y \in installed[q] : x # y => plans[x].version # plans[y].version
      BY <3>1 DEF HistoryInv, NewestInv
    <3>3. CASE q # p
      <4>1. store[q] # None => store[q] \in installed[q]
        BY <2>1 DEF TInv, RefersToMade
      <4> QED
        BY <1>2, <1>5, <1>6, <2>1, <3>2, <3>3, <4>1
    <3>4. CASE q = p
      <4>1. /\ plans'[r].history = logged[p] + 1
            /\ \A o \in installed[p] : plans[o].version < plans'[r].version
        BY <1>0, <3>1, <3>4, InstalledIsNewest
      <4>2. \A o \in installed[p] : plans[o].version \in Nat
        BY <1>6 DEF TInv, TypeOK, Plan
      <4>3. plans'[r].version \in Nat
        BY InstallFacts DEF Plan
      <4>4. \A o \in installed[p] : plans'[o].version < plans'[r].version
                                   /\ plans'[o].version # plans'[r].version
        BY <1>5, <1>6, <4>1, <4>2, <4>3
      <4>5. \A x, y \in installed[p] : x # y => plans'[x].version # plans'[y].version
        BY <1>5, <1>6, <3>2, <3>4
      <4> QED
        BY <1>2, <3>4, <4>1, <4>4, <4>5
    <3> QED
      BY <3>3, <3>4
  <2> QED
    BY <2>1 DEF NewestInv
<1> QED
  BY <1>8, <1>9, <1>10 DEF HistoryInv

LEMMA HistoryNext == TInv /\ HistoryInv /\ [Next]_vars => HistoryInv'
<1> SUFFICES ASSUME TInv, HistoryInv, [Next]_vars PROVE HistoryInv'
  OBVIOUS
<1>1. CASE UNCHANGED vars
  BY <1>1, HistoryUnchanged DEF vars, history
<1>2. ASSUME NEW t \in Task, DeleteTask(t) PROVE HistoryInv'
  BY <1>2, HistoryUnchanged DEF DeleteTask, history
<1>3. ASSUME NEW r \in Requests, ActionOf(r) PROVE HistoryInv'
  BY <1>3, HistoryMaker, HistoryInstall, HistoryDecision DEF Requests
<1> QED
  BY <1>1, <1>2, <1>3, HistoryRestart, NextIsOfOne

\* ... and the history of a stored plan has an entry for every version and decision,
\* and its versions differ, unless requests overlapped on it.
THEOREM HistoriesAreComplete == Spec => []HistoryIsComplete
<1>1. HistoryInv => HistoryIsComplete
  BY DEF HistoryInv, NewestInv, HistoryIsComplete
<1> QED
  BY <1>1, TypeInit, TypeNext, HistoryInit, HistoryNext, PTL DEF Spec
============================================================================
