------------------------- MODULE AuthTokens_proofs -------------------------
(***************************************************************************)
(* What TLAPS proves about AuthTokens, for any number of requests and      *)
(* devices and any lifetimes of the tokens.                                *)
(***************************************************************************)
EXTENDS AuthTokens, TLAPS

\* A row belongs to a request that has answered.
RowsAreDone == \A r \in issued : pc[r] = "done"

TInv == TypeOK /\ RowsAreDone

LEMMA TypeInit == Init => TInv
<1> SUFFICES ASSUME Init PROVE TInv
  OBVIOUS
<1>1. now \in 0 .. MaxNow /\ failures \in 0 .. MaxFailures
  BY AuthTokensAssumption DEF Init
<1>2. account \in BOOLEAN
  BY DEF Init
<1>3. \A r \in Requests : pc[r] = "idle" /\ r \notin issued
  BY DEF Init
<1>4. /\ seen \in [Requests -> SUBSET issued]
      /\ met \in [Refreshes -> SUBSET Refreshes]
      /\ earlier \in [Logouts -> SUBSET Requests]
  BY DEF Init
<1>5. /\ pc \in [Requests -> {"idle", "begun", "found", "saving"} \cup Ended]
      /\ device \in [Requests -> Devices \cup {None}]
      /\ token \in [Requests -> RefreshToken \cup {None}]
      /\ minted \in [Requests -> RefreshToken \cup {None}]
  BY DEF Init
<1>6. issued \subseteq Requests \ Logouts /\ revoked \subseteq issued
  BY DEF Init
<1>7. Refreshes \subseteq Requests
  BY DEF Requests
<1>8. RowsAreDone
  BY DEF Init, RowsAreDone
<1> QED
  BY <1>1, <1>2, <1>3, <1>4, <1>5, <1>6, <1>7, <1>8 DEF TInv, TypeOK, Live

\* What clients were given are refresh tokens.
LEMMA GivenAreTokens ==
    ASSUME TInv, NEW t \in Given
    PROVE  t \in RefreshToken
  BY DEF TInv, TypeOK, RowsAreDone, Given, Requests

\* The type invariant is preserved: by the arrival of a request, ...
LEMMA TypeBegin ==
    ASSUME TInv, NEW r \in Requests, NEW d \in DevicesOf[r], Begin(r, d),
           \/ BeginSignupOrLogin(r, d)
           \/ \E t \in Given : BeginRefresh(r, d, t)
           \/ BeginLogout(r, d)
    PROVE  TInv'
<1>1. d \in Devices
  BY AuthTokensAssumption
<1>2. /\ pc' = [pc EXCEPT ![r] = "begun"]
      /\ device' = [device EXCEPT ![r] = d]
      /\ pc[r] = "idle"
      /\ UNCHANGED <<now, account, issued, revoked, seen, minted, failures>>
  BY DEF Begin, Goto
<1>3. RowsAreDone' /\ r \notin issued
  BY <1>2 DEF TInv, TypeOK, RowsAreDone
<1>4. CASE BeginSignupOrLogin(r, d)
  <2>1. UNCHANGED <<token, met, earlier>> /\ r \notin Refreshes
    BY <1>4, AuthTokensAssumption DEF BeginSignupOrLogin, history
  <2> QED
    BY <1>1, <1>2, <1>3, <2>1 DEF TInv, TypeOK, Live, Ended
<1>5. CASE \E t \in Given : BeginRefresh(r, d, t)
  <2>1. PICK t \in Given : BeginRefresh(r, d, t)
    BY <1>5
  <2>2. t \in RefreshToken
    BY GivenAreTokens
  <2>3. /\ token' = [token EXCEPT ![r] = t]
        /\ met' \in [Refreshes -> SUBSET Refreshes]
        /\ earlier' = earlier
    BY <2>1 DEF BeginRefresh, TInv, TypeOK
  <2> QED
    BY <1>1, <1>2, <1>3, <2>2, <2>3 DEF TInv, TypeOK, Live, Ended
<1>6. CASE BeginLogout(r, d)
  <2>1. /\ earlier' = [earlier EXCEPT ![r] = issued]
        /\ UNCHANGED <<token, met>>
        /\ r \notin Refreshes
    BY <1>6, AuthTokensAssumption DEF BeginLogout
  <2>2. earlier' \in [Logouts -> SUBSET Requests]
    BY <2>1 DEF TInv, TypeOK
  <2> QED
    BY <1>1, <1>2, <1>3, <2>1, <2>2 DEF TInv, TypeOK, Live, Ended
<1> QED
  BY <1>4, <1>5, <1>6

\* ... by its refusal or loss, ...
LEMMA TypeLeave ==
    ASSUME TInv, NEW r \in Requests, Live(r), NEW how \in {"refused", "failed"},
           Leave(r, how), failures' \in 0 .. MaxFailures,
           UNCHANGED <<now, account, issued, revoked, history>>
    PROVE  TInv'
<1>1. r \notin issued
  BY DEF TInv, RowsAreDone, Live, Ended
<1> QED
  BY <1>1 DEF TInv, TypeOK, RowsAreDone, Leave, Goto, Live, Ended, history

\* ... by the making of its token, ...
LEMMA TypeIssue ==
    ASSUME TInv, NEW r \in Requests \ Logouts, Live(r), IssueTokens(r),
           UNCHANGED <<now, account, issued, revoked, device, token, seen,
                       failures, history>>
    PROVE  TInv'
<1>1. r \notin issued
  BY DEF TInv, RowsAreDone, Live, Ended
<1>2. [device |-> device[r], second |-> now] \in RefreshToken
  BY AuthTokensAssumption DEF TInv, TypeOK, RefreshToken
<1> QED
  BY <1>1, <1>2 DEF TInv, TypeOK, RowsAreDone, IssueTokens, Goto, Live, Ended, history

\* ... and by every other step of it.
LEMMA TypeStep ==
    ASSUME TInv, NEW r \in Requests, Step(r)
    PROVE  TInv'
<1>1. CASE Lookup(r)
  <2>1. Live(r)
    BY <1>1 DEF Lookup, Live, Ended
  <2>2. CASE Leave(r, "refused") /\ UNCHANGED <<now, account, issued, revoked, failures, history>>
    BY <2>1, <2>2, TypeLeave DEF TInv, TypeOK
  <2>3. CASE /\ Goto(r, "found")
             /\ UNCHANGED <<device, token, seen, minted>>
             /\ UNCHANGED <<now, account, issued, revoked, failures, history>>
    <3>1. r \notin issued
      BY <2>1 DEF TInv, RowsAreDone, Live, Ended
    <3> QED
      BY <2>1, <2>3, <3>1 DEF TInv, TypeOK, RowsAreDone, Goto, Live, Ended, history
  <2> QED
    BY <1>1, <2>2, <2>3 DEF Lookup
<1>2. CASE CreateUser(r)
  <2>1. Live(r) /\ r \in Requests \ Logouts
    BY <1>2, AuthTokensAssumption DEF CreateUser, Live, Ended
  <2>2. CASE Leave(r, "refused") /\ UNCHANGED <<now, account, issued, revoked, failures, history>>
    BY <2>1, <2>2, TypeLeave DEF TInv, TypeOK
  <2>3. CASE /\ IssueTokens(r) /\ UNCHANGED <<device, token, seen>>
             /\ UNCHANGED <<now, account, issued, revoked, failures, history>>
    BY <2>1, <2>3, TypeIssue
  <2> QED
    BY <1>2, <2>2, <2>3 DEF CreateUser
<1>3. CASE Login(r)
  <2>1. Live(r) /\ r \in Requests \ Logouts
    BY <1>3, AuthTokensAssumption DEF Login, Live, Ended
  <2>2. CASE Leave(r, "refused") /\ UNCHANGED <<now, account, issued, revoked, failures, history>>
    BY <2>1, <2>2, TypeLeave DEF TInv, TypeOK
  <2>3. CASE /\ IssueTokens(r) /\ UNCHANGED <<device, token, seen>>
             /\ UNCHANGED <<now, account, issued, revoked, failures, history>>
    BY <2>1, <2>3, TypeIssue
  <2> QED
    BY <1>3, <2>2, <2>3 DEF Login
<1>4. CASE FindToken(r)
  <2>1. Live(r)
    BY <1>4 DEF FindToken, Live, Ended
  <2>2. CASE Leave(r, "refused") /\ UNCHANGED <<now, account, issued, revoked, failures, history>>
    BY <2>1, <2>2, TypeLeave DEF TInv, TypeOK
  <2>3. CASE Leave(r, "failed") /\ UNCHANGED <<now, account, issued, revoked, failures, history>>
    BY <2>1, <2>3, TypeLeave DEF TInv, TypeOK
  <2>4. CASE /\ \E x \in issued : seen' = [seen EXCEPT ![r] = {x}]
             /\ Goto(r, "found")
             /\ UNCHANGED <<device, token, minted>>
             /\ UNCHANGED <<now, account, issued, revoked, failures, history>>
    <3>1. r \notin issued
      BY <2>1 DEF TInv, RowsAreDone, Live, Ended
    <3> QED
      BY <2>1, <2>4, <3>1 DEF TInv, TypeOK, RowsAreDone, Goto, Live, Ended, history
  <2> QED
    BY <1>4, <2>2, <2>3, <2>4 DEF FindToken, FindValid
<1>5. CASE Rotate(r)
  <2>1. Live(r) /\ r \in Requests \ Logouts
    BY <1>5, AuthTokensAssumption DEF Rotate, Live, Ended
  <2> QED
    BY <1>5, <2>1, TypeIssue DEF Rotate
<1>6. CASE FindDevice(r)
  <2>1. Live(r) /\ r \notin issued
    BY <1>6 DEF FindDevice, Live, Ended, TInv, RowsAreDone
  <2> QED
    BY <1>6, <2>1 DEF FindDevice, TInv, TypeOK, RowsAreDone, Goto, Live, Ended, history
<1>7. CASE RevokeDevice(r)
  <2>1. Live(r) /\ r \notin issued
    BY <1>7 DEF RevokeDevice, Live, Ended, TInv, RowsAreDone
  <2> QED
    BY <1>7, <2>1 DEF RevokeDevice, TInv, TypeOK, RowsAreDone, Goto, Live, Ended, history
<1>8. CASE Commit(r)
  <2>1. Live(r)
    BY <1>8 DEF Commit, Live, Ended
  <2>2. issued' \subseteq Requests \ Logouts /\ issued \subseteq issued'
    BY <1>8 DEF Commit, TInv, TypeOK
  <2>3. revoked' \subseteq issued' /\ seen' \in [Requests -> SUBSET issued']
    BY <1>8, <2>2 DEF Commit, TInv, TypeOK
  <2>4. account' \in BOOLEAN
    BY <1>8, Zenon DEF Commit
  <2>5. RowsAreDone'
    BY <1>8 DEF Commit, Goto, TInv, TypeOK, RowsAreDone
  <2> QED
    BY <1>8, <2>1, <2>2, <2>3, <2>4, <2>5 DEF Commit, TInv, TypeOK, Goto, Live, Ended, history
<1> QED
  BY <1>1, <1>2, <1>3, <1>4, <1>5, <1>6, <1>7, <1>8 DEF Step

LEMMA TypeNext == TInv /\ [Next]_vars => TInv'
<1> SUFFICES ASSUME TInv, [Next]_vars PROVE TInv'
  OBVIOUS
<1>1. CASE UNCHANGED vars
  BY <1>1 DEF TInv, TypeOK, RowsAreDone, Live, vars, request, history
<1>2. CASE Tick
  <2>1. now' \in 0 .. MaxNow
    BY <1>2, AuthTokensAssumption DEF Tick, TInv, TypeOK
  <2> QED
    BY <1>2, <2>1 DEF Tick, TInv, TypeOK, RowsAreDone, Live, request, history
<1>3. ASSUME NEW r \in Requests, NEW d \in DevicesOf[r],
             \/ BeginSignupOrLogin(r, d)
             \/ \E t \in Given : BeginRefresh(r, d, t)
             \/ BeginLogout(r, d)
      PROVE  TInv'
  <2>1. Begin(r, d)
    BY <1>3 DEF BeginSignupOrLogin, BeginRefresh, BeginLogout
  <2> QED
    BY <1>3, <2>1, TypeBegin
<1>4. ASSUME NEW r \in Requests, Step(r) PROVE TInv'
  BY <1>4, TypeStep
<1>5. ASSUME NEW r \in Requests, Fail(r) PROVE TInv'
  <2>1. failures' \in 0 .. MaxFailures
    BY <1>5, AuthTokensAssumption DEF Fail, TInv, TypeOK
  <2> QED
    BY <1>5, <2>1, TypeLeave DEF Fail
<1> QED
  BY <1>1, <1>2, <1>3, <1>4, <1>5 DEF Next

\* Every variable of the handlers keeps its type.
THEOREM TypeCorrect == Spec => []TypeOK
<1>1. TInv => TypeOK
  BY DEF TInv
<1> QED
  BY <1>1, TypeInit, TypeNext, PTL DEF Spec

---------------------------------------------------------------------------
(* What a step can do, in the terms the invariants below speak of *)

Still == UNCHANGED <<issued, revoked, request, history>>

Arrives(r) ==
    \E d \in DevicesOf[r] :
       \/ BeginSignupOrLogin(r, d)
       \/ \E t \in Given : BeginRefresh(r, d, t)
       \/ BeginLogout(r, d)

Quits(r) ==
    /\ Live(r)
    /\ \E how \in {"refused", "failed"} : Leave(r, how)
    /\ UNCHANGED <<issued, revoked, history>>

\* A refresh has found its row, or a sign-up none.
Finds(r) ==
    /\ r \in Signups \cup Refreshes
    /\ pc[r] = "begun"
    /\ Goto(r, "found")
    /\ r \in Refreshes =>
          /\ token[r].device = device[r]
          /\ \E x \in issued \ revoked :
                minted[x] = token[r] /\ seen' = [seen EXCEPT ![r] = {x}]
    /\ r \in Signups => UNCHANGED seen
    /\ UNCHANGED <<issued, revoked, device, token, minted, history>>

Saves(r) ==
    /\ pc[r] \in {"begun", "found"}
    /\ r \in Refreshes \cup Logouts => pc[r] = "found"
    /\ Goto(r, "saving")
    /\ \E t : minted' = [minted EXCEPT ![r] = t]
    /\ UNCHANGED <<issued, revoked, device, token, seen, history>>

LEMMA Effects ==
    ASSUME TInv, [Next]_vars
    PROVE  \/ Still
           \/ \E r \in Requests : \/ Arrives(r) \/ Quits(r) \/ Finds(r)
                                  \/ FindDevice(r) \/ Saves(r) \/ Commit(r)
<1>1. CASE UNCHANGED vars \/ Tick
  BY <1>1 DEF Still, Tick, vars
<1>2. ASSUME NEW r \in Requests, NEW d \in DevicesOf[r],
             \/ BeginSignupOrLogin(r, d)
             \/ \E t \in Given : BeginRefresh(r, d, t)
             \/ BeginLogout(r, d)
      PROVE  Arrives(r)
  BY <1>2 DEF Arrives
<1>3. ASSUME NEW r \in Requests, Fail(r) PROVE Quits(r)
  BY <1>3 DEF Fail, Quits
<1>4. ASSUME NEW r \in Requests, Step(r)
      PROVE  \/ Quits(r) \/ Finds(r) \/ FindDevice(r) \/ Saves(r) \/ Commit(r)
  <2>1. ASSUME IssueTokens(r), pc[r] \in {"begun", "found"},
               r \in Refreshes \cup Logouts => pc[r] = "found",
               UNCHANGED <<issued, revoked, device, token, seen, history>>
        PROVE  Saves(r)
    BY <2>1 DEF Saves, IssueTokens
  <2>2. CASE Lookup(r)
    <3>1. r \notin Refreshes
      BY <2>2, AuthTokensAssumption DEF Lookup
    <3> QED
      BY <2>2, <3>1 DEF Lookup, Quits, Finds, Live, Ended
  <2>3. CASE CreateUser(r)
    <3>1. r \notin Refreshes \cup Logouts
      BY <2>3, AuthTokensAssumption DEF CreateUser
    <3> QED
      BY <2>1, <2>3, <3>1 DEF CreateUser, Quits, Live, Ended
  <2>4. CASE Login(r)
    <3>1. r \notin Refreshes \cup Logouts
      BY <2>4, AuthTokensAssumption DEF Login
    <3> QED
      BY <2>1, <2>4, <3>1 DEF Login, Quits, Live, Ended
  <2>5. CASE FindToken(r)
    <3>1. r \notin Signups
      BY <2>5, AuthTokensAssumption DEF FindToken
    <3> QED
      BY <2>5, <3>1 DEF FindToken, FindValid, Quits, Finds, Live, Ended
  <2>6. CASE Rotate(r)
    BY <2>1, <2>6 DEF Rotate
  <2>7. CASE FindDevice(r)
    BY <2>7
  <2>8. CASE RevokeDevice(r)
    <3>1. minted = [minted EXCEPT ![r] = minted[r]]
      BY DEF TInv, TypeOK
    <3> QED
      BY <2>8, <3>1 DEF RevokeDevice, Saves
  <2>9. CASE Commit(r)
    BY <2>9
  <2> QED
    BY <1>4, <2>2, <2>3, <2>4, <2>5, <2>6, <2>7, <2>8, <2>9 DEF Step
<1> QED
  BY <1>1, <1>2, <1>3, <1>4 DEF Next

---------------------------------------------------------------------------
(* A token is exchanged once *)

PastFind(r) == pc[r] \in {"found", "saving", "done"}

\* Two refreshes that run at the same time have met, and meeting is mutual.
Meetings ==
    \A r, u \in Refreshes :
        /\ r \in met[u] => u \in met[r]
        /\ r # u /\ Live(r) /\ Live(u) => u \in met[r]
        /\ pc[r] = "idle" => met[r] = {}

\* What a refresh has found are rows of its token.
FoundRows ==
    \A r \in Refreshes : PastFind(r) =>
        /\ seen[r] # {}
        /\ \A x \in seen[r] : x \in issued /\ minted[x] = token[r]

\* What a request that has answered found is revoked.
DoneRevoked == \A r \in Requests : pc[r] = "done" => seen[r] \subseteq revoked

\* A refresh finds no row that another one exchanged before it began.
Apart ==
    \A r, u \in Refreshes :
        r # u /\ PastFind(r) /\ pc[u] = "done" /\ u \notin met[r]
            => seen[r] \cap seen[u] = {}

EInv == TInv /\ Meetings /\ FoundRows /\ DoneRevoked /\ Apart

LEMMA EInvInit == Init => EInv
<1> SUFFICES ASSUME Init PROVE EInv
  OBVIOUS
<1>1. TInv
  BY TypeInit
<1>2. Refreshes \subseteq Requests
  BY DEF Requests
<1>3. \A r \in Requests : pc[r] = "idle"
  BY DEF Init
<1>4. \A r \in Refreshes : met[r] = {} /\ ~ PastFind(r) /\ ~ Live(r)
  BY <1>2, <1>3 DEF Init, PastFind, Live
<1> QED
  BY <1>1, <1>2, <1>3, <1>4 DEF EInv, Meetings, FoundRows, DoneRevoked, Apart

LEMMA MeetingsKept ==
    ASSUME EInv, [Next]_vars
    PROVE  Meetings'
<1> USE DEF EInv
<1>0. Refreshes \subseteq Requests
  BY DEF Requests
<1>1. CASE Still
  BY <1>1 DEF Still, Meetings, Live, request, history
<1>2. ASSUME NEW r \in Requests, Arrives(r) PROVE Meetings'
  <2>1. PICK d \in DevicesOf[r] :
           \/ BeginSignupOrLogin(r, d)
           \/ \E t \in Given : BeginRefresh(r, d, t)
           \/ BeginLogout(r, d)
    BY <1>2 DEF Arrives
  <2>2. pc[r] = "idle" /\ pc' = [pc EXCEPT ![r] = "begun"]
    BY <2>1 DEF BeginSignupOrLogin, BeginRefresh, BeginLogout, Begin, Goto
  <2>3. \A u \in Requests \ {r} : pc'[u] = pc[u] /\ (Live(u)' <=> Live(u))
    BY <2>2 DEF TInv, TypeOK, Live
  <2>4. CASE r \notin Refreshes
    <3>1. met' = met
      BY <2>1, <2>4 DEF BeginSignupOrLogin, BeginRefresh, BeginLogout, history
    <3> QED
      BY <1>0, <2>3, <2>4, <3>1 DEF Meetings
  <2>5. CASE r \in Refreshes
    <3>1. met' = [u \in Refreshes |->
                    IF u = r THEN {v \in Refreshes : Live(v)}
                    ELSE IF Live(u) THEN met[u] \cup {r} ELSE met[u]]
      BY <2>1, <2>5, AuthTokensAssumption
      DEF BeginSignupOrLogin, BeginRefresh, BeginLogout
    <3>2. ~ Live(r) /\ met[r] = {} /\ pc'[r] = "begun"
      BY <1>0, <2>2, <2>5 DEF Live, Meetings, TInv, TypeOK
    <3>3. met'[r] = {v \in Refreshes : Live(v)}
      BY <2>5, <3>1
    <3>4. \A u \in Refreshes \ {r} :
             met'[u] = IF Live(u) THEN met[u] \cup {r} ELSE met[u]
      BY <3>1
    <3>5. \A u \in Refreshes \ {r} : r \notin met[u]
      BY <2>5, <3>2 DEF Meetings
    <3>6. \A u, v \in Refreshes : u \in met'[v] => v \in met'[u]
      <4> SUFFICES ASSUME NEW u \in Refreshes, NEW v \in Refreshes, u \in met'[v]
                   PROVE  v \in met'[u]
        OBVIOUS
      <4>1. CASE u # r /\ v # r
        <5>1. u \in met[v]
          BY <3>4, <4>1
        <5>2. v \in met[u]
          BY <5>1 DEF Meetings
        <5> QED
          BY <3>4, <4>1, <5>2
      <4>2. CASE u = r /\ v # r
        BY <3>3, <3>4, <3>5, <4>2
      <4>3. CASE u # r /\ v = r
        BY <3>3, <3>4, <4>3
      <4> QED
        BY <4>1, <4>2, <4>3
    <3>7. \A u, v \in Refreshes : u # v /\ Live(u)' /\ Live(v)' => v \in met'[u]
      BY <1>0, <2>3, <2>5, <3>3, <3>4 DEF Meetings
    <3>8. \A u \in Refreshes : pc'[u] = "idle" => met'[u] = {}
      BY <1>0, <2>3, <2>5, <3>2, <3>4 DEF Meetings, Live
    <3> QED
      BY <3>6, <3>7, <3>8 DEF Meetings
  <2> QED
    BY <2>4, <2>5
<1>3. ASSUME NEW r \in Requests,
             Quits(r) \/ Finds(r) \/ FindDevice(r) \/ Saves(r) \/ Commit(r)
      PROVE  Meetings'
  <2>1. met' = met
    BY <1>3 DEF Quits, Finds, FindDevice, Saves, Commit, history
  <2>2. Live(r) /\ \E how : how # "idle" /\ pc' = [pc EXCEPT ![r] = how]
    BY <1>3 DEF Quits, Leave, Finds, FindDevice, Saves, Commit, Goto, Live, Ended
  <2>3. \A u \in Requests : /\ Live(u)' => Live(u)
                            /\ pc'[u] = "idle" => pc[u] = "idle"
    BY <2>2 DEF TInv, TypeOK, Live
  <2> QED
    BY <1>0, <2>1, <2>3 DEF Meetings
<1> QED
  BY <1>1, <1>2, <1>3, Effects

\* No row is ever unmade or given another token, no revocation undone.
LEMMA RowsStay ==
    ASSUME TInv, [Next]_vars
    PROVE  /\ issued \subseteq issued'
           /\ revoked \subseteq revoked'
           /\ \A x \in issued : minted'[x] = minted[x]
<1>1. \A r \in Requests : Live(r) \/ pc[r] = "idle" => r \notin issued
  BY DEF TInv, RowsAreDone, Live, Ended
<1>2. CASE Still
  BY <1>2 DEF Still, request
<1>3. ASSUME NEW r \in Requests, Arrives(r)
      PROVE  UNCHANGED <<issued, revoked, minted>>
  BY <1>3 DEF Arrives, BeginSignupOrLogin, BeginRefresh, BeginLogout, Begin
<1>4. ASSUME NEW r \in Requests,
             Quits(r) \/ Finds(r) \/ FindDevice(r) \/ Saves(r) \/ Commit(r)
      PROVE  /\ Live(r)
             /\ issued \subseteq issued' /\ revoked \subseteq revoked'
             /\ \E t : minted' = [minted EXCEPT ![r] = t]
  <2>1. minted = [minted EXCEPT ![r] = minted[r]]
    BY DEF TInv, TypeOK
  <2>2. CASE Quits(r)
    BY <2>2 DEF Quits, Leave
  <2>3. CASE Finds(r) \/ FindDevice(r)
    BY <2>1, <2>3 DEF Finds, FindDevice, Live, Ended
  <2>4. CASE Saves(r)
    BY <2>4 DEF Saves, Live, Ended
  <2>5. CASE Commit(r)
    BY <2>1, <2>5 DEF Commit, Live, Ended
  <2> QED
    BY <1>4, <2>2, <2>3, <2>4, <2>5
<1> QED
  BY <1>1, <1>2, <1>3, <1>4, Effects DEF TInv, TypeOK

\* A step of one request leaves the others alone.
LEMMA OthersStay ==
    ASSUME TInv, NEW r \in Requests,
           \/ Arrives(r) \/ Quits(r) \/ Finds(r)
           \/ FindDevice(r) \/ Saves(r) \/ Commit(r)
    PROVE  \A u \in Requests \ {r} :
              /\ pc'[u] = pc[u] /\ device'[u] = device[u]
              /\ token'[u] = token[u] /\ seen'[u] = seen[u]
<1>1. CASE Arrives(r)
  BY <1>1 DEF Arrives, BeginSignupOrLogin, BeginRefresh, BeginLogout, Begin, Goto,
              TInv, TypeOK
<1>2. CASE Quits(r)
  BY <1>2 DEF Quits, Leave, Goto, TInv, TypeOK
<1>3. CASE Finds(r)
  <2>1. seen' = seen \/ \E s : seen' = [seen EXCEPT ![r] = s]
    BY <1>3 DEF Finds
  <2> QED
    BY <1>3, <2>1 DEF Finds, Goto, TInv, TypeOK
<1>4. CASE FindDevice(r) \/ Saves(r) \/ Commit(r)
  BY <1>4 DEF FindDevice, Saves, Commit, Goto, TInv, TypeOK
<1> QED
  BY <1>1, <1>2, <1>3, <1>4

LEMMA FoundRowsKept ==
    ASSUME EInv, [Next]_vars
    PROVE  FoundRows'
<1> USE DEF EInv
<1>0. Refreshes \subseteq Requests
  BY DEF Requests
<1>1. CASE Still
  BY <1>1 DEF Still, FoundRows, PastFind, request
<1>2. ASSUME NEW r \in Requests,
             \/ Arrives(r) \/ Quits(r) \/ Finds(r)
             \/ FindDevice(r) \/ Saves(r) \/ Commit(r),
             NEW u \in Refreshes, PastFind(u)'
      PROVE  seen'[u] # {} /\ \A x \in seen'[u] : x \in issued' /\ minted'[x] = token'[u]
  <2>1. CASE u # r
    BY <1>0, <1>2, <2>1, OthersStay, RowsStay DEF FoundRows, PastFind
  <2>2. CASE u = r /\ Finds(r)
    <3>1. PICK x \in issued \ revoked :
             minted[x] = token[r] /\ seen' = [seen EXCEPT ![r] = {x}]
      BY <2>2 DEF Finds
    <3>2. UNCHANGED <<issued, token, minted>> /\ seen'[r] = {x}
      BY <2>2, <3>1 DEF Finds, TInv, TypeOK
    <3> QED
      BY <2>2, <3>1, <3>2
  <2>3. CASE u = r /\ (Saves(r) \/ Commit(r))
    <3>1. PastFind(r) /\ UNCHANGED <<token, seen>>
      BY <1>0, <2>3 DEF Saves, Commit, PastFind
    <3> QED
      BY <2>3, <3>1, RowsStay DEF FoundRows
  <2>4. CASE u = r /\ (Arrives(r) \/ Quits(r))
    <3>1. \E how \in {"begun", "refused", "failed"} : pc' = [pc EXCEPT ![r] = how]
      BY <2>4 DEF Arrives, BeginSignupOrLogin, BeginRefresh, BeginLogout, Begin,
                  Quits, Leave, Goto
    <3>2. ~ PastFind(r)'
      BY <3>1 DEF PastFind, TInv, TypeOK
    <3> QED
      BY <1>2, <2>4, <3>2
  <2>5. u = r => ~ FindDevice(r)
    BY AuthTokensAssumption DEF FindDevice
  <2> QED
    BY <1>2, <2>1, <2>2, <2>3, <2>4, <2>5
<1> QED
  BY <1>1, <1>2, Effects DEF FoundRows

LEMMA DoneRevokedKept ==
    ASSUME EInv, [Next]_vars
    PROVE  DoneRevoked'
<1> USE DEF EInv
<1>1. CASE Still
  BY <1>1 DEF Still, DoneRevoked, request
<1>2. ASSUME NEW r \in Requests,
             \/ Arrives(r) \/ Quits(r) \/ Finds(r)
             \/ FindDevice(r) \/ Saves(r) \/ Commit(r),
             NEW u \in Requests, pc'[u] = "done"
      PROVE  seen'[u] \subseteq revoked'
  <2>1. CASE u # r
    BY <1>2, <2>1, OthersStay, RowsStay DEF DoneRevoked
  <2>2. CASE u = r /\ Commit(r)
    BY <2>2 DEF Commit
  <2>3. CASE u = r /\ ~ Commit(r)
    <3>1. \E how : how # "done" /\ pc' = [pc EXCEPT ![r] = how]
      BY <1>2, <2>3 DEF Arrives, BeginSignupOrLogin, BeginRefresh, BeginLogout,
                        Begin, Quits, Leave, Finds, FindDevice, Saves, Goto
    <3> QED
      BY <1>2, <2>3, <3>1 DEF TInv, TypeOK
  <2> QED
    BY <2>1, <2>2, <2>3
<1> QED
  BY <1>1, <1>2, Effects DEF DoneRevoked

LEMMA ApartKept ==
    ASSUME EInv, [Next]_vars
    PROVE  Apart'
<1> USE DEF EInv
<1>0. Refreshes \subseteq Requests
  BY DEF Requests
<1>1. CASE Still
  BY <1>1 DEF Still, Apart, PastFind, request, history
<1>2. ASSUME NEW r \in Requests,
             \/ Arrives(r) \/ Quits(r) \/ Finds(r)
             \/ FindDevice(r) \/ Saves(r) \/ Commit(r),
             NEW v \in Refreshes, NEW u \in Refreshes,
             v # u, PastFind(v)', pc'[u] = "done", u \notin met'[v]
      PROVE  seen'[v] \cap seen'[u] = {}
  <2>1. CASE Commit(r)
    <3>1. UNCHANGED <<seen, met>> /\ pc' = [pc EXCEPT ![r] = "done"] /\ pc[r] = "saving"
      BY <2>1 DEF Commit, Goto, history
    <3>2. PastFind(v)
      BY <1>0, <1>2, <3>1 DEF PastFind, TInv, TypeOK
    <3>3. CASE u # r
      BY <1>0, <1>2, <3>1, <3>2, <3>3 DEF Apart, TInv, TypeOK
    <3>4. CASE u = r
      <4>1. Live(u) /\ PastFind(u) /\ v \notin met[u]
        BY <1>2, <3>1, <3>4 DEF Live, Ended, PastFind, Meetings
      <4>2. ~ Live(v)
        BY <1>2, <3>1, <4>1 DEF Meetings
      <4>3. pc[v] = "done"
        BY <3>2, <4>2 DEF Live, Ended, PastFind
      <4> QED
        BY <1>2, <3>1, <4>1, <4>3 DEF Apart
    <3> QED
      BY <3>3, <3>4
  <2>2. CASE ~ Commit(r)
    <3>1. /\ u # r
          /\ v = r => Finds(r) \/ Saves(r)
      <4>1. CASE \E how \in {"begun", "refused", "failed"} : pc' = [pc EXCEPT ![r] = how]
        BY <1>0, <1>2, <4>1 DEF PastFind, TInv, TypeOK
      <4>2. CASE Finds(r) \/ Saves(r) \/ FindDevice(r)
        <5>1. \E how \in {"found", "saving"} : pc' = [pc EXCEPT ![r] = how]
          BY <4>2 DEF Finds, Saves, FindDevice, Goto
        <5>2. FindDevice(r) => v # r
          BY AuthTokensAssumption DEF FindDevice
        <5> QED
          BY <1>0, <1>2, <4>2, <5>1, <5>2 DEF TInv, TypeOK
      <4> QED
        BY <1>2, <2>2, <4>1, <4>2
        DEF Arrives, BeginSignupOrLogin, BeginRefresh, BeginLogout, Begin,
            Quits, Leave, Goto
    <3>2. pc[u] = "done" /\ seen'[u] = seen[u]
      BY <1>0, <1>2, <3>1, OthersStay
    <3>3. u \notin met[v]
      <4>1. CASE Arrives(r) /\ r \in Refreshes
        <5>1. met' = [w \in Refreshes |->
                        IF w = r THEN {z \in Refreshes : Live(z)}
                        ELSE IF Live(w) THEN met[w] \cup {r} ELSE met[w]]
          BY <4>1, AuthTokensAssumption
          DEF Arrives, BeginSignupOrLogin, BeginRefresh, BeginLogout
        <5>2. v # r
          BY <1>0, <3>1, <4>1 DEF Finds, Saves, Arrives, BeginSignupOrLogin,
                            BeginRefresh, BeginLogout, Begin
        <5>3. met[v] \subseteq met'[v]
          BY <5>1, <5>2
        <5> QED
          BY <1>2, <5>3
      <4>2. CASE Arrives(r) /\ r \notin Refreshes
        <5>1. met' = met
          BY <4>2 DEF Arrives, BeginSignupOrLogin, BeginRefresh, BeginLogout, history
        <5> QED
          BY <1>2, <5>1
      <4>3. CASE ~ Arrives(r)
        <5>1. met' = met
          BY <1>2, <2>2, <4>3 DEF Quits, Finds, FindDevice, Saves, history
        <5> QED
          BY <1>2, <5>1
      <4> QED
        BY <4>1, <4>2, <4>3
    <3>4. CASE v # r
      <4>1. PastFind(v) /\ seen'[v] = seen[v]
        BY <1>0, <1>2, <3>4, OthersStay DEF PastFind
      <4> QED
        BY <1>2, <3>2, <3>3, <4>1 DEF Apart
    <3>5. CASE v = r /\ Finds(r)
      <4>1. seen'[v] \cap revoked = {}
        <5>1. PICK x \in issued \ revoked : seen' = [seen EXCEPT ![r] = {x}]
          BY <3>5 DEF Finds
        <5> QED
          BY <1>0, <3>5, <5>1 DEF TInv, TypeOK
      <4>2. seen[u] \subseteq revoked
        BY <1>0, <3>2 DEF DoneRevoked
      <4> QED
        BY <3>2, <4>1, <4>2
    <3>6. CASE v = r /\ Saves(r)
      <4>1. PastFind(v) /\ seen' = seen
        BY <3>6 DEF Saves, PastFind
      <4> QED
        BY <1>2, <3>2, <3>3, <4>1 DEF Apart
    <3> QED
      BY <3>1, <3>4, <3>5, <3>6
  <2> QED
    BY <2>1, <2>2
<1> QED
  BY <1>1, <1>2, Effects DEF Apart

\* A refresh token is exchanged once, whatever runs meanwhile: two refreshes
\* with one token both succeed only if they ran at the same time, or if two
\* requests had made that token in the same second.
THEOREM ExchangeOnce == Spec => []ExchangedOnce
<1>1. EInv => ExchangedOnce
  <2> SUFFICES ASSUME EInv, NEW r \in Refreshes, NEW u \in Refreshes,
                      r # u, pc[r] = "done", pc[u] = "done",
                      token[r] = token[u], r \notin met[u]
               PROVE  MadeTwice(token[r])
    BY DEF ExchangedOnce
  <2>1. PastFind(r) /\ PastFind(u)
    BY DEF PastFind
  <2>2. seen[u] \cap seen[r] = {}
    BY <2>1 DEF EInv, Apart
  <2>3. PICK x \in seen[r], y \in seen[u] :
           x \in issued /\ y \in issued /\ minted[x] = token[r] /\ minted[y] = token[r]
    BY <2>1 DEF EInv, FoundRows
  <2> QED
    BY <2>2, <2>3 DEF MadeTwice
<1>2. EInv /\ [Next]_vars => EInv'
  BY TypeNext, MeetingsKept, FoundRowsKept, DoneRevokedKept, ApartKept DEF EInv
<1> QED
  BY <1>1, <1>2, EInvInit, PTL DEF Spec

---------------------------------------------------------------------------
(* A logout leaves nothing of its device, a rotation is whole *)

\* What a request has found belongs to its device; before it looks it has
\* found nothing.
OfTheDevice ==
    \A r \in Requests :
        /\ \A x \in seen[r] : minted[x].device = device[r]
        /\ pc[r] \in {"idle", "begun"} => seen[r] = {}

\* A logout finds all that its device had when it began.
EarlierFound ==
    \A g \in Logouts :
        /\ Live(g) \/ pc[g] = "done" => earlier[g] \subseteq issued
        /\ PastFind(g) => \A x \in earlier[g] :
                             minted[x].device = device[g] => x \in seen[g]

DoneIssued == \A r \in Requests \ Logouts : pc[r] = "done" => r \in issued

LInv == EInv /\ OfTheDevice /\ EarlierFound /\ DoneIssued /\ RotationIsWhole

LEMMA LInvInit == Init => LInv
<1> SUFFICES ASSUME Init PROVE LInv
  OBVIOUS
<1>1. EInv
  BY EInvInit
<1>2. \A r \in Requests : pc[r] = "idle" /\ seen[r] = {}
  BY DEF Init
<1>3. Logouts \subseteq Requests /\ revoked = {}
  BY DEF Init, Requests
<1> QED
  BY <1>1, <1>2, <1>3
  DEF LInv, OfTheDevice, EarlierFound, DoneIssued, RotationIsWhole, PastFind, Live

LEMMA OfTheDeviceKept ==
    ASSUME LInv, [Next]_vars
    PROVE  OfTheDevice'
<1> USE DEF LInv, EInv
<1>1. CASE Still
  BY <1>1 DEF Still, OfTheDevice, request
<1>2. ASSUME NEW r \in Requests,
             \/ Arrives(r) \/ Quits(r) \/ Finds(r)
             \/ FindDevice(r) \/ Saves(r) \/ Commit(r),
             NEW u \in Requests
      PROVE  /\ \A x \in seen'[u] : minted'[x].device = device'[u]
             /\ pc'[u] \in {"idle", "begun"} => seen'[u] = {}
  <2>1. \A x \in seen[u] : minted'[x] = minted[x]
    BY RowsStay DEF TInv, TypeOK
  <2>2. CASE u # r
    BY <1>2, <2>1, <2>2, OthersStay DEF OfTheDevice
  <2>3. CASE u = r /\ Arrives(r)
    <3>1. seen' = seen /\ pc[r] = "idle"
      BY <2>3 DEF Arrives, BeginSignupOrLogin, BeginRefresh, BeginLogout, Begin
    <3> QED
      BY <2>3, <3>1 DEF OfTheDevice
  <2>4. CASE u = r /\ Quits(r)
    BY <2>4 DEF Quits, Leave, TInv, TypeOK
  <2>5. CASE u = r /\ Finds(r)
    <3>1. pc'[r] = "found" /\ UNCHANGED <<device, minted>>
      BY <2>5 DEF Finds, Goto, TInv, TypeOK
    <3>2. CASE r \in Refreshes
      <4>1. PICK x \in issued \ revoked :
               minted[x] = token[r] /\ seen' = [seen EXCEPT ![r] = {x}]
        BY <2>5, <3>2 DEF Finds
      <4>2. seen'[r] = {x} /\ minted[x].device = device[r]
        BY <2>5, <3>2, <4>1 DEF Finds, TInv, TypeOK
      <4> QED
        BY <2>5, <3>1, <4>2
    <3>3. CASE r \in Signups
      BY <2>5, <3>1, <3>3 DEF Finds, OfTheDevice
    <3> QED
      BY <2>5, <3>2, <3>3 DEF Finds
  <2>6. CASE u = r /\ FindDevice(r)
    BY <2>6 DEF FindDevice, Goto, TInv, TypeOK
  <2>7. CASE u = r /\ (Saves(r) \/ Commit(r))
    <3>1. UNCHANGED <<seen, device>> /\ pc'[r] \in {"saving", "done"}
      BY <2>7 DEF Saves, Commit, Goto, TInv, TypeOK
    <3> QED
      BY <2>1, <2>7, <3>1 DEF OfTheDevice
  <2> QED
    BY <1>2, <2>2, <2>3, <2>4, <2>5, <2>6, <2>7
<1> QED
  BY <1>1, <1>2, Effects DEF OfTheDevice

LEMMA EarlierFoundKept ==
    ASSUME LInv, [Next]_vars
    PROVE  EarlierFound'
<1> USE DEF LInv, EInv
<1>0. Logouts \subseteq Requests
  BY DEF Requests
<1>1. CASE Still
  BY <1>1 DEF Still, EarlierFound, PastFind, Live, request, history
<1>2. ASSUME NEW r \in Requests,
             \/ Arrives(r) \/ Quits(r) \/ Finds(r)
             \/ FindDevice(r) \/ Saves(r) \/ Commit(r),
             NEW g \in Logouts
      PROVE  /\ Live(g)' \/ pc'[g] = "done" => earlier'[g] \subseteq issued'
             /\ PastFind(g)' => \A x \in earlier'[g] :
                                  minted'[x].device = device'[g] => x \in seen'[g]
  <2>1. CASE g # r
    <3>1. earlier'[g] = earlier[g]
      BY <1>2, <2>1 DEF Arrives, BeginSignupOrLogin, BeginRefresh, BeginLogout,
                        Quits, Finds, FindDevice, Saves, Commit, history, TInv, TypeOK
    <3>2. Live(g) \/ pc[g] = "done" <=> Live(g)' \/ pc'[g] = "done"
      BY <1>0, <1>2, <2>1, OthersStay DEF Live
    <3>3. PastFind(g) => Live(g) \/ pc[g] = "done"
      BY DEF PastFind, Live, Ended
    <3> QED
      BY <1>0, <1>2, <2>1, <3>1, <3>2, <3>3, OthersStay, RowsStay
      DEF EarlierFound, PastFind
  <2>2. CASE g = r /\ Arrives(r)
    <3>1. /\ earlier' = [earlier EXCEPT ![r] = issued]
          /\ pc' = [pc EXCEPT ![r] = "begun"]
      BY <2>2, AuthTokensAssumption
      DEF Arrives, BeginSignupOrLogin, BeginRefresh, BeginLogout, Begin, Goto
    <3>2. earlier'[g] = issued /\ pc'[g] = "begun"
      BY <1>0, <2>2, <3>1 DEF TInv, TypeOK
    <3> QED
      BY <3>2, RowsStay DEF PastFind
  <2>3. CASE g = r /\ Quits(r)
    <3>1. pc'[g] \in {"refused", "failed"}
      BY <2>3 DEF Quits, Leave, Goto, TInv, TypeOK
    <3> QED
      BY <3>1 DEF PastFind, Live, Ended
  <2>4. CASE g = r /\ FindDevice(r)
    <3>1. /\ Live(g) /\ earlier' = earlier /\ device' = device
          /\ minted' = minted /\ issued' = issued
          /\ seen'[g] = {x \in issued : minted[x].device = device[g]}
      BY <2>4 DEF FindDevice, Live, Ended, history, TInv, TypeOK
    <3> QED
      BY <3>1 DEF EarlierFound
  <2>5. CASE g = r /\ (Saves(r) \/ Commit(r))
    <3>1. Live(g) /\ PastFind(g) /\ UNCHANGED <<earlier, device, seen>>
      BY <2>5 DEF Saves, Commit, Live, Ended, PastFind, history
    <3> QED
      BY <3>1, RowsStay DEF EarlierFound
  <2>6. g = r => ~ Finds(r)
    BY AuthTokensAssumption DEF Finds
  <2> QED
    BY <1>2, <2>1, <2>2, <2>3, <2>4, <2>5, <2>6
<1> QED
  BY <1>1, <1>2, Effects DEF EarlierFound

LEMMA DoneIssuedKept ==
    ASSUME LInv, [Next]_vars
    PROVE  DoneIssued'
<1> USE DEF LInv, EInv
<1>1. CASE Still
  BY <1>1 DEF Still, DoneIssued, request
<1>2. ASSUME NEW r \in Requests,
             \/ Arrives(r) \/ Quits(r) \/ Finds(r)
             \/ FindDevice(r) \/ Saves(r) \/ Commit(r),
             NEW u \in Requests \ Logouts, pc'[u] = "done"
      PROVE  u \in issued'
  <2>1. CASE u # r
    BY <1>2, <2>1, OthersStay, RowsStay DEF DoneIssued
  <2>2. CASE u = r /\ Commit(r)
    BY <2>2 DEF Commit
  <2>3. CASE u = r /\ ~ Commit(r)
    <3>1. \E how : how # "done" /\ pc' = [pc EXCEPT ![r] = how]
      BY <1>2, <2>3 DEF Arrives, BeginSignupOrLogin, BeginRefresh, BeginLogout,
                        Begin, Quits, Leave, Finds, FindDevice, Saves, Goto
    <3> QED
      BY <1>2, <2>3, <3>1 DEF TInv, TypeOK
  <2> QED
    BY <2>1, <2>2, <2>3
<1> QED
  BY <1>1, <1>2, Effects DEF DoneIssued

LEMMA WholeKept ==
    ASSUME LInv, [Next]_vars
    PROVE  RotationIsWhole'
<1> USE DEF LInv, EInv
<1>0. Refreshes \subseteq Requests \ Logouts
  BY AuthTokensAssumption DEF Requests
<1>1. CASE Still
  BY <1>1 DEF Still, RotationIsWhole, request
<1>2. ASSUME NEW r \in Requests,
             \/ Arrives(r) \/ Quits(r) \/ Finds(r)
             \/ FindDevice(r) \/ Saves(r) \/ Commit(r),
             NEW x \in revoked'
      PROVE  \E u \in Requests :
                /\ x \in seen'[u]
                /\ pc'[u] = "done" /\ device'[u] = minted'[x].device
                /\ u \in Refreshes => u \in issued'
  <2>1. pc[r] # "done"
    BY <1>2 DEF Arrives, BeginSignupOrLogin, BeginRefresh, BeginLogout, Begin,
                Quits, Finds, FindDevice, Saves, Commit, Live, Ended
  <2>2. CASE x \in revoked
    <3>1. PICK u \in Requests :
             /\ x \in seen[u]
             /\ pc[u] = "done" /\ device[u] = minted[x].device
             /\ u \in Refreshes => u \in issued
      BY <2>2 DEF RotationIsWhole
    <3>2. /\ x \in seen'[u] /\ pc'[u] = "done" /\ device'[u] = device[u]
      BY <1>2, <2>1, <3>1, OthersStay
    <3>3. minted'[x] = minted[x]
      BY <2>2, RowsStay DEF TInv, TypeOK
    <3> QED
      BY <3>1, <3>2, <3>3, RowsStay
  <2>3. CASE x \notin revoked
    <3>1. Commit(r) /\ x \in seen[r]
      BY <1>2, <2>3 DEF Arrives, BeginSignupOrLogin, BeginRefresh, BeginLogout,
                        Begin, Quits, Finds, FindDevice, Saves, Commit
    <3>2. /\ UNCHANGED <<seen, device, minted>> /\ pc'[r] = "done"
          /\ r \in Refreshes => r \in issued'
      BY <1>0, <3>1 DEF Commit, Goto, TInv, TypeOK
    <3>3. device[r] = minted[x].device
      BY <3>1 DEF OfTheDevice
    <3> QED
      BY <3>1, <3>2, <3>3
  <2> QED
    BY <2>2, <2>3
<1> QED
  BY <1>1, <1>2, Effects DEF RotationIsWhole

LEMMA LInvNext == LInv /\ [Next]_vars => LInv'
<1>1. LInv /\ [Next]_vars => EInv'
  BY TypeNext, MeetingsKept, FoundRowsKept, DoneRevokedKept, ApartKept DEF LInv, EInv
<1> QED
  BY <1>1, OfTheDeviceKept, EarlierFoundKept, DoneIssuedKept, WholeKept DEF LInv

\* When a logout has answered, every token its device had when it began is
\* revoked, and stays so.
THEOREM LogoutIsComplete == Spec => []LogoutRevokes
<1>1. LInv => LogoutRevokes
  <2> SUFFICES ASSUME LInv, NEW g \in Logouts, pc[g] = "done",
                      NEW x \in earlier[g], minted[x].device = device[g]
               PROVE  x \in revoked
    BY DEF LogoutRevokes
  <2>1. x \in seen[g]
    BY DEF LInv, EarlierFound, PastFind
  <2> QED
    BY <2>1 DEF LInv, EInv, DoneRevoked, Requests
<1> QED
  BY <1>1, LInvInit, LInvNext, PTL DEF Spec

\* Whatever is lost on the way, a token is revoked only by a logout of its
\* device or together with the commit of its successor.
THEOREM RotationsAreWhole == Spec => []RotationIsWhole
<1>1. LInv => RotationIsWhole
  BY DEF LInv
<1> QED
  BY <1>1, LInvInit, LInvNext, PTL DEF Spec
============================================================================
