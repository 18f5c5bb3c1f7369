----------------------------- MODULE AuthTokens -----------------------------
(***************************************************************************)
(* The backend's authentication: sign-up, login, refresh with rotation and *)
(* logout, as HTTP handlers that interleave at every await, each in a      *)
(* database session of its own.                                            *)
(*                                                                         *)
(* One account is modelled: nothing here relates two of them.  A token is  *)
(* the device and the second it was made for and in: `iat' and `exp' are   *)
(* whole seconds and there is no other varying claim, so two refresh       *)
(* tokens of one device made in one second are equal, and so are their     *)
(* hashes.                                                                 *)
(*                                                                         *)
(* The database is PostgreSQL at READ COMMITTED, as in BatchSync: a        *)
(* statement sees what was committed when it began, an UPDATE waits for    *)
(* the session that holds the row, an INSERT of a unique value for the one *)
(* that inserted it, and a session that ends without a commit leaves       *)
(* nothing behind.                                                         *)
(***************************************************************************)
EXTENDS Naturals, FiniteSets

CONSTANTS
    Signups, Logins, Refreshes, Logouts,   \* requests, by their endpoint
    Devices,
    DevicesOf,     \* bound: the devices a request may name
    None,          \* no device, no token
    AccessTTL,     \* ACCESS_TOKEN_TTL_SECONDS
    RefreshTTL,    \* REFRESH_TOKEN_TTL_SECONDS
    MaxNow,        \* bound on the clock
    MaxFailures    \* bound on requests the server loses

Requests == Signups \cup Logins \cup Refreshes \cup Logouts

ASSUME AuthTokensAssumption ==
    /\ Signups \cap (Logins \cup Refreshes \cup Logouts) = {}
    /\ Logins \cap (Refreshes \cup Logouts) = {}
    /\ Refreshes \cap Logouts = {}
    /\ DevicesOf \in [Requests -> SUBSET Devices]
    /\ AccessTTL \in Nat
    /\ RefreshTTL \in Nat
    /\ MaxNow \in Nat
    /\ MaxFailures \in Nat

VARIABLES
    now,           \* seconds
    account,       \* is there a committed user?
    issued,        \* committed rows of refresh_tokens, named by their request
    revoked,       \* those whose `revoked' is committed
    pc,            \* per request: how far it is
    device,        \* device_id of the request
    token,         \* the refresh token it presents
    seen,          \* the rows its SELECT or UPDATE found
    minted,        \* the refresh token it makes
    failures,
    (* history *)
    met,           \* per refresh: the others that ran at the same time
    earlier        \* per logout: the rows that were committed when it began

request == <<pc, device, token, seen, minted>>
history == <<met, earlier>>
vars == <<now, account, issued, revoked, request, failures, history>>

---------------------------------------------------------------------------
RefreshToken == [device : Devices, second : Nat]

Ended == {"done", "refused", "failed"}

Live(r) == pc[r] \notin Ended \cup {"idle"}

\* The tokens that clients have been given.
Given == {minted[r] : r \in issued}

\* Mutant of FindValid: revoked rows count.
FindUnexpired(t) ==
    {x \in issued : minted[x] = t /\ now < t.second + RefreshTTL}

\* find_valid: the rows of a token that are neither revoked nor expired.
FindValid(t) ==
    {x \in issued \ revoked : minted[x] = t /\ now < t.second + RefreshTTL}

\* get_current_user accepts an access token until it expires; access tokens
\* are made together with refresh tokens, name no device and are not stored.
CurrentUser == \E r \in issued : now < minted[r].second + AccessTTL

\* The rows that a request has updated and not committed.
Locks(r) == IF pc[r] = "saving" THEN seen[r] ELSE {}

Free(r) == \A u \in Requests \ {r} : Locks(u) \cap seen[r] = {}

Goto(r, where) == pc' = [pc EXCEPT ![r] = where]

\* A request that is refused or lost; its session is closed.
Leave(r, how) ==
    /\ Goto(r, how)
    /\ device' = [device EXCEPT ![r] = None]
    /\ token' = [token EXCEPT ![r] = None]
    /\ seen' = [seen EXCEPT ![r] = {}]
    /\ minted' = [minted EXCEPT ![r] = None]

\* create_refresh_token, and a row for it in the session.
IssueTokens(r) ==
    /\ minted' = [minted EXCEPT ![r] = [device |-> device[r], second |-> now]]
    /\ Goto(r, "saving")

---------------------------------------------------------------------------
\* A request arrives.
Begin(r, d) ==
    /\ pc[r] = "idle"
    /\ Goto(r, "begun")
    /\ device' = [device EXCEPT ![r] = d]
    /\ UNCHANGED <<now, account, issued, revoked, seen, minted, failures>>

BeginSignupOrLogin(r, d) ==
    /\ r \in Signups \cup Logins
    /\ Begin(r, d)
    /\ UNCHANGED <<token, history>>

\* A client presents any token it was ever given.
BeginRefresh(r, d, t) ==
    /\ r \in Refreshes
    /\ t \in Given
    /\ Begin(r, d)
    /\ token' = [token EXCEPT ![r] = t]
    /\ met' = [u \in Refreshes |->
                 IF u = r THEN {v \in Refreshes : Live(v)}
                 ELSE IF Live(u) THEN met[u] \cup {r} ELSE met[u]]
    /\ UNCHANGED earlier

BeginLogout(r, d) ==
    /\ r \in Logouts
    /\ CurrentUser
    /\ Begin(r, d)
    /\ earlier' = [earlier EXCEPT ![r] = issued]
    /\ UNCHANGED <<token, met>>

\* get_user_by_email.
Lookup(r) ==
    /\ r \in Signups
    /\ pc[r] = "begun"
    /\ \/ account /\ Leave(r, "refused")
       \/ ~ account /\ Goto(r, "found") /\ UNCHANGED <<device, token, seen, minted>>
    /\ UNCHANGED <<now, account, issued, revoked, failures, history>>

\* The INSERT of the user: it waits for another sign-up that has inserted
\* the same e-mail, and is an IntegrityError if that one has committed.
CreateUser(r) ==
    /\ r \in Signups
    /\ pc[r] = "found"
    /\ \A u \in Signups : pc[u] # "saving"
    /\ \/ account /\ Leave(r, "refused")
       \/ ~ account /\ IssueTokens(r) /\ UNCHANGED <<device, token, seen>>
    /\ UNCHANGED <<now, account, issued, revoked, failures, history>>

\* authenticate_user, with the right password.
Login(r) ==
    /\ r \in Logins
    /\ pc[r] = "begun"
    /\ \/ account /\ IssueTokens(r) /\ UNCHANGED <<device, token, seen>>
       \/ ~ account /\ Leave(r, "refused")
    /\ UNCHANGED <<now, account, issued, revoked, failures, history>>

\* refresh_tokens up to find_valid, whose scalar_one_or_none throws when
\* there are several rows.
FindToken(r) ==
    /\ r \in Refreshes
    /\ pc[r] = "begun"
    /\ LET valid == IF token[r].device = device[r] THEN FindValid(token[r]) ELSE {}
       IN  \/ valid = {} /\ Leave(r, "refused")
           \/ \E x \in valid : /\ valid = {x}
                               /\ Goto(r, "found")
                               /\ seen' = [seen EXCEPT ![r] = {x}]
                               /\ UNCHANGED <<device, token, minted>>
           \/ \E x, y \in valid : x # y /\ Leave(r, "failed")
    /\ UNCHANGED <<now, account, issued, revoked, failures, history>>

\* Mutant of Rotate: the old token is revoked in a transaction of its own.
RotateAtOnce(r) ==
    /\ r \in Refreshes
    /\ pc[r] = "found"
    /\ Free(r)
    /\ IssueTokens(r)
    /\ revoked' = revoked \cup seen[r]
    /\ UNCHANGED <<now, account, issued, device, token, seen, failures, history>>

\* The rotation: revoke, once no other session holds the row and whatever
\* that one has done to it, then issue_tokens.
Rotate(r) ==
    /\ r \in Refreshes
    /\ pc[r] = "found"
    /\ Free(r)
    /\ IssueTokens(r)
    /\ UNCHANGED <<now, account, issued, revoked, device, token, seen,
                   failures, history>>

\* Mutant of FindDevice: only the rows of the latest second.
FindLatest(r) ==
    /\ r \in Logouts
    /\ pc[r] = "begun"
    /\ seen' = [seen EXCEPT ![r] =
                  {x \in issued : /\ minted[x].device = device[r]
                                  /\ \A y \in issued :
                                       minted[y].device = device[r]
                                         => minted[y].second <= minted[x].second}]
    /\ Goto(r, "found")
    /\ UNCHANGED <<now, account, issued, revoked, device, token, minted,
                   failures, history>>

\* Mutant of FindDevice: rows that are not committed are seen, too.
FindDirty(r) ==
    /\ r \in Logouts
    /\ pc[r] = "begun"
    /\ seen' = [seen EXCEPT ![r] =
                  {x \in Requests : minted[x] # None /\ minted[x].device = device[r]}]
    /\ Goto(r, "found")
    /\ UNCHANGED <<now, account, issued, revoked, device, token, minted,
                   failures, history>>

\* The UPDATE of revoke_device begins and sees the rows committed by now.
FindDevice(r) ==
    /\ r \in Logouts
    /\ pc[r] = "begun"
    /\ seen' = [seen EXCEPT ![r] = {x \in issued : minted[x].device = device[r]}]
    /\ Goto(r, "found")
    /\ UNCHANGED <<now, account, issued, revoked, device, token, minted,
                   failures, history>>

\* It has got all of them.
RevokeDevice(r) ==
    /\ r \in Logouts
    /\ pc[r] = "found"
    /\ Free(r)
    /\ Goto(r, "saving")
    /\ UNCHANGED <<now, account, issued, revoked, device, token, seen, minted,
                   failures, history>>

\* db.commit() and the answer.
Commit(r) ==
    /\ pc[r] = "saving"
    /\ account' = (account \/ r \in Signups)
    /\ issued' = IF r \in Logouts THEN issued ELSE issued \cup {r}
    /\ revoked' = revoked \cup seen[r]
    /\ Goto(r, "done")
    /\ UNCHANGED <<now, device, token, seen, minted, failures, history>>

\* The connection to the database or the server goes down; what the session
\* had not committed is gone.
Fail(r) ==
    /\ Live(r)
    /\ failures < MaxFailures
    /\ failures' = failures + 1
    /\ Leave(r, "failed")
    /\ UNCHANGED <<now, account, issued, revoked, history>>

Tick ==
    /\ now < MaxNow
    /\ now' = now + 1
    /\ UNCHANGED <<account, issued, revoked, request, failures, history>>

Init ==
    /\ now = 0
    /\ account = FALSE
    /\ issued = {}
    /\ revoked = {}
    /\ pc = [r \in Requests |-> "idle"]
    /\ device = [r \in Requests |-> None]
    /\ token = [r \in Requests |-> None]
    /\ seen = [r \in Requests |-> {}]
    /\ minted = [r \in Requests |-> None]
    /\ failures = 0
    /\ met = [r \in Refreshes |-> {}]
    /\ earlier = [r \in Logouts |-> {}]

Step(r) ==
    \/ Lookup(r)
    \/ CreateUser(r)
    \/ Login(r)
    \/ FindToken(r)
    \/ Rotate(r)
    \/ FindDevice(r)
    \/ RevokeDevice(r)
    \/ Commit(r)

Next ==
    \/ Tick
    \/ \E r \in Requests :
          \/ \E d \in DevicesOf[r] :
                \/ BeginSignupOrLogin(r, d)
                \/ \E t \in Given : BeginRefresh(r, d, t)
                \/ BeginLogout(r, d)
          \/ Step(r)
          \/ Fail(r)

Spec == Init /\ [][Next]_vars

---------------------------------------------------------------------------
(* Properties *)

\* Every variable has its type; a request that has got past its SELECT has a
\* token of its device to present or has made one for it.
TypeOK ==
    /\ now \in 0 .. MaxNow
    /\ account \in BOOLEAN
    /\ issued \subseteq Requests \ Logouts
    /\ revoked \subseteq issued
    /\ pc \in [Requests -> {"idle", "begun", "found", "saving"} \cup Ended]
    /\ device \in [Requests -> Devices \cup {None}]
    /\ token \in [Requests -> RefreshToken \cup {None}]
    /\ seen \in [Requests -> SUBSET issued]
    /\ minted \in [Requests -> RefreshToken \cup {None}]
    /\ failures \in 0 .. MaxFailures
    /\ met \in [Refreshes -> SUBSET Refreshes]
    /\ earlier \in [Logouts -> SUBSET Requests]
    /\ \A r \in Requests : Live(r) \/ pc[r] = "done" => device[r] \in Devices
    /\ \A r \in Requests \ Logouts :
          pc[r] \in {"saving", "done"} => minted[r] \in RefreshToken
    /\ \A r \in Refreshes : Live(r) \/ pc[r] = "done" => token[r] \in RefreshToken

\* Was this token made twice, by two requests of one second?
MadeTwice(t) == \E x, y \in issued : x # y /\ minted[x] = t /\ minted[y] = t

\* A refresh token is exchanged once: two refreshes that present the same one
\* both succeed only if they ran at the same time, or if the token had been
\* made twice.
ExchangedOnce ==
    \A r, u \in Refreshes :
        r # u /\ pc[r] = "done" /\ pc[u] = "done" /\ token[r] = token[u]
            => r \in met[u] \/ MadeTwice(token[r])

\* A logout revokes every token its device had when it began, whatever ran
\* meanwhile, and no later request makes one of them valid again.
LogoutRevokes ==
    \A g \in Logouts : pc[g] = "done" =>
        \A x \in earlier[g] : minted[x].device = device[g] => x \in revoked

\* Nobody loses a session to half a rotation: a token is revoked only by a
\* logout of its device or together with the commit of the one that replaces it.
RotationIsWhole ==
    \A x \in revoked : \E r \in Requests :
        /\ x \in seen[r]
        /\ pc[r] = "done" /\ device[r] = minted[x].device
        /\ r \in Refreshes => r \in issued
============================================================================
