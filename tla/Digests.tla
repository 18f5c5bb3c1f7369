------------------------------ MODULE Digests ------------------------------
(***************************************************************************)
(* dispatch_digests, and the push router that carries a digest to the      *)
(* devices of its user.                                                    *)
(*                                                                         *)
(* A pass selects the schedules that are due, sends them one after the     *)
(* other, and commits when all are sent.  The query for the devices of a   *)
(* user flushes what the session has marked before: from then on to the    *)
(* end of the pass its rows are locked, and an UPDATE of another pass      *)
(* waits for them.  Nothing keeps passes from overlapping, and PostgreSQL  *)
(* ends one of two passes that wait for each other.                        *)
(*                                                                         *)
(* Time counts in parts of a day.                                          *)
(***************************************************************************)
EXTENDS Integers, Sequences, FiniteSets

CONSTANTS
    Passes,        \* passes that may run at the same time
    Schedules,     \* rows of digest_schedules with channel "push"
    Period,        \* days between two digests of a schedule, by its cadence
    DayLength,     \* parts of a day
    SendHour,      \* DIGEST_SEND_HOUR_UTC, as a part of the day
    Device,        \* rows of push_device_tokens
    Setups,        \* bound: what the devices are, and whose
    Starts,        \* bound: next_run_at to begin with
    MaxNow,        \* bound on the clock
    MaxFaults,     \* bound on crashes and on failures of the push service
    None

Platform == {"fcm", "apns", "webpush", "email"}
Hint == {"android", "ios", "web", "email", "desktop"}
Token == {"empty", "short", "long"}

ASSUME DigestsAssumption ==
    /\ IsFiniteSet(Schedules) /\ IsFiniteSet(Passes)
    /\ Period \in [Schedules -> Nat \ {0}]
    /\ DayLength \in Nat \ {0} /\ SendHour \in 0 .. DayLength - 1
    /\ Setups \subseteq [Device -> [owner : Schedules, platform : Hint,
                                    token : Token, enabled : BOOLEAN]]
    /\ Starts \subseteq [Schedules -> Nat \cup {None}]
    /\ MaxNow \in Nat /\ MaxFaults \in Nat
    /\ None \notin Int \cup Schedules

VARIABLES
    device,        \* fixed: the devices
    nextRun,       \* next_run_at of the schedules, as committed
    now,
    stage,         \* of each pass
    local,         \* what each pass has selected, marked and flushed
    routes,        \* of each pass: device -> the platforms still to be tried
    faults,
    (* history *)
    got,           \* of each pass: how often a device got the digest being sent
    sentOn,        \* schedule -> the days a digest of it was sent for
    twice,         \* schedules of which two were sent for one day
    lostAnswer,    \* devices for which an answer of FCM was lost, by pass
    disturbed      \* schedules two passes held, or that a failed pass had sent

digestHistory == <<got, sentOn, twice, lostAnswer, disturbed>>
digestVars == <<device, nextRun, now, stage, local, routes, faults, digestHistory>>

---------------------------------------------------------------------------
Day(t) == t \div DayLength

Due(s, t) == nextRun[s] # None /\ nextRun[s] <= t

\* Mutant of NextDigestRun: a period after the run that was planned.
NextFromPlanned(s, t) == nextRun[s] + Period[s] * DayLength

\* The send hour of the day, and a period later.
NextDigestRun(s, t) == Day(t) * DayLength + SendHour + Period[s] * DayLength

Blank == [now |-> 0, todo |-> {}, current |-> None, dirty |-> {}, flushed |-> {},
          waiting |-> FALSE]

NoRoutes == [d \in Device |-> <<>>]
NoneGot == [d \in Device |-> 0]

Running(w) == stage[w] # "idle"

\* The schedules of a pass, those it has sent already included.
Held(w) == local[w].todo \cup local[w].dirty \cup local[w].flushed
           \cup ({local[w].current} \ {None})

\* The mark of w is for a row that u has written and not committed.
Waits(w, u) == u # w /\ local[w].dirty \cap local[u].flushed # {}

Free(w) == \A u \in Passes : ~ Waits(w, u)

\* The SELECT of a pass that finds something due.
DispatchDigests(w) ==
    LET due == {s \in Schedules : Due(s, now)}
    IN  /\ stage[w] = "idle"
        /\ due # {}
        /\ stage' = [stage EXCEPT ![w] = "loop"]
        /\ local' = [local EXCEPT ![w] = [Blank EXCEPT !.now = now, !.todo = due]]
        /\ disturbed' = disturbed \cup {s \in due : \E u \in Passes : s \in Held(u)}
        /\ UNCHANGED <<device, nextRun, now, routes, faults, got, sentOn, twice, lostAnswer>>

\* The next schedule of the loop; the SELECT has no order.
SendDigest(w) ==
    /\ stage[w] = "loop"
    /\ \E s \in local[w].todo :
          local' = [local EXCEPT ![w].current = s, ![w].todo = @ \ {s}]
    /\ stage' = [stage EXCEPT ![w] = "devices"]
    /\ UNCHANGED <<device, nextRun, now, routes, faults, digestHistory>>

---------------------------------------------------------------------------
(* NotificationRouter *)

PlatformAliases == [ios |-> "apns", android |-> "fcm", web |-> "webpush"]

FallbackChain(p) == IF p \in {"fcm", "webpush"} THEN <<"email">> ELSE <<>>

ResolvePlatform(hint) ==
    IF hint \in DOMAIN PlatformAliases THEN PlatformAliases[hint] ELSE hint

\* Empty for a platform that is not known.
BuildChain(hint) ==
    LET primary == ResolvePlatform(hint)
    IN  IF primary \in Platform THEN <<primary>> \o FallbackChain(primary) ELSE <<>>

ValidateToken(p, token) ==
    CASE p = "fcm" -> token = "long"
      [] p = "email" -> TRUE
      [] OTHER -> token # "empty"

ActiveDevices(s) == {d \in Device : device[d].enabled /\ device[d].owner = s}

\* _active_devices: its query flushes the marks of the session.
LoadDevices(w) ==
    /\ stage[w] = "devices"
    /\ Free(w)
    /\ local' = [local EXCEPT ![w].flushed = @ \cup local[w].dirty, ![w].dirty = {}]
    /\ routes' = [routes EXCEPT ![w] =
          [d \in Device |-> IF d \in ActiveDevices(local[w].current)
                              THEN BuildChain(device[d].platform) ELSE <<>>]]
    /\ stage' = [stage EXCEPT ![w] = "routing"]
    /\ UNCHANGED <<device, nextRun, now, faults, digestHistory>>

\* The UPDATE of a marked row joins those that wait for the row.
Wait(w) ==
    /\ stage[w] \in {"devices", "commit"}
    /\ ~ Free(w)
    /\ ~ local[w].waiting
    /\ local' = [local EXCEPT ![w].waiting = TRUE]
    /\ UNCHANGED <<device, nextRun, now, stage, routes, faults, digestHistory>>

\* The token is not valid for the platform.
Skip(w, d) ==
    /\ ~ ValidateToken(Head(routes[w][d]), device[d].token)
    /\ routes' = [routes EXCEPT ![w][d] = Tail(@)]
    /\ UNCHANGED <<faults, got, lostAnswer>>

\* Mutant of Delivered: the chain goes on after a success.
DeliveredOn(w, d) ==
    /\ routes' = [routes EXCEPT ![w][d] = Tail(@)]
    /\ got' = [got EXCEPT ![w][d] = @ + 1]
    /\ UNCHANGED <<faults, lostAnswer>>

Delivered(w, d) ==
    /\ routes' = [routes EXCEPT ![w][d] = <<>>]
    /\ got' = [got EXCEPT ![w][d] = @ + 1]
    /\ UNCHANGED <<faults, lostAnswer>>

\* FCM refuses, or cannot be reached; it may have got the request all the same.
Failed(w, d) ==
    /\ Head(routes[w][d]) = "fcm"
    /\ faults < MaxFaults
    /\ faults' = faults + 1
    /\ routes' = [routes EXCEPT ![w][d] = Tail(@)]
    /\ \/ UNCHANGED <<got, lostAnswer>>
       \/ /\ got' = [got EXCEPT ![w][d] = @ + 1]
          /\ lostAnswer' = lostAnswer \cup {<<w, d>>}

\* One platform of the chain of one device; the devices are served together.
\* APNs, web push and e-mail are written to the log and always succeed.
Route(w, d) ==
    /\ stage[w] = "routing"
    /\ routes[w][d] # <<>>
    /\ \/ Skip(w, d)
       \/ /\ ValidateToken(Head(routes[w][d]), device[d].token)
          /\ Delivered(w, d) \/ Failed(w, d)
    /\ UNCHANGED <<device, nextRun, now, stage, local, sentOn, twice, disturbed>>

\* The session marks the schedule as sent.
Mark(w) ==
    LET s == local[w].current
        day == Day(local[w].now)
    IN  /\ stage[w] = "routing"
        /\ routes[w] = NoRoutes
        /\ local' = [local EXCEPT ![w].dirty = @ \cup {s}, ![w].current = None]
        /\ stage' = [stage EXCEPT ![w] = IF local[w].todo = {} THEN "commit" ELSE "loop"]
        /\ sentOn' = [sentOn EXCEPT ![s] = @ \cup {day}]
        /\ twice' = IF day \in sentOn[s] THEN twice \cup {s} ELSE twice
        /\ got' = [got EXCEPT ![w] = NoneGot]
        /\ lostAnswer' = {x \in lostAnswer : x[1] # w}
        /\ UNCHANGED <<device, nextRun, now, routes, faults, disturbed>>

\* Mutant of CommitMarks: what an earlier query has flushed is not committed.
CommitLast(w) ==
    [s \in Schedules |-> IF s \in local[w].dirty
                           THEN NextDigestRun(s, local[w].now) ELSE nextRun[s]]

CommitMarks(w) ==
    [s \in Schedules |-> IF s \in local[w].dirty \cup local[w].flushed
                           THEN NextDigestRun(s, local[w].now) ELSE nextRun[s]]

\* A pass ends; each of its rows goes to one of those that wait for it.
End(w) ==
    LET waiters == {u \in Passes : local[u].waiting /\ Waits(u, w)}
        Granted(u) == [local[u] EXCEPT !.flushed = @ \cup local[u].dirty,
                                       !.dirty = {}, !.waiting = FALSE]
    IN  \E next \in SUBSET waiters :
            /\ \A u \in waiters : \E v \in next : local[v].dirty = local[u].dirty
            /\ \A u, v \in next : local[v].dirty = local[u].dirty => u = v
            /\ local' = [u \in Passes |-> CASE u = w -> Blank
                                            [] u \in next -> Granted(u)
                                            [] OTHER -> local[u]]
    /\ stage' = [stage EXCEPT ![w] = "idle"]
    /\ routes' = [routes EXCEPT ![w] = NoRoutes]
    /\ got' = [got EXCEPT ![w] = NoneGot]
    /\ lostAnswer' = {x \in lostAnswer : x[1] # w}

CommitPass(w) ==
    /\ stage[w] = "commit"
    /\ Free(w)
    /\ nextRun' = CommitMarks(w)
    /\ End(w)
    /\ UNCHANGED <<device, now, faults, sentOn, twice, disturbed>>

\* The marks are rolled back; the digests are out.
Rollback(w) ==
    /\ End(w)
    /\ disturbed' = disturbed \cup (Held(w) \ local[w].todo)
    /\ UNCHANGED <<device, nextRun, now, sentOn, twice>>

\* The process stops, or an exception that is no httpx.HTTPError leaves the pass.
PassFails(w) ==
    /\ Running(w)
    /\ faults < MaxFaults
    /\ faults' = faults + 1
    /\ Rollback(w)

\* Two passes wait for each other's rows; the database ends one.
Deadlocked(w) ==
    /\ local[w].waiting
    /\ \E u \in Passes : local[u].waiting /\ Waits(w, u) /\ Waits(u, w)
    /\ Rollback(w)
    /\ UNCHANGED faults

ClockTick ==
    /\ now < MaxNow
    /\ now' = now + 1
    /\ UNCHANGED <<device, nextRun, stage, local, routes, faults, digestHistory>>

DigestsInit ==
    /\ device \in Setups
    /\ nextRun \in Starts
    /\ now = 0
    /\ stage = [w \in Passes |-> "idle"]
    /\ local = [w \in Passes |-> Blank]
    /\ routes = [w \in Passes |-> NoRoutes]
    /\ faults = 0
    /\ got = [w \in Passes |-> NoneGot]
    /\ sentOn = [s \in Schedules |-> {}]
    /\ twice = {}
    /\ lostAnswer = {}
    /\ disturbed = {}

PassStep(w) ==
    \/ SendDigest(w) \/ LoadDevices(w) \/ Wait(w) \/ (\E d \in Device : Route(w, d))
    \/ Mark(w) \/ CommitPass(w) \/ Deadlocked(w)

DigestsNext ==
    \/ \E w \in Passes : DispatchDigests(w) \/ PassStep(w) \/ PassFails(w)
    \/ ClockTick

DigestsSpec == DigestsInit /\ [][DigestsNext]_digestVars

\* A pass goes on, and whoever calls dispatch_digests calls it again and again.
DigestsFairness ==
    /\ \A w \in Passes : WF_digestVars(PassStep(w))
    /\ WF_digestVars(\E w \in Passes : DispatchDigests(w))

DigestsFairSpec == DigestsSpec /\ DigestsFairness

---------------------------------------------------------------------------
(* Properties *)

\* Every variable has its type, and no row is locked by two passes.
DigestsTypeOK ==
    /\ nextRun \in [Schedules -> Nat \cup {None}]
    /\ now \in 0 .. MaxNow
    /\ stage \in [Passes -> {"idle", "loop", "devices", "routing", "commit"}]
    /\ \A w \in Passes :
          /\ local[w].now \in 0 .. now
          /\ local[w].current \in Schedules \cup {None}
          /\ Held(w) \subseteq Schedules
          /\ \A d \in Device : Len(routes[w][d]) <= 2
    /\ faults \in 0 .. MaxFaults
    /\ \A w, u \in Passes : w # u => local[w].flushed \cap local[u].flushed = {}

\* A schedule is sent once a day or once a week, also when passes were missed,
\* came late or lasted longer than a day: never twice for one day, and a period
\* apart - unless two passes held it at once, or one that had sent it failed.
SpacedOut ==
    \A s \in Schedules \ disturbed :
        /\ s \notin twice
        /\ \A d, e \in sentOn[s] : d < e => e - d >= Period[s]

\* A schedule that is marked has reached every enabled device of its user whose
\* platform is known, but those of APNs without a token: a refusal or a failure
\* of FCM and a bad token end in an e-mail.  No device gets one digest over two
\* platforms, unless FCM's answer was lost; the others get none.
DevicesReachedOnce ==
    \A w \in Passes, d \in Device :
        /\ got[w][d] > 1 => <<w, d>> \in lostAnswer
        /\ got[w][d] > 0 => device[d].enabled /\ device[d].owner = local[w].current
        /\ stage[w] = "routing" /\ routes[w] = NoRoutes
           /\ d \in ActiveDevices(local[w].current) /\ got[w][d] = 0 =>
               \/ BuildChain(device[d].platform) = <<>>
               \/ /\ ResolvePlatform(device[d].platform) = "apns"
                  /\ device[d].token = "empty"

\* What is due is sent and scheduled anew, whatever crashes and whichever passes
\* wait for each other.
DueIsSent == []<>(\A s \in Schedules : ~ Due(s, now))
============================================================================
