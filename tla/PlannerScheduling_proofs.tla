---------------------- MODULE PlannerScheduling_proofs ----------------------
(***************************************************************************)
(* What TLAPS proves about PlannerScheduling, for any requests, tasks and  *)
(* edits and any length of a day and a week.                               *)
(***************************************************************************)
EXTENDS PlannerScheduling, TLAPS

---------------------------------------------------------------------------
(* Dates and times *)

LEMMA DayIsPositive == Day \in Nat /\ 0 < Day /\ Week \in Nat /\ 0 < Week
BY PlannerSchedulingAssumption

LEMMA MidnightIsNat == ASSUME NEW d \in Nat PROVE d * Day \in Nat
BY DayIsPositive

\* The instants of day d.
LEMMA DateOfInstant ==
  ASSUME NEW d \in Nat, NEW x \in Nat, x < Day
  PROVE  DateOf(d * Day + x) = d /\ TimeOf(d * Day + x) = x
BY DayIsPositive DEF DateOf, TimeOf

LEMMA InstantOfDate ==
  ASSUME NEW t \in Nat
  PROVE  /\ DateOf(t) \in Nat /\ TimeOf(t) \in Nat /\ TimeOf(t) < Day
         /\ t = DateOf(t) * Day + TimeOf(t)
BY DayIsPositive DEF DateOf, TimeOf

LEMMA NextDay ==
  ASSUME NEW c \in Nat, NEW d \in Nat, c < d
  PROVE  c * Day + Day <= d * Day
<1>1. PICK k \in Nat : d = c + 1 + k
  <2>1. d - c - 1 \in Nat /\ d = c + 1 + (d - c - 1)
    OBVIOUS
  <2>2. QED
    BY <2>1
<1>2. d * Day = c * Day + Day + k * Day
  BY <1>1, DayIsPositive
<1>3. k * Day \in Nat /\ c * Day \in Nat
  BY MidnightIsNat
<1>4. QED
  BY <1>2, <1>3, DayIsPositive

---------------------------------------------------------------------------
(* The inductive invariant.  A window is a part of one entry of one day    *)
(* that none of the blocks cut out so far meets; any other such part of    *)
(* the week that no slot has taken lies within a window.                   *)

Window == [at : Nat, entry : Nat, start : Nat, end : Nat]
Slot == [start : Nat, end : Nat]

Within(s, w) == w.start <= s.start /\ s.end <= w.end

Blocks == Len(req.breaks) + Len(req.events)

InEntry(s, d, e) ==
  /\ d \in 0 .. Week - 1 /\ e \in DOMAIN Schedule
  /\ Schedule[e].day = PlannedDay(d) /\ PlannedDay(d) \notin req.noPlanDays
  /\ d * Day + Schedule[e].start <= s.start
  /\ s.end <= d * Day + Schedule[e].end

\* On day d, s meets none of the first n breaks and events.
Clear(s, d, n) ==
  /\ \A b \in DOMAIN req.breaks : b <= n => ~ Overlap(s, BreakOn(d, req.breaks[b]))
  /\ \A e \in DOMAIN req.events :
        Len(req.breaks) + e <= n => ~ Overlap(s, req.events[e])

Untaken(s) == \A j \in DOMAIN slots : ~ Overlap(s, slots[j])

Stages ==
  /\ req \in Requests
  /\ phase \in {"windows", "subtract", "place", "detect", "done", "edited"}
  /\ block \in 0 .. Blocks
  /\ phase = "windows" => block = 0 /\ tasks = <<>>
  /\ phase # "windows" => tasks = ActiveTasks
  /\ phase \in {"windows", "subtract"} => slots = <<>> /\ refused = {}
  /\ phase \notin {"windows", "subtract"} => block = Blocks
  /\ phase \in {"detect", "done", "edited"} => todo = {}
  /\ phase \notin {"done", "edited"} => DOMAIN conflicts = {}
  /\ DOMAIN slots \cup refused \cup todo = DOMAIN tasks
  /\ DOMAIN slots \cap todo = {}

WindowsAreFree ==
  /\ windows \subseteq Window
  /\ \A w \in windows : Interval(w)
  /\ \A w \in windows : \E d \in 0 .. Week - 1 : InEntry(w, d, w.entry) /\ Clear(w, d, block)

SlotsAreFree ==
  \A i \in DOMAIN slots :
     /\ slots[i] \in Slot /\ Interval(slots[i])
     /\ Admissible(slots[i])
     /\ slots[i].end = slots[i].start + tasks[i].length
     /\ slots[i].end <= Deadline(i)

AllIsApart ==
  ScheduleOverlaps \/
     /\ \A v, w \in windows : v # w => ~ Overlap(v, w)
     /\ \A w \in windows : Untaken(w)
     /\ \A i, j \in DOMAIN slots : i # j => ~ Overlap(slots[i], slots[j])

WindowsAreAll ==
  phase \in {"subtract", "place"} =>
     \A s \in Slot, d \in 0 .. Week - 1, e \in DOMAIN Schedule :
        Interval(s) /\ InEntry(s, d, e) /\ Clear(s, d, block) /\ Untaken(s) =>
           \E w \in windows : Within(s, w)

RefusedHaveNoRoom ==
  \A i \in refused, s \in Slot :
     s.end = s.start + tasks[i].length =>
        ~ Admissible(s) \/ s.end > Deadline(i) \/ ~ Untaken(s)

PlanInv ==
  /\ Stages /\ WindowsAreFree /\ SlotsAreFree /\ AllIsApart
  /\ WindowsAreAll /\ RefusedHaveNoRoom /\ ComplaintsExplained

---------------------------------------------------------------------------
(* The request *)

LEMMA ElementTyped ==
  ASSUME NEW T, NEW list \in Seq(T), NEW i \in DOMAIN list
  PROVE  list[i] \in T
OBVIOUS

LEMMA RequestTyped ==
  ASSUME req \in Requests
  PROVE  /\ PlannerRunIn(req)
         /\ Len(req.breaks) \in Nat /\ DOMAIN req.breaks = 1 .. Len(req.breaks)
         /\ Len(req.events) \in Nat /\ DOMAIN req.events = 1 .. Len(req.events)
         /\ Blocks \in Nat
<1>1. PlannerRunIn(req)
  BY PlannerSchedulingAssumption
<1>2. req.breaks \in Seq([start : Nat, end : Nat]) /\ req.events \in Seq([start : Nat, end : Nat])
  BY <1>1 DEF PlannerRunIn
<1> DEFINE breaks == req.breaks
           evts == req.events
<1>3. /\ Len(breaks) \in Nat /\ DOMAIN breaks = 1 .. Len(breaks)
      /\ Len(evts) \in Nat /\ DOMAIN evts = 1 .. Len(evts)
  <2>1. breaks \in Seq([start : Nat, end : Nat]) /\ evts \in Seq([start : Nat, end : Nat])
    BY <1>2
  <2> HIDE DEF breaks, evts
  <2>2. QED
    BY <2>1
<1>4. Blocks = Len(breaks) + Len(evts)
  BY DEF Blocks
<1> HIDE DEF breaks, evts
<1>5. Blocks \in Nat
  BY <1>3, <1>4
<1>6. QED
  BY <1>1, <1>3, <1>5 DEF breaks, evts

LEMMA BlocksAreCounted ==
  ASSUME req \in Requests
  PROVE  /\ \A b \in DOMAIN req.breaks : b \in Nat /\ 1 <= b /\ b <= Blocks
         /\ \A e \in DOMAIN req.events : e \in Nat /\ 1 <= e /\ Len(req.breaks) + e <= Blocks
<1> DEFINE breaks == Len(req.breaks)
           evts == Len(req.events)
<1>1. /\ breaks \in Nat /\ DOMAIN req.breaks = 1 .. breaks
      /\ evts \in Nat /\ DOMAIN req.events = 1 .. evts
      /\ Blocks = breaks + evts
  BY RequestTyped DEF Blocks
<1> HIDE DEF breaks, evts
<1>2. /\ \A b \in DOMAIN req.breaks : b \in Nat /\ 1 <= b /\ b <= Blocks
      /\ \A e \in DOMAIN req.events : e \in Nat /\ 1 <= e /\ breaks + e <= Blocks
  BY <1>1
<1>3. QED
  BY <1>2 DEF breaks

LEMMA ScheduleTyped ==
  ASSUME req \in Requests
  PROVE  /\ DOMAIN Schedule \subseteq Nat
         /\ \A e \in DOMAIN Schedule :
               /\ Schedule[e].start \in Nat /\ Schedule[e].end \in Nat
               /\ Schedule[e].start < Schedule[e].end /\ Schedule[e].end < Day
<1>1. Schedule \in Seq([day : 0 .. Week - 1, start : Nat, end : Nat])
  BY RequestTyped, PlannerSchedulingAssumption DEF Schedule, PlannerRunIn
<1>2. \A e \in DOMAIN Schedule : WorkScheduleEntry(Schedule[e])
  BY RequestTyped, PlannerSchedulingAssumption DEF Schedule, PlannerRunIn
<1>3. QED
  BY <1>1, <1>2 DEF WorkScheduleEntry, Interval

LEMMA BreakTyped ==
  ASSUME req \in Requests, NEW d \in Nat, NEW b \in DOMAIN req.breaks
  PROVE  /\ Interval(BreakOn(d, req.breaks[b]))
         /\ BreakOn(d, req.breaks[b]).start = d * Day + req.breaks[b].start
         /\ BreakOn(d, req.breaks[b]).end = d * Day + req.breaks[b].end
         /\ Interval(req.breaks[b]) /\ req.breaks[b].end < Day
<1>1. Interval(req.breaks[b]) /\ req.breaks[b].end < Day
  BY RequestTyped DEF PlannerRunIn
<1>2. d * Day \in Nat
  BY MidnightIsNat
<1>3. QED
  BY <1>1, <1>2 DEF BreakOn, Interval

LEMMA EventTyped ==
  ASSUME req \in Requests, NEW e \in DOMAIN req.events
  PROVE  Interval(req.events[e])
BY RequestTyped DEF PlannerRunIn

\* The tasks to be placed have a length, a deadline and no end yet.
LEMMA TasksTyped ==
  ASSUME req \in Requests, NEW i \in DOMAIN ActiveTasks
  PROVE  /\ ActiveTasks[i].length \in Nat /\ 0 < ActiveTasks[i].length
         /\ ActiveTasks[i].due \in Nat \cup {None}
         /\ ActiveTasks[i].id \notin req.completed
<1> DEFINE active == {j \in DOMAIN req.tasks : req.tasks[j].id \notin req.completed}
<1>1. PlannerRunIn(req)
  BY RequestTyped
<1>2. CASE active # {}
  <2>1. ActiveTasks = [j \in active |-> req.tasks[j]]
    BY <1>2 DEF ActiveTasks
  <2>2. i \in DOMAIN req.tasks /\ ActiveTasks[i] = req.tasks[i]
        /\ req.tasks[i].id \notin req.completed
    BY <2>1
  <2>3. req.tasks[i] \in [id : Task, length : 1 .. Day, due : Nat \cup {None}, priority : Int]
    <3>1. req.tasks \in Seq([id : Task, length : 1 .. Day, due : Nat \cup {None}, priority : Int])
      BY <1>1 DEF PlannerRunIn
    <3>2. QED
      BY <2>2, <3>1, ElementTyped
  <2>4. QED
    BY <2>2, <2>3, DayIsPositive
<1>3. CASE active = {}
  <2>1. ActiveTasks = [j \in DOMAIN Fillers |-> Filler(j)]
    BY <1>3 DEF ActiveTasks
  <2>2. i \in DOMAIN Fillers /\ ActiveTasks[i] = Filler(i)
    BY <2>1
  <2>3. Fillers[i] \in 1 .. Day
    BY <2>2, PlannerSchedulingAssumption
  <2>4. None \notin req.completed
    BY <1>1, PlannerSchedulingAssumption DEF PlannerRunIn
  <2>5. QED
    BY <2>2, <2>3, <2>4, DayIsPositive DEF Filler
<1>4. QED
  BY <1>2, <1>3

LEMMA DeadlineTyped ==
  ASSUME req \in Requests, tasks = ActiveTasks, NEW i \in DOMAIN tasks
  PROVE  Deadline(i) \in Nat
<1>1. (Week + 1) * Day - 1 \in Nat
  BY DayIsPositive
<1>2. tasks[i].due \in Nat \cup {None}
  BY TasksTyped
<1>3. QED
  BY <1>1, <1>2 DEF Deadline

\* The request never changes, nor what is only said of it.
LEMMA SameRequest ==
  ASSUME req' = req
  PROVE  /\ \A s, d, e : InEntry(s, d, e)' = InEntry(s, d, e)
         /\ \A s, d, n : Clear(s, d, n)' = Clear(s, d, n)
         /\ \A s : Admissible(s)' = Admissible(s)
         /\ Schedule' = Schedule /\ ActiveTasks' = ActiveTasks
         /\ ScheduleOverlaps' = ScheduleOverlaps /\ Blocks' = Blocks
BY DEF InEntry, Clear, Admissible, Schedule, ActiveTasks, ScheduleOverlaps, Blocks,
       PlannedDay, Offset, Weekday, InEvent

LEMMA SameSlotsExplained ==
  ASSUME UNCHANGED <<req, tasks, slots>>
  PROVE  \A i : Explained(i)' = Explained(i)
BY DEF Explained, Flag, Schedule, PlannedDay, Offset, Weekday, DateOf

---------------------------------------------------------------------------
(* Parts of the week *)

\* What lies in an entry of a day lies on that day.
LEMMA EntryDate ==
  ASSUME req \in Requests, NEW s, Interval(s), NEW d, NEW e, InEntry(s, d, e)
  PROVE  /\ d \in Nat /\ DateOf(s.start) = d
         /\ TimeOf(s.start) = s.start - d * Day
         /\ TimeOf(s.end) = s.end - d * Day
         /\ Schedule[e].start <= TimeOf(s.start) /\ TimeOf(s.end) <= Schedule[e].end
<1> DEFINE base == d * Day
<1>1. d \in Nat /\ base \in Nat
  BY MidnightIsNat, DayIsPositive DEF InEntry
<1>2. /\ Schedule[e].start \in Nat /\ Schedule[e].end \in Nat /\ Schedule[e].end < Day
      /\ base + Schedule[e].start <= s.start /\ s.end <= base + Schedule[e].end
      /\ s.start \in Nat /\ s.end \in Nat /\ s.start < s.end
  BY ScheduleTyped DEF InEntry, Interval
<1>3. \A t \in Nat : base <= t /\ t < base + Day => DateOf(t) = d /\ TimeOf(t) = t - base
  <2> SUFFICES ASSUME NEW t \in Nat, base <= t, t < base + Day
               PROVE  DateOf(t) = d /\ TimeOf(t) = t - base
    OBVIOUS
  <2> DEFINE x == t - base
  <2>1. x \in Nat /\ x < Day /\ t = base + x
    BY <1>1, DayIsPositive
  <2> HIDE DEF x
  <2>2. DateOf(base + x) = d /\ TimeOf(base + x) = x
    BY <1>1, <2>1, DateOfInstant
  <2>3. QED
    BY <2>1, <2>2 DEF x
<1> HIDE DEF base
<1>4. base <= s.start /\ s.start < base + Day /\ base <= s.end /\ s.end < base + Day
  BY <1>1, <1>2, DayIsPositive
<1>5. /\ DateOf(s.start) = d /\ TimeOf(s.start) = s.start - base
      /\ TimeOf(s.end) = s.end - base
  BY <1>2, <1>3, <1>4
<1>6. Schedule[e].start <= TimeOf(s.start) /\ TimeOf(s.end) <= Schedule[e].end
  BY <1>1, <1>2, <1>5
<1>7. QED
  BY <1>1, <1>5, <1>6 DEF base

LEMMA PartApart ==
  ASSUME NEW s, NEW w, NEW b, Interval(s), Interval(w), Interval(b),
         Within(s, w), ~ Overlap(w, b)
  PROVE  ~ Overlap(s, b)
BY DEF Interval, Within, Overlap

LEMMA PartOfFree ==
  ASSUME req \in Requests, NEW s, NEW w, NEW d, NEW e, NEW n,
         Interval(s), Interval(w), Within(s, w), InEntry(w, d, e), Clear(w, d, n)
  PROVE  InEntry(s, d, e) /\ Clear(s, d, n)
<1>1. d \in Nat /\ d * Day \in Nat
  BY MidnightIsNat, DayIsPositive DEF InEntry
<1>2. InEntry(s, d, e)
  <2> DEFINE base == d * Day
  <2>1. base \in Nat /\ Schedule[e].start \in Nat /\ Schedule[e].end \in Nat
    BY <1>1, ScheduleTyped DEF InEntry
  <2>2. base + Schedule[e].start <= w.start /\ w.end <= base + Schedule[e].end
    BY DEF InEntry
  <2>3. base + Schedule[e].start <= s.start /\ s.end <= base + Schedule[e].end
    <3> HIDE DEF base
    <3>1. QED
      BY <2>1, <2>2 DEF Within, Interval
  <2>4. QED
    BY <2>3 DEF InEntry
<1>3. Clear(s, d, n)
  BY <1>1, PartApart, BreakTyped, EventTyped DEF Clear
<1>4. QED
  BY <1>2, <1>3

LEMMA AdmissibleTime ==
  ASSUME req \in Requests, NEW s, Interval(s)
  PROVE  Admissible(s) <=>
            \E d \in 0 .. Week - 1, e \in DOMAIN Schedule :
               InEntry(s, d, e) /\ Clear(s, d, Blocks)
<1>1. \A b \in DOMAIN req.breaks : b <= Blocks
  BY BlocksAreCounted
<1>2. \A e \in DOMAIN req.events : Len(req.breaks) + e <= Blocks
  BY BlocksAreCounted
<1>3. \A d : Clear(s, d, Blocks) <=>
         /\ \A b \in DOMAIN req.breaks : ~ Overlap(s, BreakOn(d, req.breaks[b]))
         /\ ~ InEvent(s)
  BY <1>1, <1>2 DEF Clear, InEvent, Overlap
<1>4. ASSUME Admissible(s)
      PROVE  \E d \in 0 .. Week - 1, e \in DOMAIN Schedule :
                InEntry(s, d, e) /\ Clear(s, d, Blocks)
  <2> DEFINE d == DateOf(s.start)
  <2>1. PICK e \in DOMAIN Schedule :
           /\ Schedule[e].day = PlannedDay(d)
           /\ d * Day + Schedule[e].start <= s.start
           /\ s.end <= d * Day + Schedule[e].end
    BY <1>4 DEF Admissible
  <2>2. d \in Nat /\ d < Week
    BY <1>4, InstantOfDate DEF Admissible, Interval
  <2>3. d \in 0 .. Week - 1
    BY <2>2, DayIsPositive
  <2>4. InEntry(s, d, e)
    BY <1>4, <2>1, <2>3 DEF InEntry, Admissible
  <2>5. Clear(s, d, Blocks)
    BY <1>3, <1>4 DEF Admissible
  <2>6. QED
    BY <2>3, <2>4, <2>5
<1>5. ASSUME NEW d \in 0 .. Week - 1, NEW e \in DOMAIN Schedule,
             InEntry(s, d, e), Clear(s, d, Blocks)
      PROVE  Admissible(s)
  <2>1. DateOf(s.start) = d /\ d < Week
    BY <1>5, EntryDate, DayIsPositive
  <2>2. /\ Schedule[e].day = PlannedDay(d) /\ PlannedDay(d) \notin req.noPlanDays
        /\ d * Day + Schedule[e].start <= s.start
        /\ s.end <= d * Day + Schedule[e].end
    BY <1>5 DEF InEntry
  <2>3. QED
    BY <1>3, <1>5, <2>1, <2>2 DEF Admissible
<1>6. QED
  BY <1>4, <1>5

---------------------------------------------------------------------------
(* Cutting a block out of a window *)

LEMMA CutsAreSeparate ==
  ASSUME NEW ws, NEW b
  PROVE  SubtractInterval(ws, b) = UNION {SubtractInterval({w}, b) : w \in ws}
<1>1. ASSUME NEW v, v \in SubtractInterval(ws, b)
      PROVE  \E w \in ws : v \in SubtractInterval({w}, b)
  BY <1>1 DEF SubtractInterval
<1>2. ASSUME NEW w \in ws, NEW v, v \in SubtractInterval({w}, b)
      PROVE  v \in SubtractInterval(ws, b)
  BY <1>2 DEF SubtractInterval
<1>3. QED
  BY <1>1, <1>2

\* What is left of a window is apart from the block, and is all that was.
LEMMA CutWindow ==
  ASSUME NEW w \in Window, Interval(w), NEW b, Interval(b)
  PROVE  LET left == SubtractInterval({w}, b) IN
         /\ left \subseteq Window
         /\ \A v \in left :
               /\ Interval(v) /\ Within(v, w) /\ v.entry = w.entry
               /\ ~ Overlap(v, b)
         /\ \A u, v \in left : u # v => ~ Overlap(u, v)
         /\ \A s \in Slot : Interval(s) /\ Within(s, w) /\ ~ Overlap(s, b) =>
               \E v \in left : Within(s, v)
<1> DEFINE left == SubtractInterval({w}, b)
           before == [w EXCEPT !.end = b.start]
           after == [w EXCEPT !.at = b.end, !.start = b.end]
<1>1. /\ w.start \in Nat /\ w.end \in Nat /\ w.start < w.end
      /\ b.start \in Nat /\ b.end \in Nat /\ b.start < b.end
  BY DEF Interval
<1>2. before \in Window /\ before.start = w.start /\ before.end = b.start
      /\ before.entry = w.entry
  BY <1>1 DEF Window
<1>3. after \in Window /\ after.start = b.end /\ after.end = w.end
      /\ after.entry = w.entry
  BY <1>1 DEF Window
<1>4. left = (IF ~ Overlap(w, b) THEN {w} ELSE {})
               \cup (IF Overlap(w, b) /\ w.start < b.start THEN {before} ELSE {})
               \cup (IF Overlap(w, b) /\ b.end < w.end THEN {after} ELSE {})
  <2>1. Overlap(w, b) <=> ~ (b.end <= w.start \/ w.end <= b.start)
    BY <1>1 DEF Overlap
  <2>2. ASSUME NEW v, v \in left
        PROVE  \/ v = w /\ ~ Overlap(w, b)
               \/ v = before /\ Overlap(w, b) /\ w.start < b.start
               \/ v = after /\ Overlap(w, b) /\ b.end < w.end
    BY <2>1, <2>2 DEF SubtractInterval
  <2>3. /\ ~ Overlap(w, b) => w \in left
        /\ Overlap(w, b) /\ w.start < b.start => before \in left
        /\ Overlap(w, b) /\ b.end < w.end => after \in left
    BY <2>1 DEF SubtractInterval
  <2> HIDE DEF left, before, after
  <2>4. QED
    BY <2>2, <2>3
<1> HIDE DEF left, before, after
<1>5. ASSUME NEW v \in left
      PROVE  /\ v \in Window /\ Interval(v) /\ Within(v, w) /\ v.entry = w.entry
             /\ ~ Overlap(v, b)
  BY <1>1, <1>2, <1>3, <1>4 DEF Interval, Within, Overlap
<1>6. ASSUME NEW u \in left, NEW v \in left, u # v
      PROVE  ~ Overlap(u, v)
  BY <1>1, <1>2, <1>3, <1>4, <1>6 DEF Overlap
<1>7. ASSUME NEW s \in Slot, Interval(s), Within(s, w), ~ Overlap(s, b)
      PROVE  \E v \in left : Within(s, v)
  BY <1>1, <1>2, <1>3, <1>4, <1>7 DEF Interval, Within, Overlap
<1>8. QED
  BY <1>5, <1>6, <1>7 DEF left

---------------------------------------------------------------------------
(* The invariant holds to begin with, and while windows are built          *)

LEMMA InitPlan == Init => PlanInv
<1> SUFFICES ASSUME Init PROVE PlanInv
  OBVIOUS
<1>1. /\ req \in Requests /\ phase = "windows" /\ tasks = <<>> /\ todo = {}
      /\ windows = {} /\ block = 0 /\ slots = <<>> /\ refused = {}
      /\ edited = <<>> /\ conflicts = <<>>
  BY DEF Init
<1>2. DOMAIN slots = {} /\ DOMAIN edited = {} /\ DOMAIN conflicts = {} /\ DOMAIN tasks = {}
  BY <1>1
<1>3. block \in 0 .. Blocks
  BY <1>1, RequestTyped
<1>4. Stages
  BY <1>1, <1>2, <1>3 DEF Stages
<1>5. WindowsAreFree /\ SlotsAreFree /\ AllIsApart
  BY <1>1, <1>2 DEF WindowsAreFree, SlotsAreFree, AllIsApart
<1>6. WindowsAreAll /\ RefusedHaveNoRoom
  BY <1>1 DEF WindowsAreAll, RefusedHaveNoRoom
<1>7. ComplaintsExplained
  BY <1>2 DEF ComplaintsExplained
<1>8. QED
  BY <1>4, <1>5, <1>6, <1>7 DEF PlanInv

FirstWindow(d, e) ==
  [at |-> d * Day + Schedule[e].start, entry |-> e,
   start |-> d * Day + Schedule[e].start, end |-> d * Day + Schedule[e].end]

LEMMA FirstWindows ==
  ASSUME GenerateSlots \/ ServiceGenerateSlots
  PROVE  \A w : w \in windows' <=>
            \E d \in 0 .. Week - 1, e \in DOMAIN Schedule :
               /\ Schedule[e].day = PlannedDay(d) /\ PlannedDay(d) \notin req.noPlanDays
               /\ w = FirstWindow(d, e)
<1>1. CASE GenerateSlots
  <2>1. windows' = WindowsBy(Offset) /\ \A d : PlannedDay(d) = Offset(d)
    BY <1>1 DEF GenerateSlots, BuildAvailableWindows, PlannedDay
  <2>2. QED
    BY <2>1 DEF WindowsBy, FirstWindow
<1>2. CASE ServiceGenerateSlots
  <2>1. windows' = WindowsBy(Weekday) /\ \A d : PlannedDay(d) = Weekday(d)
    BY <1>2 DEF ServiceGenerateSlots, ServiceBuildAvailableWindows, PlannedDay
  <2>2. QED
    BY <2>1 DEF WindowsBy, FirstWindow
<1>3. QED
  BY <1>1, <1>2

LEMMA StartPlan ==
  ASSUME PlanInv, GenerateSlots \/ ServiceGenerateSlots
  PROVE  PlanInv'
<1> USE DEF PlanInv
<1>1. /\ req' = req /\ req \in Requests /\ phase = "windows" /\ phase' = "subtract"
      /\ tasks' = ActiveTasks /\ todo' = DOMAIN ActiveTasks
      /\ UNCHANGED <<block, slots, refused, edited, conflicts>>
      /\ block = 0 /\ slots = <<>> /\ refused = {}
  BY DEF GenerateSlots, ServiceGenerateSlots, Start, Stages
<1>2. DOMAIN slots = {}
  BY <1>1
<1>3. Stages'
  BY <1>1, <1>2, SameRequest DEF Stages
<1>4. ASSUME NEW d \in 0 .. Week - 1, NEW e \in DOMAIN Schedule,
             Schedule[e].day = PlannedDay(d), PlannedDay(d) \notin req.noPlanDays
      PROVE  LET w == FirstWindow(d, e) IN
             /\ w \in Window /\ Interval(w) /\ w.entry = e
             /\ w.start = d * Day + Schedule[e].start
             /\ w.end = d * Day + Schedule[e].end
             /\ InEntry(w, d, e) /\ Clear(w, d, 0)
  <2> DEFINE base == d * Day
             w == FirstWindow(d, e)
  <2>1. base \in Nat /\ e \in Nat /\ 0 <= d
    BY <1>1, MidnightIsNat, ScheduleTyped, DayIsPositive
  <2>2. /\ Schedule[e].start \in Nat /\ Schedule[e].end \in Nat
        /\ Schedule[e].start < Schedule[e].end
    BY <1>1, ScheduleTyped
  <2>3. w = [at |-> base + Schedule[e].start, entry |-> e,
             start |-> base + Schedule[e].start, end |-> base + Schedule[e].end]
    BY DEF FirstWindow
  <2> HIDE DEF base, w
  <2>4. /\ w \in Window /\ Interval(w) /\ w.entry = e
        /\ w.start = base + Schedule[e].start /\ w.end = base + Schedule[e].end
    BY <2>1, <2>2, <2>3 DEF Window, Interval
  <2>5. InEntry(w, d, e)
    BY <1>4, <2>1, <2>2, <2>4 DEF InEntry, base
  <2>6. Clear(w, d, 0)
    <3>1. /\ \A b \in DOMAIN req.breaks : b \in Nat /\ 1 <= b
          /\ \A k \in DOMAIN req.events : k \in Nat /\ 1 <= k
          /\ Len(req.breaks) \in Nat
      BY <1>1, BlocksAreCounted, RequestTyped
    <3>2. QED
      BY <3>1 DEF Clear
  <2>7. QED
    BY <2>4, <2>5, <2>6 DEF w, base
<1>5. \A w \in windows' : \E d \in 0 .. Week - 1, e \in DOMAIN Schedule :
         /\ Schedule[e].day = PlannedDay(d) /\ PlannedDay(d) \notin req.noPlanDays
         /\ w = FirstWindow(d, e)
  BY FirstWindows
<1>6. WindowsAreFree'
  <2>1. \A w \in windows' :
           /\ w \in Window /\ Interval(w)
           /\ \E d \in 0 .. Week - 1 : InEntry(w, d, w.entry) /\ Clear(w, d, 0)
    BY <1>4, <1>5
  <2>2. QED
    BY <1>1, <2>1, SameRequest DEF WindowsAreFree
<1>7. SlotsAreFree'
  BY <1>1, <1>2 DEF SlotsAreFree
<1>8. AllIsApart'
  <2> SUFFICES ASSUME ~ ScheduleOverlaps, NEW v \in windows', NEW w \in windows', v # w
               PROVE  ~ Overlap(v, w)
    BY <1>1, <1>2, SameRequest DEF AllIsApart, Untaken
  <2>1. PICK c \in 0 .. Week - 1, f \in DOMAIN Schedule :
           /\ Schedule[f].day = PlannedDay(c) /\ PlannedDay(c) \notin req.noPlanDays
           /\ v = FirstWindow(c, f)
    BY <1>5
  <2>2. PICK d \in 0 .. Week - 1, e \in DOMAIN Schedule :
           /\ Schedule[e].day = PlannedDay(d) /\ PlannedDay(d) \notin req.noPlanDays
           /\ w = FirstWindow(d, e)
    BY <1>5
  <2> DEFINE cs == c * Day
             ds == d * Day
  <2>3. c \in Nat /\ d \in Nat /\ cs \in Nat /\ ds \in Nat
    BY MidnightIsNat, DayIsPositive
  <2>4. /\ v.start = cs + Schedule[f].start /\ v.end = cs + Schedule[f].end
        /\ w.start = ds + Schedule[e].start /\ w.end = ds + Schedule[e].end
    BY <1>4, <2>1, <2>2
  <2>5. \A k \in {e, f} : /\ Schedule[k].start \in Nat /\ Schedule[k].end \in Nat
                          /\ Schedule[k].end < Day
    BY <1>1, ScheduleTyped
  <2>6. CASE c = d
    <3>1. e # f /\ ~ Overlap(Schedule[f], Schedule[e])
      BY <2>1, <2>2, <2>6 DEF ScheduleOverlaps
    <3>2. cs = ds
      BY <2>6
    <3> HIDE DEF cs, ds
    <3>3. QED
      BY <2>3, <2>4, <2>5, <3>1, <3>2 DEF Overlap
  <2>7. CASE c # d
    <3>1. cs + Day <= ds \/ ds + Day <= cs
      BY <2>3, <2>7, NextDay
    <3> HIDE DEF cs, ds
    <3>2. QED
      BY <2>3, <2>4, <2>5, <3>1, DayIsPositive DEF Overlap
  <2>8. QED
    BY <2>6, <2>7
<1>9. WindowsAreAll'
  <2> SUFFICES ASSUME NEW s \in Slot, NEW d \in 0 .. Week - 1, NEW e \in DOMAIN Schedule,
                      InEntry(s, d, e)
               PROVE  \E w \in windows' : Within(s, w)
    BY <1>1, SameRequest DEF WindowsAreAll
  <2>1. Schedule[e].day = PlannedDay(d) /\ PlannedDay(d) \notin req.noPlanDays
    BY DEF InEntry
  <2>2. FirstWindow(d, e) \in windows'
    BY <2>1, FirstWindows
  <2>3. Within(s, FirstWindow(d, e))
    BY <1>4, <2>1 DEF InEntry, Within
  <2>4. QED
    BY <2>2, <2>3
<1>10. RefusedHaveNoRoom'
  BY <1>1 DEF RefusedHaveNoRoom
<1>11. ComplaintsExplained'
  BY <1>1 DEF Stages, ComplaintsExplained
<1>12. QED
  BY <1>3, <1>6, <1>7, <1>8, <1>9, <1>10, <1>11

\* The block cut out next, on day d.
NextBlock(d) ==
  IF block < Len(req.breaks) THEN BreakOn(d, req.breaks[block + 1])
                             ELSE req.events[block + 1 - Len(req.breaks)]

LEMMA NextBlockTyped ==
  ASSUME req \in Requests, block \in Nat, block < Blocks
  PROVE  /\ \A d \in Nat : Interval(NextBlock(d))
         /\ \A s, d : Clear(s, d, block + 1) <=>
                         Clear(s, d, block) /\ ~ Overlap(s, NextBlock(d))
<1> DEFINE breaks == Len(req.breaks)
           evts == Len(req.events)
<1>1. /\ breaks \in Nat /\ DOMAIN req.breaks = 1 .. breaks
      /\ evts \in Nat /\ DOMAIN req.events = 1 .. evts
      /\ Blocks = breaks + evts
  BY RequestTyped DEF Blocks
<1>2. CASE block < breaks
  <2>1. block + 1 \in DOMAIN req.breaks
        /\ \A d : NextBlock(d) = BreakOn(d, req.breaks[block + 1])
    BY <1>1, <1>2 DEF NextBlock
  <2>2. \A d \in Nat : Interval(NextBlock(d))
    BY <2>1, BreakTyped
  <2> HIDE DEF breaks, evts
  <2>3. /\ \A b \in DOMAIN req.breaks : b <= block + 1 <=> b <= block \/ b = block + 1
        /\ \A e \in DOMAIN req.events : ~ (breaks + e <= block + 1) /\ ~ (breaks + e <= block)
    BY <1>1, <1>2
  <2>4. QED
    BY <2>1, <2>2, <2>3 DEF Clear, breaks
<1>3. CASE ~ (block < breaks)
  <2>1. block + 1 - breaks \in DOMAIN req.events
        /\ \A d : NextBlock(d) = req.events[block + 1 - breaks]
    <3>1. \A d : NextBlock(d) = req.events[block + 1 - breaks]
      BY <1>3 DEF NextBlock
    <3> HIDE DEF breaks, evts
    <3>2. QED
      BY <1>1, <1>3, <3>1
  <2>2. \A d \in Nat : Interval(NextBlock(d))
    BY <2>1, EventTyped
  <2> HIDE DEF breaks, evts
  <2>3. /\ \A b \in DOMAIN req.breaks : b <= block + 1 /\ b <= block
        /\ \A e \in DOMAIN req.events :
              breaks + e <= block + 1 <=> breaks + e <= block \/ e = block + 1 - breaks
    BY <1>1, <1>3
  <2>4. QED
    BY <2>1, <2>2, <2>3 DEF Clear, breaks
<1>4. QED
  BY <1>2, <1>3

LEMMA CutPlan ==
  ASSUME PlanInv, CutNext
  PROVE  PlanInv'
<1> USE DEF PlanInv
<1>1. /\ phase = "subtract" /\ block < Blocks /\ block' = block + 1
      /\ UNCHANGED <<req, phase, tasks, todo, slots, refused, edited, conflicts>>
      /\ req \in Requests /\ block \in Nat /\ slots = <<>> /\ refused = {}
  <2>1. req \in Requests /\ block \in 0 .. Blocks
    BY DEF Stages
  <2>2. Blocks \in Nat
    BY <2>1, RequestTyped
  <2>3. /\ phase = "subtract" /\ block < Blocks /\ block' = block + 1
        /\ UNCHANGED <<req, phase, tasks, todo, slots, refused, edited, conflicts>>
    BY DEF CutNext, Blocks
  <2>4. slots = <<>> /\ refused = {}
    BY <2>3 DEF Stages
  <2>5. block \in Nat
    BY <2>1, <2>2
  <2>6. QED
    BY <2>1, <2>3, <2>4, <2>5
<1>2. DOMAIN slots = {}
  BY <1>1
<1>3. Stages'
  <2>1. block + 1 \in 0 .. Blocks
    BY <1>1, RequestTyped
  <2>2. QED
    BY <1>1, <2>1, SameRequest DEF Stages
<1>4. ASSUME NEW w \in windows
      PROVE  \E d \in 0 .. Week - 1 :
                /\ DateOf(w.start) = d /\ d \in Nat
                /\ InEntry(w, d, w.entry) /\ Clear(w, d, block)
  BY <1>1, EntryDate DEF WindowsAreFree
<1> DEFINE Left(w) == SubtractInterval({w}, NextBlock(DateOf(w.start)))
<1>5. windows' = UNION {Left(w) : w \in windows}
  <2>1. CASE block < Len(req.breaks)
    BY <2>1 DEF CutNext, NextBlock
  <2>2. CASE ~ (block < Len(req.breaks))
    <3> DEFINE event == req.events[block + 1 - Len(req.breaks)]
    <3>1. windows' = SubtractInterval(windows, event)
      BY <2>2 DEF CutNext
    <3>2. \A w : Left(w) = SubtractInterval({w}, event)
      BY <2>2 DEF NextBlock
    <3> HIDE DEF event, Left
    <3>3. {Left(w) : w \in windows} = {SubtractInterval({w}, event) : w \in windows}
      BY <3>2
    <3>4. SubtractInterval(windows, event)
             = UNION {SubtractInterval({w}, event) : w \in windows}
      BY CutsAreSeparate
    <3>5. QED
      BY <3>1, <3>3, <3>4
  <2>3. QED
    BY <2>1, <2>2
<1>6. ASSUME NEW w \in windows
      PROVE  /\ w \in Window /\ Interval(w) /\ Interval(NextBlock(DateOf(w.start)))
             /\ Left(w) \subseteq Window
             /\ \A v \in Left(w) :
                   /\ Interval(v) /\ Within(v, w) /\ v.entry = w.entry
                   /\ ~ Overlap(v, NextBlock(DateOf(w.start)))
             /\ \A u, v \in Left(w) : u # v => ~ Overlap(u, v)
             /\ \A s \in Slot :
                   Interval(s) /\ Within(s, w) /\ ~ Overlap(s, NextBlock(DateOf(w.start))) =>
                      \E v \in Left(w) : Within(s, v)
  <2>1. w \in Window /\ Interval(w)
    BY DEF WindowsAreFree
  <2>2. Interval(NextBlock(DateOf(w.start)))
    BY <1>1, <1>4, NextBlockTyped
  <2>3. QED
    BY <2>1, <2>2, CutWindow
<1> HIDE DEF Left
<1>7. WindowsAreFree'
  <2>1. ASSUME NEW v \in windows'
        PROVE  /\ v \in Window /\ Interval(v)
               /\ \E d \in 0 .. Week - 1 : InEntry(v, d, v.entry) /\ Clear(v, d, block + 1)
    <3>1. PICK w \in windows : v \in Left(w)
      BY <1>5
    <3>2. PICK d \in 0 .. Week - 1 :
             /\ DateOf(w.start) = d /\ d \in Nat
             /\ InEntry(w, d, w.entry) /\ Clear(w, d, block)
      BY <1>4
    <3>3. /\ v \in Window /\ Interval(v) /\ Within(v, w) /\ v.entry = w.entry
          /\ ~ Overlap(v, NextBlock(d)) /\ Interval(w)
      BY <1>6, <3>1, <3>2
    <3>4. InEntry(v, d, v.entry) /\ Clear(v, d, block)
      BY <1>1, <3>2, <3>3, PartOfFree
    <3>5. Clear(v, d, block + 1)
      BY <1>1, <3>3, <3>4, NextBlockTyped
    <3>6. QED
      BY <3>3, <3>4, <3>5
  <2>2. QED
    BY <1>1, <2>1, SameRequest DEF WindowsAreFree
<1>8. SlotsAreFree'
  BY <1>1, <1>2 DEF SlotsAreFree
<1>9. AllIsApart'
  <2> SUFFICES ASSUME ~ ScheduleOverlaps, NEW u \in windows', NEW v \in windows', u # v
               PROVE  ~ Overlap(u, v)
    BY <1>1, <1>2, SameRequest DEF AllIsApart, Untaken
  <2>1. PICK x \in windows : u \in Left(x)
    BY <1>5
  <2>2. PICK y \in windows : v \in Left(y)
    BY <1>5
  <2>3. CASE x = y
    BY <1>6, <2>1, <2>2, <2>3
  <2>4. CASE x # y
    <3>1. ~ Overlap(x, y)
      BY <2>4 DEF AllIsApart
    <3>2. /\ Interval(u) /\ Within(u, x) /\ Interval(v) /\ Within(v, y)
          /\ Interval(x) /\ Interval(y)
      BY <1>6, <2>1, <2>2
    <3>3. QED
      BY <3>1, <3>2 DEF Interval, Within, Overlap
  <2>5. QED
    BY <2>3, <2>4
<1>10. WindowsAreAll'
  <2> SUFFICES ASSUME NEW s \in Slot, NEW d \in 0 .. Week - 1, NEW e \in DOMAIN Schedule,
                      Interval(s), InEntry(s, d, e), Clear(s, d, block + 1)
               PROVE  \E v \in windows' : Within(s, v)
    BY <1>1, SameRequest DEF WindowsAreAll
  <2>1. Clear(s, d, block) /\ ~ Overlap(s, NextBlock(d))
    BY <1>1, NextBlockTyped
  <2>2. PICK w \in windows : Within(s, w)
    BY <1>1, <1>2, <2>1 DEF WindowsAreAll, Untaken
  <2>3. DateOf(w.start) = d
    <3>1. PICK c \in 0 .. Week - 1 :
             DateOf(w.start) = c /\ InEntry(w, c, w.entry) /\ Clear(w, c, block)
      BY <1>4
    <3>2. Interval(w)
      BY <1>6
    <3>3. InEntry(s, c, w.entry)
      BY <1>1, <2>2, <3>1, <3>2, PartOfFree
    <3>4. DateOf(s.start) = c /\ DateOf(s.start) = d
      BY <1>1, <3>3, EntryDate
    <3>5. QED
      BY <3>1, <3>4
  <2>4. PICK v \in Left(w) : Within(s, v)
    BY <1>6, <2>1, <2>2, <2>3
  <2>5. QED
    BY <1>5, <2>4
<1>11. RefusedHaveNoRoom'
  BY <1>1 DEF RefusedHaveNoRoom
<1>12. ComplaintsExplained'
  BY <1>1 DEF Stages, ComplaintsExplained
<1>13. QED
  BY <1>3, <1>7, <1>8, <1>9, <1>10, <1>11, <1>12

---------------------------------------------------------------------------
(* ... while tasks are placed                                              *)

\* What is neither taken nor excluded before a task is placed.
LEMMA SameSlots ==
  ASSUME req' = req, tasks' = tasks, slots' = slots, SlotsAreFree
  PROVE  /\ SlotsAreFree'
         /\ \A s : Untaken(s)' = Untaken(s)
         /\ \A i : Deadline(i)' = Deadline(i)
<1>1. \A i : Deadline(i)' = Deadline(i)
  BY DEF Deadline
<1>2. \A s : Untaken(s)' = Untaken(s)
  BY DEF Untaken
<1>3. SlotsAreFree'
  BY <1>1, SameRequest DEF SlotsAreFree
<1>4. QED
  BY <1>1, <1>2, <1>3

LEMMA RefusePlan ==
  ASSUME PlanInv, phase = "place", NEW i \in todo, Refuse(i), todo' = todo \ {i},
         UNCHANGED <<req, phase, tasks, block, edited, conflicts>>
  PROVE  PlanInv'
<1> USE DEF PlanInv
<1>1. /\ refused' = refused \cup {i} /\ UNCHANGED <<windows, slots>>
      /\ req \in Requests /\ block = Blocks /\ tasks = ActiveTasks /\ i \in DOMAIN tasks
  BY DEF Refuse, Stages
<1>2. Stages'
  BY <1>1, SameRequest DEF Stages
<1>3. WindowsAreFree'
  BY <1>1, SameRequest DEF WindowsAreFree
<1>4. /\ SlotsAreFree' /\ \A s : Untaken(s)' = Untaken(s)
      /\ \A j : Deadline(j)' = Deadline(j)
  BY <1>1, SameSlots
<1>5. AllIsApart'
  BY <1>1, <1>4, SameRequest DEF AllIsApart
<1>6. WindowsAreAll'
  BY <1>1, <1>4, SameRequest DEF WindowsAreAll
<1>7. ASSUME NEW s \in Slot, s.end = s.start + tasks[i].length,
             Admissible(s), s.end <= Deadline(i), Untaken(s)
      PROVE  FALSE
  <2>1. tasks[i].length \in Nat /\ 0 < tasks[i].length /\ Deadline(i) \in Nat
    BY <1>1, TasksTyped, DeadlineTyped
  <2>2. s.start \in Nat /\ s.end \in Nat /\ Interval(s)
    BY <1>7, <2>1 DEF Slot, Interval
  <2>3. PICK d \in 0 .. Week - 1, e \in DOMAIN Schedule :
           InEntry(s, d, e) /\ Clear(s, d, Blocks)
    BY <1>1, <1>7, <2>2, AdmissibleTime
  <2>4. PICK w \in windows : Within(s, w)
    BY <1>1, <1>7, <2>2, <2>3 DEF WindowsAreAll
  <2>5. Interval(w)
    BY DEF WindowsAreFree
  <2>6. Fits(i, w)
    BY <1>7, <2>1, <2>2, <2>4, <2>5 DEF Fits, Within, Interval
  <2>7. QED
    BY <2>6 DEF Refuse
<1>8. RefusedHaveNoRoom'
  <2> SUFFICES ASSUME NEW j \in refused', NEW s \in Slot,
                      s.end = s.start + tasks[j].length
               PROVE  ~ Admissible(s) \/ s.end > Deadline(j) \/ ~ Untaken(s)
    BY <1>1, <1>4, SameRequest DEF RefusedHaveNoRoom
  <2>1. CASE j \in refused
    BY <2>1 DEF RefusedHaveNoRoom
  <2>2. CASE j = i
    <3>1. s.end \in Nat /\ Deadline(i) \in Nat
      BY <1>1, DeadlineTyped DEF Slot
    <3>2. QED
      BY <1>7, <2>2, <3>1
  <2>3. QED
    BY <1>1, <2>1, <2>2
<1>9. ComplaintsExplained'
  BY <1>1 DEF Stages, ComplaintsExplained
<1>10. QED
  BY <1>2, <1>3, <1>4, <1>5, <1>6, <1>8, <1>9

LEMMA PlacePlan ==
  ASSUME PlanInv, phase = "place", NEW i \in todo, NEW w \in windows, Place(i, w),
         todo' = todo \ {i}, UNCHANGED <<req, phase, tasks, block, edited, conflicts>>
  PROVE  PlanInv'
<1> USE DEF PlanInv
<1> DEFINE end == w.start + tasks[i].length
           new == [start |-> w.start, end |-> end]
           rest == [w EXCEPT !.start = end]
<1>1. /\ refused' = refused /\ Fits(i, w)
      /\ slots' = [j \in DOMAIN slots \cup {i} |-> IF j = i THEN new ELSE slots[j]]
      /\ windows' = (windows \ {w}) \cup Remaining(w, end)
      /\ req \in Requests /\ block = Blocks /\ tasks = ActiveTasks /\ i \in DOMAIN tasks
      /\ i \notin DOMAIN slots
  BY DEF Place, Stages
<1>2. /\ tasks[i].length \in Nat /\ 0 < tasks[i].length /\ Deadline(i) \in Nat
      /\ w \in Window /\ Interval(w)
  BY <1>1, TasksTyped, DeadlineTyped DEF WindowsAreFree
<1>3. /\ w.start \in Nat /\ w.end \in Nat /\ end \in Nat
      /\ w.start < end /\ end <= w.end /\ end <= Deadline(i)
  BY <1>1, <1>2 DEF Interval, Fits
<1> HIDE DEF end
<1>4. /\ new \in Slot /\ Interval(new) /\ Within(new, w)
      /\ new.start = w.start /\ new.end = end
  BY <1>3 DEF Slot, Interval, Within
<1>5. end < w.end =>
         /\ rest \in Window /\ Interval(rest) /\ Within(rest, w)
         /\ rest.entry = w.entry /\ rest.start = end /\ rest.end = w.end
  BY <1>2, <1>3 DEF Window, Interval, Within
<1>6. /\ \A v \in windows' : v \in windows \ {w} \/ (end < w.end /\ v = rest)
      /\ \A v \in windows : v = w \/ v \in windows'
      /\ end < w.end => rest \in windows'
  BY <1>1 DEF Remaining
<1>7. /\ DOMAIN slots' = DOMAIN slots \cup {i} /\ slots'[i] = new
      /\ \A j \in DOMAIN slots : slots'[j] = slots[j] /\ j # i
  BY <1>1
<1> HIDE DEF new, rest
<1>8. Stages'
  BY <1>1, <1>7, SameRequest DEF Stages
<1>9. WindowsAreFree'
  <2>1. ASSUME NEW v \in windows'
        PROVE  /\ v \in Window /\ Interval(v)
               /\ \E d \in 0 .. Week - 1 : InEntry(v, d, v.entry) /\ Clear(v, d, block)
    <3>1. CASE v \in windows
      BY <3>1 DEF WindowsAreFree
    <3>2. CASE end < w.end /\ v = rest
      BY <1>1, <1>2, <1>5, <3>2, PartOfFree DEF WindowsAreFree
    <3>3. QED
      BY <1>6, <3>1, <3>2
  <2>2. QED
    BY <2>1, SameRequest DEF WindowsAreFree
<1>10. Admissible(new)
  <2>1. PICK d \in 0 .. Week - 1 : InEntry(w, d, w.entry) /\ Clear(w, d, Blocks)
    BY <1>1 DEF WindowsAreFree
  <2>2. InEntry(new, d, w.entry) /\ Clear(new, d, Blocks)
    BY <1>1, <1>2, <1>4, <2>1, PartOfFree
  <2>3. w.entry \in DOMAIN Schedule
    BY <2>1 DEF InEntry
  <2>4. QED
    BY <1>1, <1>4, <2>2, <2>3, AdmissibleTime
<1>11. \A j : Deadline(j)' = Deadline(j)
  BY DEF Deadline
<1>12. SlotsAreFree'
  <2>1. ASSUME NEW j \in DOMAIN slots'
        PROVE  /\ slots'[j] \in Slot /\ Interval(slots'[j])
               /\ Admissible(slots'[j])
               /\ slots'[j].end = slots'[j].start + tasks[j].length
               /\ slots'[j].end <= Deadline(j)
    <3>1. CASE j = i
      BY <1>3, <1>4, <1>7, <1>10, <3>1 DEF end
    <3>2. CASE j \in DOMAIN slots
      BY <1>7, <3>2 DEF SlotsAreFree
    <3>3. QED
      BY <1>7, <3>1, <3>2
  <2>2. QED
    BY <1>11, <2>1, SameRequest DEF SlotsAreFree
<1>13. \A s : Untaken(s)' <=> Untaken(s) /\ ~ Overlap(s, new)
  BY <1>7 DEF Untaken
<1>14. AllIsApart'
  <2> SUFFICES ASSUME ~ ScheduleOverlaps
               PROVE  /\ \A u, v \in windows' : u # v => ~ Overlap(u, v)
                      /\ \A v \in windows' : Untaken(v)'
                      /\ \A j, k \in DOMAIN slots' : j # k => ~ Overlap(slots'[j], slots'[k])
    BY SameRequest DEF AllIsApart
  <2>1. /\ \A u, v \in windows : u # v => ~ Overlap(u, v)
        /\ \A v \in windows : Untaken(v)
        /\ \A j, k \in DOMAIN slots : j # k => ~ Overlap(slots[j], slots[k])
        /\ \A v \in windows : Interval(v)
        /\ \A j \in DOMAIN slots : Interval(slots[j])
    BY DEF AllIsApart, WindowsAreFree, SlotsAreFree
  <2>2. \A u, v : Interval(u) /\ Interval(v) /\ ~ Overlap(u, v) => ~ Overlap(v, u)
    BY DEF Interval, Overlap
  <2>3. ASSUME NEW v, Interval(v), ~ Overlap(w, v)
        PROVE  ~ Overlap(new, v) /\ (end < w.end => ~ Overlap(rest, v))
    BY <1>2, <1>4, <1>5, <2>3, PartApart
  <2>4. ~ Overlap(new, rest) \/ ~ (end < w.end)
    BY <1>3, <1>4, <1>5 DEF Overlap
  <2>5. ASSUME NEW u \in windows', NEW v \in windows', u # v
        PROVE  ~ Overlap(u, v)
    BY <1>2, <1>5, <1>6, <2>1, <2>2, <2>3, <2>5
  <2>6. ASSUME NEW v \in windows'
        PROVE  Untaken(v)'
    <3>1. Untaken(v)
      <4>1. CASE v \in windows
        BY <2>1, <4>1
      <4>2. CASE end < w.end /\ v = rest
        BY <2>1, <2>3, <4>2 DEF Untaken
      <4>3. QED
        BY <1>6, <4>1, <4>2
    <3>2. ~ Overlap(v, new)
      <4>1. CASE v \in windows \ {w}
        BY <1>2, <1>4, <2>1, <2>2, <2>3, <4>1
      <4>2. CASE end < w.end /\ v = rest
        BY <1>4, <1>5, <2>2, <2>4, <4>2
      <4>3. QED
        BY <1>6, <4>1, <4>2
    <3>3. QED
      BY <1>13, <3>1, <3>2
  <2>7. ASSUME NEW j \in DOMAIN slots', NEW k \in DOMAIN slots', j # k
        PROVE  ~ Overlap(slots'[j], slots'[k])
    <3>1. \A l \in DOMAIN slots : ~ Overlap(new, slots[l]) /\ ~ Overlap(slots[l], new)
      BY <1>4, <2>1, <2>2, <2>3 DEF Untaken
    <3>2. QED
      BY <1>7, <2>1, <2>7, <3>1
  <2>8. QED
    BY <2>5, <2>6, <2>7
<1>15. WindowsAreAll'
  <2> SUFFICES ASSUME NEW s \in Slot, NEW d \in 0 .. Week - 1, NEW e \in DOMAIN Schedule,
                      Interval(s), InEntry(s, d, e), Clear(s, d, block),
                      Untaken(s), ~ Overlap(s, new)
               PROVE  \E v \in windows' : Within(s, v)
    BY <1>13, SameRequest DEF WindowsAreAll
  <2>1. PICK v \in windows : Within(s, v)
    BY DEF WindowsAreAll
  <2>2. CASE v # w
    BY <1>6, <2>1, <2>2
  <2>3. CASE v = w
    <3>1. end <= s.start /\ end < w.end
      BY <1>3, <1>4, <2>1, <2>3 DEF Interval, Within, Overlap
    <3>2. Within(s, rest)
      BY <1>5, <2>1, <2>3, <3>1 DEF Within
    <3>3. QED
      BY <1>6, <3>1, <3>2
  <2>4. QED
    BY <2>2, <2>3
<1>16. RefusedHaveNoRoom'
  BY <1>1, <1>11, <1>13, SameRequest DEF RefusedHaveNoRoom
<1>17. ComplaintsExplained'
  BY <1>1 DEF Stages, ComplaintsExplained
<1>18. QED
  BY <1>8, <1>9, <1>12, <1>14, <1>15, <1>16, <1>17

---------------------------------------------------------------------------
(* ... and by the steps that leave windows and slots alone                 *)

LEMMA KeepPlan ==
  ASSUME PlanInv, UNCHANGED <<req, tasks, todo, windows, block, slots, refused>>,
         Stages', ComplaintsExplained',
         phase' \in {"subtract", "place"} => phase \in {"subtract", "place"}
  PROVE  PlanInv'
<1> USE DEF PlanInv
<1>1. /\ SlotsAreFree' /\ \A s : Untaken(s)' = Untaken(s)
      /\ \A j : Deadline(j)' = Deadline(j)
  BY SameSlots
<1>2. WindowsAreFree'
  BY SameRequest DEF WindowsAreFree
<1>3. AllIsApart'
  BY <1>1, SameRequest DEF AllIsApart
<1>4. WindowsAreAll'
  BY <1>1, SameRequest DEF WindowsAreAll
<1>5. RefusedHaveNoRoom'
  BY <1>1, SameRequest DEF RefusedHaveNoRoom
<1>6. QED
  BY <1>1, <1>2, <1>3, <1>4, <1>5

\* What the detectors of either source find in admissible time.
LEMMA NoComplaint ==
  ASSUME req \in Requests, NEW s, Interval(s), Admissible(s)
  PROVE  /\ ~ InEvent(s) /\ ~ TouchesBreak(s) /\ ~ InBreak(s)
         /\ req.source = "service" \/ req.startDay = 0 =>
               /\ ~ OutsideSchedule(s)
               /\ Weekday(DateOf(s.start)) \notin req.noPlanDays
         /\ AfterHours(s) =>
               \E e \in DOMAIN Schedule :
                  /\ Schedule[e].day = PlannedDay(DateOf(s.start))
                  /\ req.latestStart # None /\ Schedule[e].end > 60 * (req.latestStart + 1)
<1>1. PICK d \in 0 .. Week - 1, e \in DOMAIN Schedule :
         InEntry(s, d, e) /\ Clear(s, d, Blocks)
  BY AdmissibleTime
<1>2. /\ d \in Nat /\ DateOf(s.start) = d
      /\ TimeOf(s.start) = s.start - d * Day
      /\ TimeOf(s.end) = s.end - d * Day
      /\ Schedule[e].start <= TimeOf(s.start) /\ TimeOf(s.end) <= Schedule[e].end
  BY <1>1, EntryDate
<1>3. ~ InEvent(s)
  BY DEF Admissible
<1>4. ASSUME NEW b \in DOMAIN req.breaks
      PROVE  LET br == req.breaks[b] IN
             /\ ~ (br.start <= TimeOf(s.start) /\ TimeOf(s.start) < br.end)
             /\ ~ (br.start < TimeOf(s.end) /\ TimeOf(s.end) <= br.end)
             /\ ~ (TimeOf(s.start) < br.end /\ br.start < TimeOf(s.end))
  <2> DEFINE base == d * Day
             br == req.breaks[b]
             cut == BreakOn(d, br)
  <2>1. ~ Overlap(s, cut)
    BY <1>2 DEF Admissible
  <2>2. /\ cut.start = base + br.start /\ cut.end = base + br.end /\ base \in Nat
        /\ br.start \in Nat /\ br.end \in Nat /\ br.start < br.end
        /\ s.start \in Nat /\ s.end \in Nat /\ s.start < s.end
        /\ TimeOf(s.start) = s.start - base /\ TimeOf(s.end) = s.end - base
    BY <1>2, BreakTyped, MidnightIsNat DEF Interval
  <2> HIDE DEF base, br, cut
  <2>3. /\ ~ (br.start <= TimeOf(s.start) /\ TimeOf(s.start) < br.end)
        /\ ~ (br.start < TimeOf(s.end) /\ TimeOf(s.end) <= br.end)
        /\ ~ (TimeOf(s.start) < br.end /\ br.start < TimeOf(s.end))
    BY <2>1, <2>2 DEF Overlap
  <2>4. QED
    BY <2>3 DEF br
<1>5. ~ TouchesBreak(s) /\ ~ InBreak(s)
  BY <1>4 DEF TouchesBreak, InBreak
<1>6. ASSUME req.source = "service" \/ req.startDay = 0
      PROVE  /\ ~ OutsideSchedule(s)
             /\ Weekday(DateOf(s.start)) \notin req.noPlanDays
  <2>1. Weekday(d) = PlannedDay(d)
    <3>1. CASE req.source = "service"
      BY <3>1 DEF PlannedDay
    <3>2. CASE req.startDay = 0
      <4>1. Weekday(d) = d
        BY <3>2, <1>2, DayIsPositive DEF Weekday
      <4>2. QED
        BY <4>1 DEF PlannedDay, Offset
    <3>3. QED
      BY <1>6, <3>1, <3>2
  <2>2. Schedule[e].day = PlannedDay(d) /\ PlannedDay(d) \notin req.noPlanDays
    BY <1>1 DEF InEntry
  <2>3. ASSUME req.schedule # <<>>
        PROVE  /\ e \in DOMAIN req.schedule
               /\ req.schedule[e].day = Weekday(DateOf(s.start))
               /\ ~ (TimeOf(s.start) < req.schedule[e].start)
               /\ ~ (req.schedule[e].end < TimeOf(s.end))
    <3>1. Schedule = req.schedule
      BY <2>3 DEF Schedule
    <3>2. /\ Schedule[e].start \in Nat /\ Schedule[e].end \in Nat
          /\ TimeOf(s.start) \in Nat /\ TimeOf(s.end) \in Nat
      BY ScheduleTyped, InstantOfDate DEF Interval
    <3>3. ~ (TimeOf(s.start) < Schedule[e].start) /\ ~ (Schedule[e].end < TimeOf(s.end))
      BY <1>2, <3>2
    <3>4. QED
      BY <1>2, <2>1, <2>2, <3>1, <3>3
  <2>4. ~ OutsideSchedule(s)
    BY <2>3 DEF OutsideSchedule
  <2>5. QED
    BY <1>2, <2>1, <2>2, <2>4
<1>7. ASSUME AfterHours(s)
      PROVE  /\ Schedule[e].day = PlannedDay(DateOf(s.start))
             /\ req.latestStart # None /\ Schedule[e].end > 60 * (req.latestStart + 1)
  <2>1. req.latestStart \in 0 .. 23 /\ TimeOf(s.start) \div 60 > req.latestStart
    BY <1>7, RequestTyped DEF AfterHours, PlannerRunIn
  <2>2. /\ TimeOf(s.start) \in Nat /\ TimeOf(s.end) \in Nat /\ Schedule[e].end \in Nat
        /\ TimeOf(s.start) < TimeOf(s.end) /\ TimeOf(s.end) <= Schedule[e].end
    <3>1. TimeOf(s.start) \in Nat /\ TimeOf(s.end) \in Nat /\ Schedule[e].end \in Nat
      BY ScheduleTyped, InstantOfDate DEF Interval
    <3>2. d * Day \in Nat /\ s.start \in Nat /\ s.end \in Nat /\ s.start < s.end
      BY <1>2, MidnightIsNat DEF Interval
    <3>3. s.start - d * Day < s.end - d * Day
      BY <3>2
    <3>4. QED
      BY <1>2, <3>1, <3>3
  <2>3. TimeOf(s.start) >= 60 * (req.latestStart + 1)
    BY <2>1, <2>2
  <2>4. Schedule[e].end > 60 * (req.latestStart + 1)
    BY <2>1, <2>2, <2>3
  <2>5. req.latestStart # None
    BY <1>7 DEF AfterHours
  <2>6. Schedule[e].day = PlannedDay(DateOf(s.start))
    BY <1>1, <1>2 DEF InEntry
  <2>7. QED
    BY <2>4, <2>5, <2>6
<1>8. QED
  BY <1>3, <1>5, <1>6, <1>7

LEMMA DetectPlan ==
  ASSUME PlanInv, DetectConflicts \/ ServiceDetectConflicts
  PROVE  PlanInv'
<1>1. /\ phase = "detect" /\ phase' = "done"
      /\ UNCHANGED <<req, tasks, todo, windows, block, slots, refused, edited>>
      /\ req \in Requests /\ tasks = ActiveTasks /\ DOMAIN slots \subseteq DOMAIN tasks
  BY DEF DetectConflicts, ServiceDetectConflicts, PlanInv, Stages
<1>2. Stages'
  BY <1>1, SameRequest DEF PlanInv, Stages
<1>3. ASSUME NEW i \in DOMAIN conflicts'
      PROVE  conflicts'[i] \subseteq Explained(i)
  <2> DEFINE s == slots[i]
             late == \E e \in DOMAIN Schedule :
                        /\ Schedule[e].day = PlannedDay(DateOf(s.start))
                        /\ req.latestStart # None
                        /\ Schedule[e].end > 60 * (req.latestStart + 1)
             shifted == req.source = "fallback" /\ req.startDay # 0
  <2>1. i \in DOMAIN slots
    BY DEF DetectConflicts, ServiceDetectConflicts
  <2>2. /\ Interval(s) /\ Admissible(s) /\ tasks[i].id \notin req.completed
        /\ req.source = "service" \/ req.source = "fallback"
    BY <1>1, <2>1, TasksTyped, RequestTyped DEF PlanInv, SlotsAreFree, PlannerRunIn
  <2>3. /\ ~ InEvent(s) /\ ~ TouchesBreak(s) /\ ~ InBreak(s)
        /\ req.source = "service" \/ req.startDay = 0 =>
              ~ OutsideSchedule(s) /\ Weekday(DateOf(s.start)) \notin req.noPlanDays
        /\ AfterHours(s) => late
    BY <1>1, <2>2, NoComplaint
  <2>4. \A r \in conflicts'[i] :
              \/ r = "calendar_conflict" /\ InEvent(s)
              \/ r = "break_time" /\ (TouchesBreak(s) \/ InBreak(s))
              \/ r = "task_already_completed" /\ tasks[i].id \in req.completed
              \/ r = "outside_work_schedule" /\ OutsideSchedule(s)
              \/ r = "no_plan_day" /\ Weekday(DateOf(s.start)) \in req.noPlanDays
              \/ r = "after_hours" /\ AfterHours(s)
              \/ r = "task_rescheduled" /\ tasks[i].id \in req.rescheduled
    <3>1. CASE DetectConflicts
      BY <2>1, <3>1 DEF DetectConflicts, DetectScheduleConflicts,
         DetectPreferenceConflicts, DetectResourceConflicts, Flag
    <3>2. CASE ServiceDetectConflicts
      BY <2>1, <3>2 DEF ServiceDetectConflicts, DetectScheduleConflicts,
         DetectResourceConflicts, Flag
    <3>3. QED
      BY <3>1, <3>2
  <2>5. Explained(i) =
           (IF late THEN {"after_hours"} ELSE {})
           \cup (IF tasks[i].id \in req.rescheduled THEN {"task_rescheduled"} ELSE {})
           \cup (IF shifted THEN {"outside_work_schedule", "no_plan_day"} ELSE {})
    BY DEF Explained, Flag
  <2> HIDE DEF s, late
  <2>6. ASSUME NEW r \in conflicts'[i] PROVE r \in Explained(i)
    BY <2>2, <2>3, <2>4, <2>5
  <2>7. QED
    BY <2>6
<1>4. \A i : Explained(i)' = Explained(i)
  BY <1>1, SameSlotsExplained
<1>5. ComplaintsExplained'
  BY <1>1, <1>3, <1>4 DEF PlanInv, ComplaintsExplained
<1>6. QED
  BY <1>1, <1>2, <1>5, KeepPlan

LEMMA ValidatePlan ==
  ASSUME PlanInv, ValidateSlots
  PROVE  PlanInv'
<1>1. /\ phase = "done" /\ phase' = "edited"
      /\ edited' = [i \in DOMAIN slots |-> ValidateSlot(i)]
      /\ UNCHANGED <<req, tasks, todo, windows, block, slots, refused, conflicts>>
      /\ req \in Requests
  BY DEF ValidateSlots, PlanInv, Stages
<1>2. Stages'
  BY <1>1, SameRequest DEF PlanInv, Stages
<1>3. ASSUME NEW i \in DOMAIN slots
      PROVE  Interval(ValidateSlot(i))
  <2> DEFINE e == req.edits[i]
             s == [start |-> IF e.start = None THEN slots[i].start ELSE e.start,
                   end |-> IF e.end = None THEN slots[i].end ELSE e.end]
  <2>1. slots[i] \in Slot /\ Interval(slots[i])
    BY DEF PlanInv, SlotsAreFree
  <2>2. ValidateSlot(i) = IF i \in DOMAIN req.edits /\ s.start < s.end THEN s ELSE slots[i]
    BY DEF ValidateSlot
  <2>3. CASE i \in DOMAIN req.edits /\ s.start < s.end
    <3>1. req.edits \in Seq([start : Nat \cup {None}, end : Nat \cup {None}])
      BY <1>1, RequestTyped DEF PlannerRunIn
    <3>2. e \in [start : Nat \cup {None}, end : Nat \cup {None}]
      BY <2>3, <3>1, ElementTyped
    <3> HIDE DEF e
    <3>3. s.start \in Nat /\ s.end \in Nat
      BY <2>1, <3>2 DEF Slot
    <3>4. QED
      BY <2>2, <2>3, <3>3 DEF Interval
  <2>4. CASE ~ (i \in DOMAIN req.edits /\ s.start < s.end)
    BY <2>1, <2>2, <2>4
  <2>5. QED
    BY <2>3, <2>4
<1>4. \A i : Explained(i)' = Explained(i)
  BY <1>1, SameSlotsExplained
<1>5. ComplaintsExplained'
  BY <1>1, <1>3, <1>4 DEF PlanInv, ComplaintsExplained
<1>6. QED
  BY <1>1, <1>2, <1>5, KeepPlan

LEMMA NextPlan == PlanInv /\ [Next]_vars => PlanInv'
<1> SUFFICES ASSUME PlanInv, [Next]_vars PROVE PlanInv'
  OBVIOUS
<1>1. CASE GenerateSlots \/ ServiceGenerateSlots
  BY <1>1, StartPlan
<1>2. CASE SubtractBlock \/ ServiceSubtractBlock
  BY <1>2, CutPlan DEF SubtractBlock, ServiceSubtractBlock
<1>3. CASE ScheduleTask \/ ServiceScheduleTask
  <2>1. phase = "place" /\ NextTask
    BY <1>3 DEF ScheduleTask, ServiceScheduleTask
  <2>2. PICK i \in todo :
           /\ Refuse(i) \/ \E w \in windows : Place(i, w)
           /\ todo' = todo \ {i}
           /\ UNCHANGED <<req, phase, tasks, block, edited, conflicts>>
    BY <2>1 DEF NextTask
  <2>3. QED
    BY <2>1, <2>2, RefusePlan, PlacePlan
<1>4. CASE DetectConflicts \/ ServiceDetectConflicts
  BY <1>4, DetectPlan
<1>5. CASE ValidateSlots
  BY <1>5, ValidatePlan
<1>6. CASE SortWindows \/ EndOfTasks \/ UNCHANGED vars
  <2>1. /\ UNCHANGED <<req, tasks, todo, windows, block, slots, refused, edited, conflicts>>
        /\ \/ phase = "subtract" /\ phase' = "place" /\ block = Blocks
           \/ phase = "place" /\ phase' = "detect" /\ todo = {}
           \/ phase' = phase
    BY <1>6 DEF SortWindows, EndOfTasks, vars, Blocks
  <2>2. Stages'
    BY <2>1, SameRequest DEF PlanInv, Stages
  <2>3. \A i : Explained(i)' = Explained(i)
    BY <2>1, SameSlotsExplained
  <2>4. ComplaintsExplained'
    BY <2>1, <2>3 DEF PlanInv, ComplaintsExplained
  <2>5. QED
    BY <2>1, <2>2, <2>4, KeepPlan
<1>7. QED
  BY <1>1, <1>2, <1>3, <1>4, <1>5, <1>6 DEF Next

LEMMA PlanIsSound == Spec => []PlanInv
BY InitPlan, NextPlan, PTL DEF Spec

---------------------------------------------------------------------------
(* The detectors speak of proposed slots only *)

OnProposals == DOMAIN conflicts \subseteq DOMAIN slots

LEMMA PlaceKeepsSlots ==
  ASSUME OnProposals, NextTask
  PROVE  OnProposals'
<1>1. PICK i \in todo : /\ Refuse(i) \/ \E w \in windows : Place(i, w)
                       /\ conflicts' = conflicts
  BY DEF NextTask
<1>2. CASE Refuse(i)
  BY <1>1, <1>2 DEF Refuse, OnProposals
<1>3. CASE \E w \in windows : Place(i, w)
  <2>1. DOMAIN slots' = DOMAIN slots \cup {i}
    BY <1>3 DEF Place
  <2>2. QED
    BY <1>1, <2>1 DEF OnProposals
<1>4. QED
  BY <1>1, <1>2, <1>3

LEMMA NextOnProposals == OnProposals /\ [Next]_vars => OnProposals'
<1> SUFFICES ASSUME OnProposals, [Next]_vars PROVE OnProposals'
  OBVIOUS
<1>1. CASE ScheduleTask \/ ServiceScheduleTask
  BY <1>1, PlaceKeepsSlots DEF ScheduleTask, ServiceScheduleTask
<1>2. CASE DetectConflicts \/ ServiceDetectConflicts
  <2>1. DOMAIN conflicts' = DOMAIN slots /\ slots' = slots
    BY <1>2 DEF DetectConflicts, ServiceDetectConflicts
  <2>2. QED
    BY <2>1 DEF OnProposals
<1>3. CASE UNCHANGED <<slots, conflicts>>
  BY <1>3 DEF OnProposals
<1>4. UNCHANGED <<slots, conflicts>> \/ ScheduleTask \/ ServiceScheduleTask
      \/ DetectConflicts \/ ServiceDetectConflicts
  BY DEF Next, vars, GenerateSlots, ServiceGenerateSlots, Start, SubtractBlock,
     ServiceSubtractBlock, CutNext, SortWindows, EndOfTasks, ValidateSlots
<1>5. QED
  BY <1>1, <1>2, <1>3, <1>4

LEMMA ConflictsOnProposals == Spec => []OnProposals
<1>1. Init => OnProposals
  BY DEF Init, OnProposals
<1>2. QED
  BY <1>1, NextOnProposals, PTL DEF Spec

---------------------------------------------------------------------------
(* The theorems *)

\* Every variable keeps its type; no window, no proposed slot and no slot a user
\* has edited is ever empty, and conflicts are reported of proposed slots only.
THEOREM TypeCorrect == Spec => []TypeOK
<1>1. ASSUME PlanInv, OnProposals PROVE TypeOK
  <2>1. /\ req \in Requests
        /\ phase \in {"windows", "subtract", "place", "detect", "done", "edited"}
        /\ block \in 0 .. Len(req.breaks) + Len(req.events)
    BY <1>1 DEF PlanInv, Stages, Blocks
  <2>2. /\ todo \subseteq DOMAIN tasks /\ refused \subseteq DOMAIN tasks
        /\ DOMAIN slots \subseteq DOMAIN tasks
    BY <1>1 DEF PlanInv, Stages
  <2>3. \A w \in windows : w.at \in Nat /\ w.entry \in DOMAIN Schedule /\ Interval(w)
    BY <1>1 DEF PlanInv, WindowsAreFree, Window, InEntry
  <2>4. \A i \in DOMAIN slots : Interval(slots[i])
    BY <1>1 DEF PlanInv, SlotsAreFree
  <2>5. \A i \in DOMAIN edited : Interval(edited[i])
    BY <1>1 DEF PlanInv, ComplaintsExplained
  <2>6. QED
    BY <1>1, <2>1, <2>2, <2>3, <2>4, <2>5 DEF TypeOK, OnProposals
<1>2. QED
  BY PlanIsSound, ConflictsOnProposals, <1>1, PTL

\* Every slot the generators propose lies in time the schedule, the breaks and
\* the events leave, is as long as its task, ends by its due date, and meets no
\* other slot, whatever is asked for.
THEOREM SlotsAreAdmissible == Spec => []SlotsAdmissible
<1>1. PlanInv => SlotsAdmissible
  BY DEF PlanInv, SlotsAreFree, AllIsApart, SlotsAdmissible
<1>2. QED
  BY PlanIsSound, <1>1, PTL

\* A task is reported as not placed only if first fit left no room for it: any
\* admissible time of its length before its due date is taken.
THEOREM RefusedForLackOfRoom == Spec => []RefusedOnlyIfNoRoom
<1>1. ASSUME PlanInv PROVE RefusedOnlyIfNoRoom
  <2>1. ASSUME phase \in {"detect", "done", "edited"}
        PROVE  DOMAIN slots \cup refused = DOMAIN tasks
    BY <1>1, <2>1 DEF PlanInv, Stages
  <2>2. Openings \subseteq Nat
    <3>1. req \in Requests /\ \A i \in DOMAIN slots : slots[i] \in Slot
      BY <1>1 DEF PlanInv, Stages, SlotsAreFree
    <3>2. \A d \in 0 .. Week - 1 : d * Day \in Nat
      BY MidnightIsNat, DayIsPositive
    <3>3. /\ \A e \in DOMAIN Schedule : Schedule[e].start \in Nat
          /\ \A b \in DOMAIN req.breaks : req.breaks[b].end \in Nat
          /\ \A e \in DOMAIN req.events : req.events[e].end \in Nat
      BY <3>1, ScheduleTyped, BreakTyped, EventTyped DEF Interval
    <3>4. QED
      BY <3>1, <3>2, <3>3 DEF Openings, Slot
  <2>3. ASSUME NEW i \in refused, NEW t \in Openings
        PROVE  LET s == [start |-> t, end |-> t + tasks[i].length]
               IN  \/ ~ Admissible(s)
                   \/ s.end > Deadline(i)
                   \/ \E j \in DOMAIN slots : Overlap(s, slots[j])
    <3> DEFINE s == [start |-> t, end |-> t + tasks[i].length]
    <3>1. req \in Requests /\ tasks = ActiveTasks /\ i \in DOMAIN tasks
      <4>1. tasks = ActiveTasks
        BY <1>1, <2>3 DEF PlanInv, Stages
      <4>2. QED
        BY <1>1, <4>1 DEF PlanInv, Stages
    <3>2. tasks[i].length \in Nat
      BY <3>1, TasksTyped
    <3>3. s \in Slot /\ s.end = s.start + tasks[i].length
      BY <2>2, <3>2 DEF Slot
    <3> HIDE DEF s
    <3>4. ~ Admissible(s) \/ s.end > Deadline(i) \/ ~ Untaken(s)
      BY <1>1, <3>3 DEF PlanInv, RefusedHaveNoRoom
    <3>5. QED
      BY <3>4 DEF s, Untaken
  <2>4. QED
    BY <2>1, <2>3 DEF RefusedOnlyIfNoRoom
<1>2. QED
  BY PlanIsSound, <1>1, PTL

\* Whatever is asked for, the detectors complain of a slot their own generator
\* proposed only where the request is to blame: the schedule of that day goes on
\* after the latest hour, the task is one of the rescheduled, or the fallback
\* planned a week that does not start on a Monday.  Accepting a plan leaves no
\* slot without time.
THEOREM ComplaintsAreExplained == Spec => []ComplaintsExplained
<1>1. PlanInv => ComplaintsExplained
  BY DEF PlanInv
<1>2. QED
  BY PlanIsSound, <1>1, PTL
=============================================================================
