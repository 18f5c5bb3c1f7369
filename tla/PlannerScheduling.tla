------------------------- MODULE PlannerScheduling -------------------------
(***************************************************************************)
(* How a week is planned: the slot generator of the API server (source     *)
(* "fallback", SlotGenerator with TimeSlotCalculator and ConflictDetector) *)
(* and the planner of the AI service (source "service"), which holds a     *)
(* copy of the same algorithm with two differences: it looks up the work   *)
(* schedule and the no-plan days by the weekday of a date, where the       *)
(* fallback uses the offset from week_start; and it reports a break when   *)
(* the slot overlaps it, where the fallback looks at the ends of the slot. *)
(*                                                                         *)
(* Windows of free time are built from the work schedule, breaks and       *)
(* calendar events are cut out of them one by one, tasks are placed in     *)
(* them one by one, first fit, and the result is examined for conflicts.   *)
(*                                                                         *)
(* Times are minutes since the midnight before week_start, times of a day  *)
(* are minutes since its midnight.  A list of windows is a set: `at', the  *)
(* start a window was sorted by, and `entry', its schedule entry, say      *)
(* where it stands in the list.  Preferences of None are preferences       *)
(* without content, which every test of them treats alike.                 *)
(***************************************************************************)
EXTENDS Integers, Sequences

CONSTANTS
    Requests,          \* what the planner is asked for, see PlannerRunIn
    Task,              \* ids of tasks
    Week,              \* days of a plan, and of a week (7 in the code)
    Day,               \* minutes of a day (1440)
    DefaultSchedule,   \* the schedule used without one (Mon-Fri, nine to five)
    Fillers,           \* minutes of the slots proposed when no task is active
    None               \* no due date, no latest hour

Interval(i) == i.start \in Nat /\ i.end \in Nat /\ i.start < i.end

WorkScheduleEntry(e) == e.day \in 0 .. Week - 1 /\ Interval(e) /\ e.end < Day

\* A request as the schema admits it.
PlannerRunIn(r) ==
    /\ r.source \in {"fallback", "service"}
    /\ r.startDay \in 0 .. Week - 1
    /\ r.schedule \in Seq([day : 0 .. Week - 1, start : Nat, end : Nat])
    /\ \A i \in DOMAIN r.schedule : WorkScheduleEntry(r.schedule[i])
    /\ r.breaks \in Seq([start : Nat, end : Nat])
    /\ \A i \in DOMAIN r.breaks : Interval(r.breaks[i]) /\ r.breaks[i].end < Day
    /\ r.events \in Seq([start : Nat, end : Nat])
    /\ \A i \in DOMAIN r.events : Interval(r.events[i])
    /\ r.noPlanDays \subseteq 0 .. Week - 1
    /\ r.latestStart \in 0 .. 23 \cup {None}
    /\ r.tasks \in Seq([id : Task, length : 1 .. Day, due : Nat \cup {None},
                        priority : Int])
    /\ r.completed \subseteq Task
    /\ r.rescheduled \subseteq Task
    /\ r.edits \in Seq([start : Nat \cup {None}, end : Nat \cup {None}])

ASSUME PlannerSchedulingAssumption ==
    /\ Week \in Nat \ {0}
    /\ Day \in Nat \ {0}
    /\ None \notin Nat \cup Task   \* the tasks made up as fillers have fresh ids
    /\ DefaultSchedule \in Seq([day : 0 .. Week - 1, start : Nat, end : Nat])
    /\ \A i \in DOMAIN DefaultSchedule : WorkScheduleEntry(DefaultSchedule[i])
    /\ Fillers \in Seq(1 .. Day)
    /\ \A r \in Requests : PlannerRunIn(r)

VARIABLES
    req,           \* the request; it never changes
    phase,         \* "windows", "subtract", "place", "detect", "done" or "edited"
    tasks,         \* the tasks to be placed, by their position in the request
    todo,          \* the positions that are still to be placed
    windows,       \* the free time that is left
    block,         \* how many breaks and events have been cut out
    slots,         \* position -> the slot proposed for it
    refused,       \* positions with a conflict no_available_window
    edited,        \* position -> the slot as the user accepts it
    conflicts      \* position -> reasons the detectors give for its slot

vars == <<req, phase, tasks, todo, windows, block, slots, refused, edited, conflicts>>

---------------------------------------------------------------------------
DateOf(t) == t \div Day
TimeOf(t) == t % Day
Weekday(date) == (req.startDay + date) % Week

Overlap(a, b) == a.start < b.end /\ b.start < a.end

Schedule == IF req.schedule = <<>> THEN DefaultSchedule ELSE req.schedule

Filler(i) == [id |-> None, length |-> Fillers[i], due |-> None, priority |-> 0]

\* The tasks that are not completed, or the fillers.
ActiveTasks ==
    LET active == {i \in DOMAIN req.tasks : req.tasks[i].id \notin req.completed}
    IN  IF active # {} THEN [i \in active |-> req.tasks[i]]
        ELSE [i \in DOMAIN Fillers |-> Filler(i)]

\* The windows of the schedule, where day(d) is what the d-th day is taken for.
WindowsBy(day(_)) ==
    UNION {{[at |-> d * Day + Schedule[e].start, entry |-> e,
             start |-> d * Day + Schedule[e].start, end |-> d * Day + Schedule[e].end] :
                e \in {e \in DOMAIN Schedule : Schedule[e].day = day(d)}} :
           d \in {d \in 0 .. Week - 1 : day(d) \notin req.noPlanDays}}

Offset(d) == d

\* The fallback takes the d-th day of the plan for the d-th day of the week.
BuildAvailableWindows == WindowsBy(Offset)

ServiceBuildAvailableWindows == WindowsBy(Weekday)

Start ==
    /\ phase' = "subtract"
    /\ tasks' = ActiveTasks
    /\ todo' = DOMAIN ActiveTasks
    /\ UNCHANGED <<req, block, slots, refused, edited, conflicts>>

\* SlotGenerator.generate_slots, up to the windows.
GenerateSlots ==
    /\ phase = "windows"
    /\ req.source = "fallback"
    /\ windows' = BuildAvailableWindows
    /\ Start

\* The same in the AI service.
ServiceGenerateSlots ==
    /\ phase = "windows"
    /\ req.source = "service"
    /\ windows' = ServiceBuildAvailableWindows
    /\ Start

SubtractInterval(ws, b) ==
    {w \in ws : b.end <= w.start \/ w.end <= b.start}
    \cup {[w EXCEPT !.end = b.start] : w \in {w \in ws : Overlap(w, b) /\ w.start < b.start}}
    \cup {[w EXCEPT !.at = b.end, !.start = b.end] :
             w \in {w \in ws : Overlap(w, b) /\ b.end < w.end}}

BreakOn(date, br) == [start |-> date * Day + br.start, end |-> date * Day + br.end]

\* One break, on the date of every window, and then one event, is cut out.
CutNext ==
    /\ phase = "subtract"
    /\ block < Len(req.breaks) + Len(req.events)
    /\ block' = block + 1
    /\ windows' =
         IF block < Len(req.breaks)
         THEN UNION {SubtractInterval({w}, BreakOn(DateOf(w.start), req.breaks[block + 1])) :
                        w \in windows}
         ELSE SubtractInterval(windows, req.events[block + 1 - Len(req.breaks)])
    /\ UNCHANGED <<req, phase, tasks, todo, slots, refused, edited, conflicts>>

SubtractBlock == req.source = "fallback" /\ CutNext

\* The same in the AI service.
ServiceSubtractBlock == req.source = "service" /\ CutNext

\* windows.sort(), and on to _schedule_tasks.
SortWindows ==
    /\ phase = "subtract"
    /\ block = Len(req.breaks) + Len(req.events)
    /\ phase' = "place"
    /\ UNCHANGED <<req, tasks, todo, windows, block, slots, refused, edited, conflicts>>

Listed(v, w) == v.at < w.at \/ (v.at = w.at /\ v.entry <= w.entry)

\* Tasks without a due date count as due in the last instant of the first day.
DueKey(i) == IF tasks[i].due = None THEN 2 * Day - 1 ELSE 2 * tasks[i].due

Precedes(i, j) ==
    \/ DueKey(i) < DueKey(j)
    \/ DueKey(i) = DueKey(j) /\ tasks[i].priority > tasks[j].priority
    \/ DueKey(i) = DueKey(j) /\ tasks[i].priority = tasks[j].priority /\ i < j

Deadline(i) == IF tasks[i].due = None THEN (Week + 1) * Day - 1 ELSE tasks[i].due

\* Mutant of Fits: a task may not fill its window to the end.
FitsLoosely(i, w) ==
    w.start + tasks[i].length < w.end /\ w.start + tasks[i].length <= Deadline(i)

\* Mutant of Fits: the deadline is not looked at.
FitsLate(i, w) == w.start + tasks[i].length <= w.end

Fits(i, w) ==
    w.start + tasks[i].length <= w.end /\ w.start + tasks[i].length <= Deadline(i)

\* Mutant of Remaining: the window is left as it was.
RemainingWhole(w, end) == {w}

Remaining(w, end) == IF end < w.end THEN {[w EXCEPT !.start = end]} ELSE {}

\* The first window of the list that takes task i.
Place(i, w) ==
    /\ Fits(i, w)
    /\ \A v \in windows : Fits(i, v) => Listed(w, v)
    /\ LET end == w.start + tasks[i].length
       IN  /\ slots' = [j \in DOMAIN slots \cup {i} |->
                          IF j = i THEN [start |-> w.start, end |-> end] ELSE slots[j]]
           /\ windows' = (windows \ {w}) \cup Remaining(w, end)
    /\ UNCHANGED refused

Refuse(i) ==
    /\ ~ \E w \in windows : Fits(i, w)
    /\ refused' = refused \cup {i}
    /\ UNCHANGED <<windows, slots>>

\* One round of the loop over the sorted tasks.
NextTask ==
    \E i \in todo :
        /\ \A j \in todo \ {i} : Precedes(i, j)
        /\ Refuse(i) \/ \E w \in windows : Place(i, w)
        /\ todo' = todo \ {i}
        /\ UNCHANGED <<req, phase, tasks, block, edited, conflicts>>

\* SlotGenerator._schedule_tasks.
ScheduleTask == phase = "place" /\ req.source = "fallback" /\ NextTask

\* _schedule_tasks of the AI service, word for word the same.
ServiceScheduleTask == phase = "place" /\ req.source = "service" /\ NextTask

EndOfTasks ==
    /\ phase = "place"
    /\ todo = {}
    /\ phase' = "detect"
    /\ UNCHANGED <<req, tasks, todo, windows, block, slots, refused, edited, conflicts>>

---------------------------------------------------------------------------
(* The detectors *)

Flag(reason, condition) == IF condition THEN {reason} ELSE {}

OutsideSchedule(s) ==
    /\ req.schedule # <<>>
    /\ \A e \in DOMAIN req.schedule :
          \/ req.schedule[e].day # Weekday(DateOf(s.start))
          \/ TimeOf(s.start) < req.schedule[e].start
          \/ req.schedule[e].end < TimeOf(s.end)

InEvent(s) == \E e \in DOMAIN req.events : Overlap(req.events[e], s)

AfterHours(s) == req.latestStart # None /\ TimeOf(s.start) \div 60 > req.latestStart

DetectScheduleConflicts(s) ==
    Flag("outside_work_schedule", OutsideSchedule(s))
    \cup Flag("calendar_conflict", InEvent(s))

DetectResourceConflicts(id) ==
    Flag("task_already_completed", id \in req.completed)
    \cup Flag("task_rescheduled", id \in req.rescheduled)

\* Mutant of TouchesBreak: a slot may not end when a break starts.
TouchesBreakEarly(s) ==
    \E b \in DOMAIN req.breaks :
        LET br == req.breaks[b]
        IN  \/ br.start <= TimeOf(s.start) /\ TimeOf(s.start) < br.end
            \/ br.start <= TimeOf(s.end) /\ TimeOf(s.end) <= br.end

\* The start or the end of the slot lies in a break.
TouchesBreak(s) ==
    \E b \in DOMAIN req.breaks :
        LET br == req.breaks[b]
        IN  \/ br.start <= TimeOf(s.start) /\ TimeOf(s.start) < br.end
            \/ br.start < TimeOf(s.end) /\ TimeOf(s.end) <= br.end

DetectPreferenceConflicts(s) ==
    Flag("after_hours", AfterHours(s))
    \cup Flag("no_plan_day", Weekday(DateOf(s.start)) \in req.noPlanDays)
    \cup Flag("break_time", TouchesBreak(s))

DetectConflicts ==
    /\ phase = "detect"
    /\ req.source = "fallback"
    /\ conflicts' = [i \in DOMAIN slots |->
                        DetectScheduleConflicts(slots[i])
                        \cup DetectPreferenceConflicts(slots[i])
                        \cup DetectResourceConflicts(tasks[i].id)]
    /\ phase' = "done"
    /\ UNCHANGED <<req, tasks, todo, windows, block, slots, refused, edited>>

InBreak(s) ==
    \E b \in DOMAIN req.breaks :
        TimeOf(s.start) < req.breaks[b].end /\ req.breaks[b].start < TimeOf(s.end)

\* _detect_conflicts of the AI service.
ServiceDetectConflicts ==
    /\ phase = "detect"
    /\ req.source = "service"
    /\ conflicts' = [i \in DOMAIN slots |->
                        DetectScheduleConflicts(slots[i])
                        \cup Flag("after_hours", AfterHours(slots[i]))
                        \cup Flag("no_plan_day",
                                  Weekday(DateOf(slots[i].start)) \in req.noPlanDays)
                        \cup Flag("break_time", InBreak(slots[i]))
                        \cup DetectResourceConflicts(tasks[i].id)]
    /\ phase' = "done"
    /\ UNCHANGED <<req, tasks, todo, windows, block, slots, refused, edited>>

\* The slot with the user's edit, or as proposed if that leaves no time.
ValidateSlot(i) ==
    LET e == req.edits[i]
        s == [start |-> IF e.start = None THEN slots[i].start ELSE e.start,
              end |-> IF e.end = None THEN slots[i].end ELSE e.end]
    IN  IF i \in DOMAIN req.edits /\ s.start < s.end THEN s ELSE slots[i]

\* validate_slots, when the plan is accepted.
ValidateSlots ==
    /\ phase = "done"
    /\ edited' = [i \in DOMAIN slots |-> ValidateSlot(i)]
    /\ phase' = "edited"
    /\ UNCHANGED <<req, tasks, todo, windows, block, slots, refused, conflicts>>

Init ==
    /\ req \in Requests
    /\ phase = "windows"
    /\ tasks = <<>>
    /\ todo = {}
    /\ windows = {}
    /\ block = 0
    /\ slots = <<>>
    /\ refused = {}
    /\ edited = <<>>
    /\ conflicts = <<>>

Next ==
    \/ GenerateSlots \/ ServiceGenerateSlots
    \/ SubtractBlock \/ ServiceSubtractBlock \/ SortWindows
    \/ ScheduleTask \/ ServiceScheduleTask \/ EndOfTasks
    \/ DetectConflicts \/ ServiceDetectConflicts \/ ValidateSlots

Spec == Init /\ [][Next]_vars

---------------------------------------------------------------------------
(* Properties *)

\* Every variable has its type; windows and slots, edited ones included, are
\* never empty.
TypeOK ==
    /\ req \in Requests
    /\ phase \in {"windows", "subtract", "place", "detect", "done", "edited"}
    /\ todo \subseteq DOMAIN tasks
    /\ \A w \in windows : w.at \in Nat /\ w.entry \in DOMAIN Schedule /\ Interval(w)
    /\ block \in 0 .. Len(req.breaks) + Len(req.events)
    /\ DOMAIN slots \subseteq DOMAIN tasks
    /\ \A i \in DOMAIN slots : Interval(slots[i])
    /\ refused \subseteq DOMAIN tasks
    /\ \A i \in DOMAIN edited : Interval(edited[i])
    /\ DOMAIN conflicts \subseteq DOMAIN slots

\* What the generator takes the d-th day for: as a specification it is wrong of
\* the fallback in a week that does not start on a Monday, whose slots are only
\* required to lie in the time the fallback reads the request to mean.
PlannedDay(d) == IF req.source = "fallback" THEN Offset(d) ELSE Weekday(d)

\* An interval of time the generator may plan for: within an entry of its day,
\* on no no-plan day, in no break and in no event.
Admissible(s) ==
    /\ \E e \in DOMAIN Schedule :
          /\ Schedule[e].day = PlannedDay(DateOf(s.start))
          /\ DateOf(s.start) * Day + Schedule[e].start <= s.start
          /\ s.end <= DateOf(s.start) * Day + Schedule[e].end
    /\ DateOf(s.start) < Week
    /\ PlannedDay(DateOf(s.start)) \notin req.noPlanDays
    /\ \A b \in DOMAIN req.breaks : ~ Overlap(s, BreakOn(DateOf(s.start), req.breaks[b]))
    /\ ~ InEvent(s)

\* Two entries of one day that overlap.
ScheduleOverlaps ==
    \E d, e \in DOMAIN Schedule :
        d # e /\ Schedule[d].day = Schedule[e].day /\ Overlap(Schedule[d], Schedule[e])

\* Every slot lies in admissible time, is as long as its task, ends by the
\* task's due date and is nobody else's - unless the schedule itself has entries
\* of one day that overlap: each becomes a window of its own.
SlotsAdmissible ==
    /\ \A i \in DOMAIN slots :
          /\ Admissible(slots[i])
          /\ slots[i].end = slots[i].start + tasks[i].length
          /\ slots[i].end <= Deadline(i)
    /\ ScheduleOverlaps \/ \A i, j \in DOMAIN slots : i # j => ~ Overlap(slots[i], slots[j])

\* The instants at which admissible time that is not taken can begin.
Openings ==
    {d * Day + Schedule[e].start : d \in 0 .. Week - 1, e \in DOMAIN Schedule}
    \cup {d * Day + req.breaks[b].end : d \in 0 .. Week - 1, b \in DOMAIN req.breaks}
    \cup {req.events[e].end : e \in DOMAIN req.events}
    \cup {slots[i].end : i \in DOMAIN slots}

\* Every active task is placed or reported, and reported only when there is no
\* room for it: no admissible time of its length before its due date is free of
\* the slots proposed so far.
RefusedOnlyIfNoRoom ==
    /\ phase \in {"detect", "done", "edited"} => DOMAIN slots \cup refused = DOMAIN tasks
    /\ \A i \in refused : \A t \in Openings :
          LET s == [start |-> t, end |-> t + tasks[i].length]
          IN  \/ ~ Admissible(s)
              \/ s.end > Deadline(i)
              \/ \E j \in DOMAIN slots : Overlap(s, slots[j])

\* The request, and not the plan, is to blame for this complaint about the slot
\* of i.  No generator looks at the latest hour, which the schedule of that day
\* may exceed, or leaves out a rescheduled task; and the days of the fallback are
\* shifted in a week that does not start on a Monday.
Explained(i) ==
    Flag("after_hours",
         \E e \in DOMAIN Schedule :
            /\ Schedule[e].day = PlannedDay(DateOf(slots[i].start))
            /\ req.latestStart # None /\ Schedule[e].end > 60 * (req.latestStart + 1))
    \cup Flag("task_rescheduled", tasks[i].id \in req.rescheduled)
    \cup (IF req.source = "fallback" /\ req.startDay # 0
          THEN {"outside_work_schedule", "no_plan_day"} ELSE {})

\* A planner's detectors complain of its own slots only where that is Explained:
\* never of an event, a break or a completed task, and of nothing at all when
\* the schedule ends in time, no task is rescheduled and the week starts on a
\* Monday or was planned by the AI service.  No edit of the user leaves a slot of
\* the accepted plan without time.
ComplaintsExplained ==
    /\ \A i \in DOMAIN conflicts : conflicts[i] \subseteq Explained(i)
    /\ \A i \in DOMAIN edited : Interval(edited[i])
============================================================================
