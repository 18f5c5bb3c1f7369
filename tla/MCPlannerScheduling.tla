------------------------ MODULE MCPlannerScheduling ------------------------
(* Requests for PlannerScheduling, in real minutes of real weeks.          *)
EXTENDS PlannerScheduling

CONSTANTS t1, t2, t3

NineToFive == [d \in 1 .. 5 |-> [day |-> d - 1, start |-> 540, end |-> 1020]]

FillerMinutes == <<90, 60, 45>>

Entry(d, s, e) == [day |-> d, start |-> s, end |-> e]
Span(s, e) == [start |-> s, end |-> e]
TaskIn(i, l, d, p) == [id |-> i, length |-> l, due |-> d, priority |-> p]

\* None, a morning and an afternoon, two that overlap, and a weekend.
Schedules ==
    {<<>>,
     <<Entry(0, 480, 600), Entry(0, 600, 720), Entry(2, 600, 690)>>,
     <<Entry(1, 540, 660), Entry(1, 600, 720)>>,
     <<Entry(5, 600, 720), Entry(6, 600, 660)>>}

Breaks == {<<>>, <<Span(570, 600)>>, <<Span(540, 600), Span(630, 645)>>}

\* A meeting on the first day, and one that lasts from the second to the third.
Events == {<<>>, <<Span(600, 630)>>, <<Span(1440 + 620, 2880 + 640), Span(500, 560)>>}

Tasks ==
    {<<>>,
     <<TaskIn(t1, 60, None, 0), TaskIn(t2, 60, 720, 0), TaskIn(t3, 30, None, 1)>>,
     <<TaskIn(t1, 480, None, 0), TaskIn(t2, 480, 1440 + 1020, 2), TaskIn(t1, 90, 3 * 1440, 1)>>,
     <<TaskIn(t1, 120, 4000, 1), TaskIn(t2, 45, 4000, 1), TaskIn(t3, 600, None, 0)>>}

\* The end of one slot, and the start of another, are moved.
Edits == {<<>>, <<Span(None, 580), Span(600, None)>>}

WeeklyRequests ==
    {[source |-> src, startDay |-> sd, schedule |-> s, breaks |-> b, events |-> e,
      noPlanDays |-> n, latestStart |-> l, tasks |-> t, completed |-> c,
      rescheduled |-> IF l = None THEN {} ELSE {t2}, edits |-> ed] :
        src \in {"fallback", "service"}, sd \in {0, 5}, s \in Schedules, b \in Breaks,
        e \in Events, n \in {{}, {1}}, t \in Tasks, c \in {{}, {t1}}, l \in {None, 10},
        ed \in Edits}
============================================================================
