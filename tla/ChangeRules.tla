----------------------------- MODULE ChangeRules -----------------------------
(***************************************************************************)
(* The rules a change runs under (internal/changes/windows.go and the time *)
(* arithmetic of engine.go): the recurring maintenance windows and the     *)
(* estimate of when an approved change will start.                         *)
(*                                                                         *)
(* Time is a number of minutes since a Sunday, 00:00, of the server's time *)
(* zone; a zone's clock changes are left out.                              *)
(***************************************************************************)
EXTENDS Integers, FiniteSets

CONSTANTS
    DayMinutes,    \* 1440 in the code
    MinMinutes,    \* shortest window, 15 in the code
    Groups,        \* device groups
    NoGroup,       \* NULL: a window for every device
    MaxWindows,    \* bound on the rows of maintenance_windows
    Candidates,    \* windows users may try to save
    MaxTime        \* bound on the clock

Window == [group : Groups \cup {NoGroup}, weekdays : SUBSET (0..6), start : 0..(DayMinutes - 1),
           minutes : 0..(2 * DayMinutes), enabled : BOOLEAN]

ASSUME RulesConstants ==
    /\ DayMinutes \in Nat \ {0}
    /\ MinMinutes \in 1..DayMinutes
    /\ NoGroup \notin Groups
    /\ Candidates \subseteq Window
    /\ MaxTime \in Nat /\ MaxWindows \in Nat

VARIABLES
    windows,    \* the rows of maintenance_windows
    now         \* the clock

ruleVars == <<windows, now>>

-----------------------------------------------------------------------------
(* Window arithmetic. *)

\* A time zone has no negative times here; yesterday of day 0 is day -1.
Day(t) == t \div DayMinutes

\* The occurrence a window would have on a day, and whether it has it.
StartOn(w, day) == day * DayMinutes + w.start
OccursOn(w, day) == day % 7 \in w.weekdays
Contains(w, day, t) ==
    OccursOn(w, day) /\ StartOn(w, day) <= t /\ t < StartOn(w, day) + w.minutes

\* validate: what SaveWindow accepts.
Valid(w) == w.weekdays # {} /\ w.minutes \in MinMinutes..DayMinutes

\* A time and an ok flag are returned as a set: the time, or nothing.
Earliest(S) == {s \in S : \A r \in S : s <= r}

\* Mutant: openAt forgets the window that began yesterday.
OpenAtToday(w, t) == IF w.enabled /\ Contains(w, Day(t), t) THEN {StartOn(w, Day(t))} ELSE {}

\* openAt looks at the occurrence of today, then at the one of yesterday.
OpenAt(w, t) ==
    IF ~w.enabled THEN {}
    ELSE IF Contains(w, Day(t), t) THEN {StartOn(w, Day(t))}
    ELSE IF Contains(w, Day(t) - 1, t) THEN {StartOn(w, Day(t) - 1)}
    ELSE {}

\* Mutant: today and six more days.
StartsAheadShort(w, t) ==
    {StartOn(w, day) : day \in {n \in Day(t)..(Day(t) + 6) : OccursOn(w, n) /\ StartOn(w, n) > t}}

\* next: the open occurrence, or the first start after t within a week.
StartsAhead(w, t) ==
    {StartOn(w, day) : day \in {n \in Day(t)..(Day(t) + 7) : OccursOn(w, n) /\ StartOn(w, n) > t}}

NextStart(w, t) ==
    IF OpenAt(w, t) # {} THEN OpenAt(w, t)
    ELSE IF w.enabled THEN Earliest(StartsAhead(w, t))
    ELSE {}

\* Mutant: a window for every device covers none.
CoversGroup(w, g) == w.group = g

Covers(w, g) == w.group = NoGroup \/ w.group = g

\* inWindow over a set of windows: uncovered, or one of its windows open.
InWindow(ws, g, t) ==
    LET own == {w \in ws : w.enabled /\ Covers(w, g)}
    IN  own = {} \/ \E w \in own : OpenAt(w, t) # {}

\* dueAt of a change in window mode whose devices are in groups gs.
DueInWindows(gs, ws, t) == \A g \in gs : InWindow(ws, g, t)

-----------------------------------------------------------------------------
(* nextRun: now, and what eight calls of next per window give. *)

\* Each round begins a minute after the start the round before returned.
Rounds(w, t) ==
    LET r[k \in 1..8] == IF k = 1 THEN NextStart(w, t) ELSE UNION {NextStart(w, s + 1) : s \in r[k - 1]}
    IN  UNION {r[k] : k \in 1..8}

\* The earliest candidate at which the change would be due, if any.
NextRun(gs, ws, t) ==
    Earliest({s \in {t} \cup UNION {Rounds(w, t) : w \in ws} : DueInWindows(gs, ws, s)})

-----------------------------------------------------------------------------
RulesInit ==
    /\ windows = {}
    /\ now = 0

\* SaveWindow with id 0 inserts; otherwise it replaces the row v.
InsertWindow(w) ==
    /\ Cardinality(windows) < MaxWindows
    /\ Valid(w)
    /\ windows' = windows \cup {w}
    /\ UNCHANGED now

UpdateWindow(v, w) ==
    /\ Valid(w)
    /\ windows' = (windows \ {v}) \cup {w}
    /\ UNCHANGED now

DeleteWindow(v) ==
    /\ windows' = windows \ {v}
    /\ UNCHANGED now

Advance ==
    /\ now < MaxTime
    /\ now' = now + 1
    /\ UNCHANGED windows

RulesNext ==
    \/ \E w \in Candidates : InsertWindow(w) \/ \E v \in windows : UpdateWindow(v, w)
    \/ \E v \in windows : DeleteWindow(v)
    \/ Advance

RulesSpec == RulesInit /\ [][RulesNext]_ruleVars

-----------------------------------------------------------------------------
(* Properties *)

\* The definition openAt computes: some occurrence, of any day, contains t.
IsOpen(w, t) == w.enabled /\ \E day \in (Day(t) - 14)..(Day(t) + 14) : Contains(w, day, t)

\* Looking back one day is enough, windows that cross midnight included:
\* openAt finds an occurrence exactly when there is one.
OpenAtFindsOccurrence == \A w \in windows : (OpenAt(w, now) # {}) <=> IsOpen(w, now)

\* The definition inWindow and dueAt compute: a device is held back only by an
\* enabled window of its own group or of all groups, while all of them are closed.
FreeAt(g, t) ==
    (\E w \in windows : w.enabled /\ w.group \in {g, NoGroup}) =>
        \E w \in windows : w.group \in {g, NoGroup} /\ IsOpen(w, t)

\* The estimate for devices of one group is right: there is one for every set
\* of saved windows; ahead, it is the first minute at which they will be free;
\* otherwise they are free, or were when an open window of others began, whose
\* start counts as a candidate. (With two groups the first opening of each
\* window need not suit both, and there may be no estimate.)
EstimateIsFirst ==
    \A g \in Groups \cup {NoGroup} :
        \E s \in NextRun({g}, windows, now) :
            /\ FreeAt(g, s)
            /\ s > now => \A t \in now..(s - 1) : ~FreeAt(g, t)
            /\ s <= now => FreeAt(g, now) \/ \E w \in windows : w.group \notin {g, NoGroup} /\ OpenAt(w, now) = {s}
=============================================================================
