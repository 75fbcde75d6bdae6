-------------------------- MODULE RenewalCalendar --------------------------
(***************************************************************************)
(* The reaper's billing calendar: nextRenewal and decideByRenewal of       *)
(* cluster-autoscaler/contabo-externalgrpc/internal/reaper/reaper.go, with *)
(* Go's time.Date and AddDate, which carry a day past the end of a month   *)
(* into the next one.  A clock runs through the years and a pass may ask   *)
(* for the decision at every tick of it.                                   *)
(***************************************************************************)
EXTENDS Integers

CONSTANTS
    RenewalDays,  \* the values of RENEWAL_DAY to try; loadConfig accepts 1..31
    Windows,      \* the values of RELEASE_WINDOW to try, in ticks
    TicksPerDay,  \* bound on the resolution of the clock
    Years         \* bound on the years the clock runs, the first a leap year

VARIABLES now, renewalDay, releaseWindow
vars == <<now, renewalDay, releaseWindow>>

------------------------------------------------------------------------------
(* Dates                                                                   *)

Leap(y) == y % 4 = 0
DaysIn(y, m) ==
    IF m = 2 THEN (IF Leap(y) THEN 29 ELSE 28) ELSE IF m \in {4, 6, 9, 11} THEN 30 ELSE 31

DaysBefore == <<0, 31, 59, 90, 120, 151, 181, 212, 243, 273, 304, 334>>
DayNumber(y, m, d) ==
    365 * y + (y + 3) \div 4 + DaysBefore[m] + (IF Leap(y) /\ m > 2 THEN 1 ELSE 0) + d

\* The month after the m-th of year y.
NextMonth(y, m) == IF m = 12 THEN <<y + 1, 1>> ELSE <<y, m + 1>>

\* time.Date: a day the month does not have is carried into the next month.
Date(y, m, d) ==
    IF d <= DaysIn(y, m) THEN [y |-> y, m |-> m, d |-> d]
    ELSE [y |-> NextMonth(y, m)[1], m |-> NextMonth(y, m)[2], d |-> d - DaysIn(y, m)]

\* AddDate(0, 1, 0).
AddMonth(date) == Date(NextMonth(date.y, date.m)[1], NextMonth(date.y, date.m)[2], date.d)

\* Midnight of a date, and the clock, in ticks.
Midnight(date) == DayNumber(date.y, date.m, date.d) * TicksPerDay
Ticks(t) == DayNumber(t.y, t.m, t.d) * TicksPerDay + t.tick

------------------------------------------------------------------------------
(* reaper.go                                                               *)

\* Mutant: the renewal of this very instant counts as the next one.
nextRenewalAtOrAfter(t, day) ==
    LET renewal == Date(t.y, t.m, day)
    IN  IF Midnight(renewal) < Ticks(t) THEN AddMonth(renewal) ELSE renewal

nextRenewal(t, day) ==
    LET renewal == Date(t.y, t.m, day)
    IN  IF Midnight(renewal) <= Ticks(t) THEN AddMonth(renewal) ELSE renewal

\* Mutant: the window is counted from the renewal on.
decideAfterRenewal(t, window, day) ==
    Ticks(t) < Midnight(Date(t.y, t.m, day)) + window

\* Mutant: the window opens a tick late.
decideLate(t, window, day) == Ticks(t) > Midnight(nextRenewal(t, day)) - window

\* Release, not keep: now is not before the start of the window.
decideByRenewal(t, window, day) == ~(Ticks(t) < Midnight(nextRenewal(t, day)) - window)

------------------------------------------------------------------------------

Init ==
    /\ now = [y |-> 0, m |-> 1, d |-> 1, tick |-> 0]
    /\ renewalDay \in RenewalDays
    /\ releaseWindow \in Windows

Tick ==
    /\ now.y < Years
    /\ now' = IF now.tick + 1 < TicksPerDay THEN [now EXCEPT !.tick = @ + 1]
              ELSE LET next == Date(now.y, now.m, now.d + 1)
                   IN  [y |-> next.y, m |-> next.m, d |-> next.d, tick |-> 0]
    /\ UNCHANGED <<renewalDay, releaseWindow>>

Next == Tick \/ (now.y = Years /\ UNCHANGED vars)

Spec == Init /\ [][Next]_vars

------------------------------------------------------------------------------
(* Properties                                                              *)

\* Reference: the instants at which Contabo renews, midnight of every
\* renewalDay there is in the calendar.
RenewsAt(t) == t.d = renewalDay /\ t.tick = 0

\* Days 29 to 31 are not in every month, and nextRenewal may then name a day
\* of the next month that is no renewal day.
EveryMonth == renewalDay <= 28

\* nextRenewal is the first midnight of a renewalDay after now: it is one, it
\* is ahead, and none lies between.
NextRenewalIsFirst ==
    EveryMonth =>
        LET r == nextRenewal(now, renewalDay)
        IN  /\ r.d = renewalDay /\ Midnight(r) > Ticks(now)
            /\ \A y \in {now.y, now.y + 1}, m \in 1..12 :
                 LET other == Midnight([y |-> y, m |-> m, d |-> renewalDay])
                 IN  other <= Ticks(now) \/ other >= Midnight(r)

\* No renewal is reached without the tick before it deciding to release, on any
\* renewal day: a node that is idle then is not paid for another month.
NoRenewalMissed ==
    [][RenewsAt(now') => decideByRenewal(now, releaseWindow, renewalDay)]_vars

\* No node is given up early: when the decision is to release, a renewal
\* comes within the window.
ReleasedOnlyNear ==
    EveryMonth /\ decideByRenewal(now, releaseWindow, renewalDay) =>
        \E y \in {now.y, now.y + 1}, m \in 1..12 :
            Midnight([y |-> y, m |-> m, d |-> renewalDay]) - Ticks(now) \in 1..releaseWindow
=============================================================================
