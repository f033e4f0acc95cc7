------------------------------ MODULE PeriodLocks ------------------------------
(***************************************************************************)
(* Accounting periods as ranges of days, and what a set of period locks    *)
(* says about a range, a day and a month (services/agents/period_lock.py,  *)
(* services/accounting/period_projection.py).  Both ends of a range are    *)
(* part of it.                                                             *)
(***************************************************************************)
EXTENDS Integers

CONSTANT Days  \* the calendar, day by day

ASSUME DaysAssumption == Days \subseteq Int

Span == {s \in [from : Days, to : Days] : s.from <= s.to}

(* _find_overlapping_lock compares ends, it does not look at days. *)
Overlaps(s, t) == s.from <= t.to /\ s.to >= t.from

(* check_date_in_locked_period: the lock that keeps a write out. *)
Holds(s, d) == s.from <= d /\ s.to >= d

IsPeriodLocked(S, t) == \E s \in S : Overlaps(s, t)
DateLocked(S, d)     == \E s \in S : Holds(s, d)

DaysOf(s) == {d \in Days : Holds(s, d)}

(* project_month: the status the period screens show for a month. *)
ProjectMonth(S, m) ==
  LET covered == {d \in DaysOf(m) : DateLocked(S, d)} IN
  IF covered = {} THEN "open"
  ELSE IF covered = DaysOf(m) THEN "closed"
  ELSE "partially_closed"

(* The open buttons release by overlap, not by exact range. *)
AfterOpen(S, m) == {s \in S : ~Overlaps(s, m)}
=============================================================================
