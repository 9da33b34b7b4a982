-------------------------------- MODULE Slots --------------------------------
(***************************************************************************)
(* The tests a slot has to pass to be booked: the pure part of             *)
(* backend/app/services/booking_service.py.  A slot is [start, end] in UTC *)
(* ticks, a rule [dow, start, end] holds times of day in ticks, and an     *)
(* organisation's settings [duration, lead, horizon] hold minutes, minutes *)
(* and days as in the organizations table.                                 *)
(***************************************************************************)
EXTENDS LocalTime

CONSTANTS
  Minute,   \* ticks in a minute; more than one, so that a start can have seconds
  Day,      \* ticks in a day
  Week      \* days in a week

ASSUME CalendarAssumption ==
  /\ Minute \in Nat \ {0} /\ Day \in Nat \ {0} /\ Week \in Nat \ {0}
  /\ Day % Minute = 0

Ranges == {s \in [start : Int, end : Int] : s.end > s.start}
Rules == {u \in [dow : 0 .. Week - 1, start : 0 .. Day - 1, end : 0 .. Day - 1] :
            u.end > u.start}
Settings == [duration : Nat \ {0}, lead : Nat, horizon : Nat \ {0}]

LocalDate(l) == l.wall \div Day
Weekday(l) == LocalDate(l) % Week
\* hour * 60 + minute: seconds are dropped.
MinuteOfDay(l) == (l.wall % Day) \div Minute

Overlap(a, b) == a.start < b.end /\ b.start < a.end

SlotAt(start, duration) == [start |-> start, end |-> start + duration * Minute]

\* The clock is not changed while the slot lasts.
KeepsOffset(tz, slot) == UtcOffset(tz, slot.start) = UtcOffset(tz, slot.end)

\* _validate_slot_window
WithinWindow(org, now, start) ==
  /\ start >= now + org.lead * Minute
  /\ start <= now + org.horizon * Day

\* Mutant: a slot need not align with its rule.
OnGridUnaligned(tz, duration, rules, slot) ==
  LET from == ToLocal(tz, slot.start)
      till == ToLocal(tz, slot.end)
  IN  /\ LocalToUtcOrNone(tz, from) = {slot.start}
      /\ LocalDate(till) = LocalDate(from)
      /\ \E rule \in rules : /\ rule.dow = Weekday(from)
                             /\ MinuteOfDay(from) >= rule.start \div Minute
                             /\ MinuteOfDay(till) <= rule.end \div Minute

\* _validate_against_grid
OnGrid(tz, duration, rules, slot) ==
  LET from == ToLocal(tz, slot.start)
      till == ToLocal(tz, slot.end)
  IN  /\ LocalToUtcOrNone(tz, from) = {slot.start}
      /\ LocalDate(till) = LocalDate(from)
      /\ \E rule \in rules :
           LET offset == MinuteOfDay(from) - rule.start \div Minute
           IN  /\ rule.dow = Weekday(from)
               /\ offset >= 0 /\ offset % duration = 0
               /\ MinuteOfDay(till) <= rule.end \div Minute

\* Mutant: only an exception that covers the whole slot counts.
ClearUnlessCovered(exceptions, slot) ==
  \A e \in exceptions : ~ (e.start <= slot.start /\ slot.end <= e.end)

\* _validate_against_exceptions
ClearOfExceptions(exceptions, slot) == \A e \in exceptions : ~ Overlap(e, slot)
==============================================================================
