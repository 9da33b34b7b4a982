----------------------------- MODULE SlotService -----------------------------
(***************************************************************************)
(* compute_available_slots (backend/app/services/slot_service.py): the     *)
(* slots that the rules place on some local dates, without those that are  *)
(* too soon or overlap a booking or an exception.  The order of the answer *)
(* is left out.                                                            *)
(***************************************************************************)
EXTENDS Slots

\* Mutant: a slot may stick out of its rule.
CursorsInside(rule, duration) ==
  LET opens == rule.start \div Minute
  IN  {m \in opens .. rule.end \div Minute : (m - opens) % duration = 0}

\* Mutant: the cursor moves on by a minute.
CursorsEachMinute(rule, duration) ==
  {m \in rule.start \div Minute .. rule.end \div Minute : m + duration <= rule.end \div Minute}

\* The minutes of the day at which the inner loop stops in a rule.
Cursors(rule, duration) ==
  LET opens == rule.start \div Minute
  IN  {m \in opens .. rule.end \div Minute :
         (m - opens) % duration = 0 /\ m + duration <= rule.end \div Minute}

\* The instants of those minutes on the dates; a time that the zone skips has none.
GridStarts(tz, duration, rules, dates) ==
  UNION {UNION {LocalToUtcOrNone(tz, [wall |-> d * Day + m * Minute, fold |-> 0]) :
                  d \in {x \in dates : x % Week = rule.dow}, m \in Cursors(rule, duration)} :
           rule \in rules}

OverlapsAny(slot, ranges) == \E r \in ranges : Overlap(slot, r)

\* Mutant: slots that begin at the threshold are left out.
AvailableSlotsAfter(tz, org, rules, bookings, exceptions, dates, now) ==
  {slot \in {SlotAt(t, org.duration) : t \in GridStarts(tz, org.duration, rules, dates)} :
     /\ slot.start > now + org.lead * Minute
     /\ ~ OverlapsAny(slot, bookings)
     /\ ~ OverlapsAny(slot, exceptions)}

AvailableSlots(tz, org, rules, bookings, exceptions, dates, now) ==
  {slot \in {SlotAt(t, org.duration) : t \in GridStarts(tz, org.duration, rules, dates)} :
     /\ slot.start >= now + org.lead * Minute
     /\ ~ OverlapsAny(slot, bookings)
     /\ ~ OverlapsAny(slot, exceptions)}
==============================================================================
