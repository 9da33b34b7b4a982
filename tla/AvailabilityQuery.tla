-------------------------- MODULE AvailabilityQuery --------------------------
(***************************************************************************)
(* list_available_slots and admin_calendar                                 *)
(* (backend/app/services/availability_query.py), asked while bookings and  *)
(* configuration change.  Each of their statements reads what is committed *)
(* when it runs.  Queries write nothing, so one of them at a time shows    *)
(* all that many can see; the rest of the system is BookingService.        *)
(***************************************************************************)
EXTENDS BookingService, SlotService

CONSTANT Questions   \* the queries that may be asked

QuestionType == [view : {"slots", "calendar"}, actor : Users, from : Int, to : Int]

ASSUME QueryAssumption == Questions \subseteq QuestionType /\ Null \notin QuestionType

\* Python refuses a UTC offset of a day or more.
ASSUME OffsetAssumption ==
  \A o \in Orgs : /\ - Day < Zone[o].before /\ Zone[o].before < Day
                  /\ - Day < Zone[o].after /\ Zone[o].after < Day

VARIABLES
  stage,    \* the statement the query executes next, or how it ended
  asked,    \* what is asked
  read,     \* the settings, rules and bookings the query has read
  free,     \* the slots it offers
  listed,   \* the bookings the calendar shows
  steady,   \* history: nothing has been written since the query arrived,
  kept,     \* the bookings that have been active ever since,
  stood     \* and the exceptions that have held ever since

handler == <<asked, read, free, listed>>
history == <<steady, kept, stood>>
queryVars == <<vars, stage, handler, history>>

Stages == {"org", "rules", "bookings", "exceptions", "calendar"}
Outcomes == {"answered", "invalid", "forbidden", "error"}

QueryOrg == OrgOf[asked.actor]

QueryInit ==
  /\ Init
  /\ stage = "idle" /\ asked = Null
  /\ read = [org |-> Null, rules |-> {}, bookings |-> {}]
  /\ free = {} /\ listed = {}
  /\ steady = TRUE /\ kept = {} /\ stood = {}

\* The routers; require_admin guards the calendar.
Ask(q) ==
  /\ stage = "idle"
  /\ asked' = q
  /\ stage' = IF q.view = "calendar" /\ q.actor \notin Admins THEN "forbidden" ELSE "org"
  /\ kept' = {b \in Requests : Active(b) /\ bookings[b].org = OrgOf[q.actor]}
  /\ stood' = exceptions[OrgOf[q.actor]]
  /\ UNCHANGED <<vars, read, free, listed, steady>>

\* _get_org and _validate_range.
ReadSettings ==
  /\ stage = "org"
  /\ read' = [read EXCEPT !.org = settings[QueryOrg]]
  /\ stage' = IF asked.to < asked.from \/ asked.to - asked.from > settings[QueryOrg].horizon
              THEN "invalid" ELSE "rules"
  /\ UNCHANGED <<vars, asked, free, listed, history>>

ReadRules ==
  /\ stage = "rules"
  /\ read' = [read EXCEPT !.rules = rules[QueryOrg]]
  /\ stage' = "bookings"
  /\ UNCHANGED <<vars, asked, free, listed, history>>

\* The local dates asked for, read as UTC dates.
UtcDays == [start |-> asked.from * Day, end |-> (asked.to + 1) * Day]

\* Mutant: no pad.
UnpaddedDays == UtcDays

\* The same with a day on either side.
PaddedDays == [start |-> UtcDays.start - Day, end |-> UtcDays.end + Day]

BookingsIn(range) ==
  {b \in Requests : /\ bookings[b] # Null /\ bookings[b].org = QueryOrg
                    /\ Overlap(bookings[b], range)}

ReadBookings ==
  /\ stage = "bookings"
  /\ read' = [read EXCEPT !.bookings =
       {bookings[b] : b \in {x \in BookingsIn(PaddedDays) : Active(x)}}]
  /\ stage' = "exceptions"
  /\ UNCHANGED <<vars, asked, free, listed, history>>

\* The last statement of list_available_slots, and the computation.
ReadExceptions ==
  /\ stage = "exceptions"
  /\ free' = AvailableSlots(Zone[QueryOrg], read.org, read.rules, read.bookings,
                            {e \in exceptions[QueryOrg] : Overlap(e, PaddedDays)},
                            asked.from .. asked.to, clock)
  /\ stage' = IF asked.view = "calendar" THEN "calendar" ELSE "answered"
  /\ UNCHANGED <<vars, asked, read, listed, history>>

\* Mutant: an outer join, with a row for no booking.
ListBookingsOuter ==
  /\ stage = "calendar"
  /\ listed' = IF BookingsIn(UtcDays) = {} THEN {Null} ELSE BookingsIn(UtcDays)
  /\ stage' = "answered"
  /\ UNCHANGED <<vars, asked, read, free, history>>

\* The bookings of admin_calendar: those of every status.
ListBookings ==
  /\ stage = "calendar"
  /\ listed' = BookingsIn(UtcDays)
  /\ stage' = "answered"
  /\ UNCHANGED <<vars, asked, read, free, history>>

QueryFails ==
  /\ stage \in Stages
  /\ stage' = "error"
  /\ UNCHANGED <<vars, handler, history>>

\* A step of the rest of the system.
Elsewhere ==
  /\ Next
  /\ steady' = (asked # Null => (steady /\ UNCHANGED <<config, bookings>>))
  /\ kept' = {b \in kept : bookings'[b].status = "active"}
  /\ stood' = IF asked = Null THEN stood ELSE stood \cap exceptions'[QueryOrg]
  /\ UNCHANGED <<stage, handler>>

\* A step of the query itself.
Reading ==
  \/ \E q \in Questions : Ask(q)
  \/ ReadSettings \/ ReadRules \/ ReadBookings \/ ReadExceptions \/ ListBookings
  \/ QueryFails

QueryNext == Reading \/ Elsewhere

QuerySpec == QueryInit /\ [][QueryNext]_queryVars

-----------------------------------------------------------------------------
(***************************************************************************)
(* Properties.                                                             *)
(***************************************************************************)
QueryTypeOK ==
  /\ stage \in {"idle"} \cup Stages \cup Outcomes
  /\ asked \in QuestionType \cup {Null}
  /\ read \in [org : Settings \cup {Null}, rules : SUBSET Rules, bookings : SUBSET BookingRows]
  /\ free \subseteq Ranges /\ listed \subseteq Requests
  /\ steady \in BOOLEAN /\ kept \subseteq Requests /\ stood \subseteq Ranges

\* Whatever is booked, cancelled, moved and reconfigured between the
\* statements of a query, it offers no slot over a booking that was active,
\* or an exception that held, from the query's arrival on.
OffersAreFree ==
  \A slot \in free : /\ \A b \in kept : ~ Overlap(slot, bookings[b])
                     /\ \A e \in stood : ~ Overlap(slot, e)

\* RF-2.4: the slots of an answer share no instant, so that whoever books one
\* takes none of the others, as long as the rules read do not overlap (two PUTs
\* at once can leave rules that do).
OffersAreApart ==
  WellFormed(read.rules) => \A x, y \in free : x # y => ~ Overlap(x, y)

\* What create_booking would refuse of a slot, had its statements run now.
Refused(o, slot) ==
  \/ ~ OnGrid(Zone[o], settings[o].duration, rules[o], slot)
  \/ ~ ClearOfExceptions(exceptions[o], slot)
  \/ \E b \in Requests : Active(b) /\ bookings[b].org = o /\ bookings[b].start = slot.start

\* RF-4.1: a user can choose an available slot and confirm it.  As long as
\* nothing is written, the slots of an answer that lie in the booking window
\* are booked when they are asked for.
OffersAreBookable ==
  steady => \A slot \in free :
    WithinWindow(settings[QueryOrg], clock, slot.start) => ~ Refused(QueryOrg, slot)

\* RF-2.4: the answer holds every slot of its dates that create_booking would
\* accept at a whole minute, unless it overlaps an active booking.
BookablesAreOffered ==
  steady /\ stage \in {"calendar", "answered"} =>
    \A t \in Starts :
      LET slot == SlotAt(t, settings[QueryOrg].duration)
      IN  /\ t % Minute = 0
          /\ LocalDate(ToLocal(Zone[QueryOrg], t)) \in asked.from .. asked.to
          /\ WithinWindow(settings[QueryOrg], clock, t)
          /\ ~ Refused(QueryOrg, slot)
          => slot \in free \/ \E b \in Requests : /\ Active(b) /\ bookings[b].org = QueryOrg
                                                  /\ Overlap(slot, bookings[b])

\* RF-3.3: the administrator's calendar is the global view, taken and free:
\* what is no free slot for being booked is shown with its booking.
CalendarIsGlobal ==
  steady /\ stage = "answered" /\ asked.view = "calendar" =>
    \A b \in Requests :
      /\ Active(b) /\ bookings[b].org = QueryOrg
      /\ LocalDate(ToLocal(Zone[QueryOrg], bookings[b].start)) \in asked.from .. asked.to
      => b \in listed
==============================================================================
