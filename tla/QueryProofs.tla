----------------------------- MODULE QueryProofs -----------------------------
(***************************************************************************)
(* Proofs about AvailabilityQuery.                                         *)
(***************************************************************************)
EXTENDS AvailabilityQuery, OverlapProofs

-----------------------------------------------------------------------------
(***************************************************************************)
(* Where the slots of a date can lie: a day of pad covers every zone.      *)
(***************************************************************************)
LEMMA OffersWithinPad ==
  ASSUME NEW o \in Orgs, NEW org \in Settings, NEW grid \in SUBSET Rules,
         NEW taken, NEW closed, NEW from \in Int, NEW to \in Int, NEW now \in Int,
         NEW slot \in AvailableSlots(Zone[o], org, grid, taken, closed, from .. to, now)
  PROVE  /\ slot.start \in Int /\ slot.end \in Int
         /\ from * Day - Day < slot.start
         /\ slot.end < (to + 1) * Day + Day
         /\ ~ OverlapsAny(slot, taken) /\ ~ OverlapsAny(slot, closed)
<1> DEFINE tz == Zone[o]
<1>1. PICK t \in GridStarts(tz, org.duration, grid, from .. to) : slot = SlotAt(t, org.duration)
  BY DEF AvailableSlots
<1>2. PICK rule \in grid : \E d \in from .. to, m \in Cursors(rule, org.duration) :
        t \in LocalToUtcOrNone(tz, [wall |-> d * Day + m * Minute, fold |-> 0])
  BY <1>1 DEF GridStarts
<1>3. PICK d \in from .. to, m \in Cursors(rule, org.duration) :
        t \in LocalToUtcOrNone(tz, [wall |-> d * Day + m * Minute, fold |-> 0])
  BY <1>2
<1> DEFINE w == d * Day + m * Minute
<1>4. org.duration \in Nat \ {0} BY DEF Settings
<1>5. /\ m \in Nat /\ m * Minute \in Nat /\ org.duration * Minute \in Nat
      /\ m * Minute + org.duration * Minute < Day
  BY <1>3, <1>4, CursorBounds
<1>6. d \in Int /\ from <= d /\ d <= to BY <1>3
<1>7. Day \in Nat BY CalendarAssumption
<1>8. /\ from * Day \in Int /\ d * Day \in Int /\ to * Day \in Int
      /\ from * Day <= d * Day /\ d * Day <= to * Day
  BY <1>6, <1>7, Monotone
<1>9. t = w - tz.before \/ t = w - tz.after
  BY <1>3 DEF LocalToUtcOrNone, ToUtc
<1>10. /\ tz.before \in Int /\ tz.after \in Int
      /\ - Day < tz.before /\ tz.before < Day /\ - Day < tz.after /\ tz.after < Day
  BY OffsetAssumption, ServiceAssumption DEF Zones
<1>11. (to + 1) * Day = to * Day + Day BY <1>7, SMT
<1>12. slot.start = t /\ slot.end = t + org.duration * Minute
  BY <1>1 DEF SlotAt
<1>13. /\ t \in Int /\ from * Day - Day < t
       /\ t + org.duration * Minute < to * Day + Day + Day
  <2> DEFINE D == Day  a == from * Day  b == d * Day  c == to * Day
             x == m * Minute  y == org.duration * Minute
             before == tz.before  after == tz.after
  <2>1. /\ D \in Nat /\ a \in Int /\ b \in Int /\ c \in Int /\ x \in Nat /\ y \in Nat
        /\ a <= b /\ b <= c /\ x + y < D
        /\ before \in Int /\ after \in Int
        /\ - D < before /\ before < D /\ - D < after /\ after < D
        /\ t = b + x - before \/ t = b + x - after
    BY <1>5, <1>7, <1>8, <1>9, <1>10
  <2> HIDE DEF D, a, b, c, x, y, before, after
  <2>2. t \in Int /\ a - D < t /\ t + y < c + D + D
    BY <2>1, SMT
  <2> QED BY <2>2 DEF D, a, b, c, x, y, before, after
<1>14. ~ OverlapsAny(slot, taken) /\ ~ OverlapsAny(slot, closed)
  BY DEF AvailableSlots
<1> QED BY <1>5, <1>11, <1>12, <1>13, <1>14

\* What is computed are ranges: the slots of any zone end after they begin.
LEMMA OffersAreRanges ==
  ASSUME NEW o \in Orgs, NEW org \in Settings, NEW grid \in SUBSET Rules,
         NEW taken, NEW closed, NEW from \in Int, NEW to \in Int, NEW now \in Int
  PROVE  AvailableSlots(Zone[o], org, grid, taken, closed, from .. to, now) \subseteq Ranges
<1> SUFFICES ASSUME NEW slot \in AvailableSlots(Zone[o], org, grid, taken, closed, from .. to, now)
             PROVE  slot \in Ranges
  OBVIOUS
<1>1. PICK t \in GridStarts(Zone[o], org.duration, grid, from .. to) :
        slot = SlotAt(t, org.duration)
  BY DEF AvailableSlots
<1>2. slot.start \in Int /\ slot.end \in Int BY OffersWithinPad
<1>3. slot = [start |-> t, end |-> t + org.duration * Minute] BY <1>1 DEF SlotAt
<1>4. org.duration \in Nat \ {0} /\ Minute \in Nat \ {0}
  BY CalendarAssumption DEF Settings
<1>5. org.duration * Minute \in Int /\ org.duration * Minute > 0 BY <1>4, SMT
<1> QED BY <1>2, <1>3, <1>5 DEF Ranges

-----------------------------------------------------------------------------
(***************************************************************************)
(* A query disturbs nothing, so what holds of BookingService holds here.   *)
(***************************************************************************)
LEMMA QueryCases ==
  ASSUME [QueryNext]_queryVars
  PROVE  /\ [Next]_vars
         /\ (Reading /\ UNCHANGED vars) \/ Elsewhere \/ UNCHANGED queryVars
BY DEF QueryNext, queryVars, Reading, Ask, ReadSettings, ReadRules, ReadBookings,
  ReadExceptions, ListBookings, QueryFails, Elsewhere

\* Every theorem about BookingService rests on Inv, which queries preserve.
LEMMA QueryInvariance == QuerySpec => []Inv
<1>1. QueryInit => Inv BY InvInit DEF QueryInit
<1>2. Inv /\ [QueryNext]_queryVars => Inv'
  BY TypeNext, SlotNext, QueryCases DEF Inv
<1> QED BY <1>1, <1>2, PTL DEF QuerySpec

\* A booking that stays active is the same row.
LEMMA ActiveRowsStay ==
  ASSUME Inv, [Next]_vars, NEW b \in Requests, Active(b), bookings'[b].status = "active"
  PROVE  bookings'[b] = bookings[b]
<1>1. ASSUME NEW r \in Requests, Commit(r) PROVE bookings'[b] = bookings[b]
  <2>1. bookings[r] = Null BY <1>1, CommitRows DEF Inv, SlotInv
  <2>2. b # r BY <2>1 DEF Active
  <2>3. CASE Op(r) # "create" /\ b = Target(r)
    <3>1. bookings'[b] = Cancelled(r, bookings[b])
      BY <1>1, <2>3, CommitRows DEF Inv, SlotInv
    <3>2. bookings[b] \in BookingRows BY DEF Active, Inv, TypeOK
    <3> QED BY <3>1, <3>2 DEF Cancelled, BookingRows
  <2>4. CASE ~ (Op(r) # "create" /\ b = Target(r))
    BY <1>1, <2>2, <2>4, CommitRows DEF Inv, SlotInv
  <2> QED BY <2>3, <2>4
<1>2. CASE UNCHANGED bookings BY <1>2
<1>3. \/ \E r \in Requests : Commit(r)
      \/ UNCHANGED bookings
  BY NextCases, ArriveFrame, HandleFrame, AdministerFrame DEF Tick, vars
<1> QED BY <1>1, <1>2, <1>3

-----------------------------------------------------------------------------
(***************************************************************************)
(* What a query has seen.  A booking that has been active since its        *)
(* arrival is among those it reads, if the padded range can hold it, and   *)
(* an exception that has held is there when it reads the exceptions.       *)
(***************************************************************************)
QueryPhaseOK ==
  /\ stage = "idle" => free = {} /\ kept = {} /\ stood = {} /\ asked = Null
  /\ stage # "idle" => asked \in QuestionType
  /\ stage \in {"rules", "bookings", "exceptions"} => read.org \in Settings
  /\ stage \in {"bookings", "exceptions"} => read.rules \subseteq Rules
  /\ DOMAIN read = {"org", "rules", "bookings"}

KeptAreActive ==
  stage # "idle" =>
    /\ kept \subseteq Requests /\ stood \subseteq exceptions[QueryOrg]
    /\ \A b \in kept : Active(b) /\ bookings[b].org = QueryOrg

KeptAreRead ==
  stage = "exceptions" => \A b \in kept \cap BookingsIn(PaddedDays) : bookings[b] \in read.bookings

SeenInv == QueryPhaseOK /\ KeptAreActive /\ KeptAreRead /\ OffersAreFree

LEMMA QuestionFacts ==
  ASSUME asked \in QuestionType
  PROVE  QueryOrg \in Orgs /\ asked.from \in Int /\ asked.to \in Int
BY ServiceAssumption DEF QuestionType, QueryOrg

\* The computation, with what it has read.
LEMMA ComputedAreFree ==
  ASSUME Inv, SeenInv, ReadExceptions
  PROVE  OffersAreFree'
<1>1. /\ stage = "exceptions" /\ asked \in QuestionType
      /\ read.org \in Settings /\ read.rules \subseteq Rules
  BY DEF ReadExceptions, SeenInv, QueryPhaseOK
<1> DEFINE seen == {e \in exceptions[QueryOrg] : Overlap(e, PaddedDays)}
<1>2. /\ free' = AvailableSlots(Zone[QueryOrg], read.org, read.rules, read.bookings, seen,
                                asked.from .. asked.to, clock)
      /\ UNCHANGED <<bookings, kept, stood>>
  BY DEF ReadExceptions, vars, history
<1>3. QueryOrg \in Orgs /\ asked.from \in Int /\ asked.to \in Int /\ clock \in Int
  BY <1>1, QuestionFacts DEF Inv, TypeOK
<1> SUFFICES ASSUME NEW slot \in free'
             PROVE  /\ \A b \in kept : ~ Overlap(slot, bookings[b])
                    /\ \A e \in stood : ~ Overlap(slot, e)
  BY <1>2 DEF OffersAreFree
<1>4. /\ slot.start \in Int /\ slot.end \in Int
      /\ asked.from * Day - Day < slot.start
      /\ slot.end < (asked.to + 1) * Day + Day
      /\ ~ OverlapsAny(slot, read.bookings) /\ ~ OverlapsAny(slot, seen)
  <2>1. slot \in AvailableSlots(Zone[QueryOrg], read.org, read.rules, read.bookings, seen,
                                asked.from .. asked.to, clock)
    BY <1>2
  <2> HIDE DEF seen
  <2> QED BY <1>1, <1>3, <2>1, OffersWithinPad
<1>5. /\ PaddedDays.start = asked.from * Day - Day
      /\ PaddedDays.end = (asked.to + 1) * Day + Day
      /\ PaddedDays.start \in Int /\ PaddedDays.end \in Int
  BY <1>3, CalendarAssumption, SMT DEF PaddedDays, UtcDays
<1>6. ASSUME NEW x, x.start \in Int, x.end \in Int, Overlap(slot, x)
      PROVE  Overlap(x, PaddedDays)
  BY <1>4, <1>5, <1>6 DEF Overlap
<1>7. ASSUME NEW b \in kept, Overlap(slot, bookings[b]) PROVE FALSE
  <2>1. b \in Requests /\ bookings[b] # Null /\ bookings[b].org = QueryOrg
    BY <1>1 DEF SeenInv, KeptAreActive, Active
  <2>2. bookings[b].start \in Int /\ bookings[b].end \in Int
    BY <2>1, ServiceAssumption DEF Inv, TypeOK, BookingRows
  <2>3. b \in BookingsIn(PaddedDays)
    BY <1>6, <1>7, <2>1, <2>2 DEF BookingsIn
  <2>4. bookings[b] \in read.bookings
    BY <1>1, <2>3 DEF SeenInv, KeptAreRead
  <2> QED BY <1>4, <1>7, <2>4 DEF OverlapsAny
<1>8. ASSUME NEW e \in stood, Overlap(slot, e) PROVE FALSE
  <2>1. e \in exceptions[QueryOrg] /\ e \in Ranges
    BY <1>1, <1>3 DEF SeenInv, KeptAreActive, Inv, TypeOK, ConfigTypeOK
  <2>2. Overlap(e, PaddedDays)
    BY <1>6, <1>8, <2>1 DEF Ranges
  <2> QED BY <1>4, <1>8, <2>1, <2>2 DEF OverlapsAny
<1> QED BY <1>7, <1>8

LEMMA ReadingKeeps ==
  ASSUME Inv, SeenInv, Reading, UNCHANGED vars
  PROVE  SeenInv'
<1> USE DEF SeenInv, QueryPhaseOK, KeptAreActive, KeptAreRead, Active
<1>0. UNCHANGED <<settings, rules, exceptions, bookings, clock>>
  BY DEF vars
<1>1. ASSUME NEW q \in Questions, Ask(q) PROVE SeenInv'
  <2>1. /\ asked' = q /\ q \in QuestionType /\ stage = "idle" /\ stage' \in {"forbidden", "org"}
        /\ kept' = {b \in Requests : Active(b) /\ bookings[b].org = OrgOf[q.actor]}
        /\ stood' = exceptions[OrgOf[q.actor]]
        /\ UNCHANGED <<read, free>>
    BY <1>1, QueryAssumption DEF Ask
  <2> QED BY <1>0, <2>1 DEF QueryOrg, OffersAreFree
<1>2. CASE ReadSettings
  <2>1. settings[QueryOrg] \in Settings
    BY <1>2, QuestionFacts DEF ReadSettings, Inv, TypeOK, ConfigTypeOK
  <2>2. /\ stage = "org" /\ stage' \in {"invalid", "rules"}
        /\ read' = [read EXCEPT !.org = settings[QueryOrg]]
        /\ UNCHANGED <<asked, free, kept, stood>>
    BY <1>2 DEF ReadSettings, history
  <2> QED BY <1>0, <2>1, <2>2 DEF QueryOrg, OffersAreFree
<1>3. CASE ReadRules
  <2>1. rules[QueryOrg] \subseteq Rules
    BY <1>3, QuestionFacts DEF ReadRules, Inv, TypeOK, ConfigTypeOK
  <2>2. /\ stage = "rules" /\ stage' = "bookings"
        /\ read' = [read EXCEPT !.rules = rules[QueryOrg]]
        /\ UNCHANGED <<asked, free, kept, stood>>
    BY <1>3 DEF ReadRules, history
  <2> QED BY <1>0, <2>1, <2>2 DEF QueryOrg, OffersAreFree
<1>4. CASE ReadBookings
  <2>1. /\ stage = "bookings" /\ stage' = "exceptions"
        /\ read' = [read EXCEPT !.bookings =
             {bookings[b] : b \in {x \in BookingsIn(PaddedDays) : Active(x)}}]
        /\ UNCHANGED <<asked, free, kept, stood>>
    BY <1>4 DEF ReadBookings, history
  <2>2. BookingsIn(PaddedDays)' = BookingsIn(PaddedDays)
    BY <1>0, <2>1 DEF BookingsIn, PaddedDays, UtcDays, QueryOrg
  <2>3. KeptAreRead'
    BY <1>0, <2>1, <2>2
  <2> QED BY <1>0, <2>1, <2>3 DEF QueryOrg, OffersAreFree
<1>5. CASE ReadExceptions
  <2>1. OffersAreFree' BY <1>5, ComputedAreFree
  <2>2. /\ stage = "exceptions" /\ stage' \in {"calendar", "answered"}
        /\ UNCHANGED <<asked, read, kept, stood>>
    BY <1>5 DEF ReadExceptions, history
  <2> QED BY <1>0, <2>1, <2>2 DEF QueryOrg
<1>6. CASE ListBookings
  <2>1. stage = "calendar" /\ stage' = "answered" /\ UNCHANGED <<asked, read, free, kept, stood>>
    BY <1>6 DEF ListBookings, history
  <2> QED BY <1>0, <2>1 DEF QueryOrg, OffersAreFree
<1>7. CASE QueryFails
  <2>1. /\ stage \in Stages /\ stage' = "error"
        /\ UNCHANGED <<asked, read, free, kept, stood>>
    BY <1>7 DEF QueryFails, handler, history
  <2> QED BY <1>0, <2>1 DEF QueryOrg, OffersAreFree, Stages
<1> QED BY <1>1, <1>2, <1>3, <1>4, <1>5, <1>6, <1>7 DEF Reading

\* What others do takes bookings and exceptions away from kept and stood, and
\* leaves the rows of the others as they were.
LEMMA ElsewhereKeeps ==
  ASSUME Inv, SeenInv, Elsewhere
  PROVE  SeenInv'
<1>1. /\ [Next]_vars /\ UNCHANGED <<stage, asked, read, free>>
      /\ kept' = {b \in kept : bookings'[b].status = "active"}
      /\ stood' = IF asked = Null THEN stood ELSE stood \cap exceptions'[QueryOrg]
  BY DEF Elsewhere, handler
<1>2. QueryPhaseOK'
  BY <1>1 DEF SeenInv, QueryPhaseOK
<1>3. CASE stage = "idle"
  BY <1>1, <1>2, <1>3 DEF SeenInv, QueryPhaseOK, KeptAreActive, KeptAreRead, OffersAreFree
<1>4. CASE stage # "idle"
  <2>1. asked \in QuestionType /\ asked # Null
    BY <1>4, QueryAssumption DEF SeenInv, QueryPhaseOK
  <2>2. \A b \in kept' : /\ b \in kept /\ b \in Requests /\ Active(b)
                         /\ bookings[b].org = QueryOrg /\ bookings'[b] = bookings[b]
    BY <1>1, <1>4, ActiveRowsStay DEF SeenInv, KeptAreActive
  <2>3. stood' \subseteq stood /\ stood' \subseteq exceptions'[QueryOrg]
    BY <1>1, <2>1
  <2>4. QueryOrg' = QueryOrg /\ PaddedDays' = PaddedDays
    BY <1>1 DEF QueryOrg, PaddedDays, UtcDays
  <2>5. KeptAreActive'
    BY <2>2, <2>3, <2>4 DEF KeptAreActive, Active
  <2>6. \A b \in kept' : b \in BookingsIn(PaddedDays)' => b \in BookingsIn(PaddedDays)
    BY <2>2, <2>4 DEF BookingsIn
  <2>7. KeptAreRead'
    BY <1>1, <2>2, <2>6 DEF SeenInv, KeptAreRead
  <2>8. OffersAreFree'
    BY <1>1, <2>2, <2>3 DEF SeenInv, OffersAreFree
  <2> QED BY <1>2, <2>5, <2>7, <2>8 DEF SeenInv
<1> QED BY <1>3, <1>4

LEMMA SeenInit == QueryInit => SeenInv
BY DEF QueryInit, SeenInv, QueryPhaseOK, KeptAreActive, KeptAreRead, OffersAreFree

LEMMA SeenNext == Inv /\ SeenInv /\ [QueryNext]_queryVars => SeenInv'
<1> SUFFICES ASSUME Inv, SeenInv, [QueryNext]_queryVars PROVE SeenInv'
  OBVIOUS
<1>1. CASE UNCHANGED queryVars
  BY <1>1 DEF queryVars, vars, handler, history, SeenInv, QueryPhaseOK, KeptAreActive,
    KeptAreRead, OffersAreFree, Active, QueryOrg, BookingsIn, PaddedDays, UtcDays
<1> QED BY <1>1, QueryCases, ReadingKeeps, ElsewhereKeeps

\* Whatever happens between the statements of a query, no slot it offers
\* overlaps a booking or an exception that was there all along, for every
\* zone whose offset from UTC is less than a day.
THEOREM OffersAreAlwaysFree == QuerySpec => []OffersAreFree
<1>1. SeenInv => OffersAreFree BY DEF SeenInv
<1> QED BY <1>1, SeenInit, SeenNext, QueryInvariance, PTL DEF QuerySpec

-----------------------------------------------------------------------------
(***************************************************************************)
(* A query that nothing disturbs: its answer and the check of              *)
(* create_booking agree, except on slots in which the clock is changed     *)
(* (ClosingTime shows one) and on the second pass through a repeated hour. *)
(***************************************************************************)
\* The zone of the organisation that is asked for.
QueryZone == Zone[QueryOrg]

WholeMinuteZones == \A o \in Orgs : Zone[o].before % Minute = 0 /\ Zone[o].after % Minute = 0

ActiveOf(o) == {b \in Requests : Active(b) /\ bookings[b].org = o}

\* What an undisturbed query has seen is what is there.
SeesAll ==
  steady /\ stage # "idle" => kept = ActiveOf(QueryOrg) /\ stood = exceptions[QueryOrg]

ReadIsCurrent ==
  steady =>
    /\ stage \in {"rules", "bookings", "exceptions"} => read.org = settings[QueryOrg]
    /\ stage \in {"bookings", "exceptions"} => read.rules = rules[QueryOrg]
    /\ stage = "exceptions" => read.bookings \subseteq {bookings[b] : b \in ActiveOf(QueryOrg)}

OffersAreAccepted ==
  steady => \A slot \in free :
    /\ slot \in Ranges
    /\ KeepsOffset(QueryZone, slot)
         => OnGrid(QueryZone, settings[QueryOrg].duration, rules[QueryOrg], slot)
    /\ (\A rule \in rules[QueryOrg] : ClosedAtChange(QueryZone, rule))
         => KeepsOffset(QueryZone, slot)

\* Starts that the clock shows once, on a whole minute, of a slot during which
\* it is not changed.
FirstPass(t) ==
  /\ UtcOffset(QueryZone, t) % Minute = 0
  /\ ToLocal(QueryZone, t).fold = 0
  /\ KeepsOffset(QueryZone, SlotAt(t, settings[QueryOrg].duration))

\* Answered queries have offered all they could.
Unoffered(t) ==
  LET slot == SlotAt(t, settings[QueryOrg].duration)
  IN  /\ t % Minute = 0 /\ FirstPass(t)
      /\ LocalDate(ToLocal(QueryZone, t)) \in asked.from .. asked.to
      /\ t >= clock + settings[QueryOrg].lead * Minute
      /\ ~ Refused(QueryOrg, slot)
      /\ slot \notin free
      /\ \A b \in ActiveOf(QueryOrg) : ~ Overlap(slot, bookings[b])

NoneUnoffered ==
  steady /\ stage \in {"calendar", "answered"} => \A t \in Starts : ~ Unoffered(t)

SteadyInv ==
  SeesAll /\ ReadIsCurrent /\ OffersAreAccepted /\ NoneUnoffered

\* The computation, with what it has read.
LEMMA ComputedAreAccepted ==
  ASSUME Inv, SeenInv, SteadyInv, ReadExceptions
  PROVE  OffersAreAccepted'
<1>1. /\ stage = "exceptions" /\ asked \in QuestionType
      /\ read.org \in Settings /\ read.rules \in SUBSET Rules
  BY DEF ReadExceptions, SeenInv, QueryPhaseOK
<1> DEFINE seen == {e \in exceptions[QueryOrg] : Overlap(e, PaddedDays)}
<1>2. /\ free' = AvailableSlots(Zone[QueryOrg], read.org, read.rules, read.bookings, seen,
                                asked.from .. asked.to, clock)
      /\ UNCHANGED <<settings, rules, asked, steady>>
  BY DEF ReadExceptions, vars, history
<1>3. QueryOrg \in Orgs /\ asked.from \in Int /\ asked.to \in Int
      /\ Zone[QueryOrg] \in Zones /\ clock \in Int
  BY <1>1, QuestionFacts, ServiceAssumption DEF Inv, TypeOK
<1> SUFFICES ASSUME steady, NEW slot \in free'
             PROVE  /\ slot \in Ranges
                    /\ KeepsOffset(QueryZone, slot)
                         => OnGrid(QueryZone, settings[QueryOrg].duration, rules[QueryOrg], slot)
                    /\ (\A rule \in rules[QueryOrg] : ClosedAtChange(QueryZone, rule))
                         => KeepsOffset(QueryZone, slot)
  BY <1>2 DEF OffersAreAccepted, QueryZone, QueryOrg
<1>4. read.org = settings[QueryOrg] /\ read.rules = rules[QueryOrg]
  BY <1>1 DEF SteadyInv, ReadIsCurrent
<1>5. slot \in AvailableSlots(Zone[QueryOrg], read.org, read.rules, read.bookings, seen,
                              asked.from .. asked.to, clock)
  BY <1>2
<1> HIDE DEF seen
<1>6. slot \in Ranges
  BY <1>1, <1>3, <1>5, OffersAreRanges
<1>7. KeepsOffset(QueryZone, slot) => OnGrid(QueryZone, read.org.duration, read.rules, slot)
  BY <1>1, <1>3, <1>5, ListedIsAccepted DEF QueryZone
<1>8. (\A rule \in read.rules : ClosedAtChange(QueryZone, rule)) => KeepsOffset(QueryZone, slot)
  BY <1>1, <1>3, <1>5, ListedWhenClosed DEF QueryZone
<1> QED BY <1>4, <1>6, <1>7, <1>8

LEMMA ComputedAreAll ==
  ASSUME Inv, SeenInv, SteadyInv, ReadExceptions
  PROVE  NoneUnoffered'
<1>1. /\ stage = "exceptions" /\ asked \in QuestionType
      /\ read.org \in Settings /\ read.rules \in SUBSET Rules
  BY DEF ReadExceptions, SeenInv, QueryPhaseOK
<1> DEFINE seen == {e \in exceptions[QueryOrg] : Overlap(e, PaddedDays)}
           D == read.org.duration
<1>2. /\ free' = AvailableSlots(Zone[QueryOrg], read.org, read.rules, read.bookings, seen,
                                asked.from .. asked.to, clock)
      /\ UNCHANGED <<settings, rules, exceptions, bookings, clock, asked, steady>>
  BY DEF ReadExceptions, vars, history
<1>3. QueryOrg \in Orgs /\ asked.from \in Int /\ asked.to \in Int
      /\ Zone[QueryOrg] \in Zones
  BY <1>1, QuestionFacts, ServiceAssumption
<1>4. SUFFICES ASSUME steady, NEW t \in Starts, Unoffered(t)' PROVE FALSE
  BY <1>2 DEF NoneUnoffered
<1>5. read.org = settings[QueryOrg] /\ read.rules = rules[QueryOrg]
      /\ read.bookings \subseteq {bookings[b] : b \in ActiveOf(QueryOrg)}
  BY <1>1, <1>4 DEF SteadyInv, ReadIsCurrent
<1>6. /\ t % Minute = 0 /\ UtcOffset(Zone[QueryOrg], t) % Minute = 0
      /\ ToLocal(Zone[QueryOrg], t).fold = 0 /\ KeepsOffset(Zone[QueryOrg], SlotAt(t, D))
      /\ LocalDate(ToLocal(Zone[QueryOrg], t)) \in asked.from .. asked.to
      /\ t >= clock + read.org.lead * Minute
      /\ ~ Refused(QueryOrg, SlotAt(t, D))
      /\ SlotAt(t, D) \notin free'
      /\ \A b \in ActiveOf(QueryOrg) : ~ Overlap(SlotAt(t, D), bookings[b])
  BY <1>2, <1>4, <1>5 DEF Unoffered, FirstPass, QueryZone, QueryOrg, Refused, ActiveOf, Active
<1>7. t \in Int /\ t >= clock + read.org.lead * Minute
  BY <1>6, ServiceAssumption
<1>8. ~ OverlapsAny(SlotAt(t, D), read.bookings)
  BY <1>5, <1>6 DEF OverlapsAny
<1>9. OnGrid(Zone[QueryOrg], D, read.rules, SlotAt(t, D))
  BY <1>5, <1>6 DEF Refused
<1>10. ~ OverlapsAny(SlotAt(t, D), seen)
  BY <1>6 DEF Refused, ClearOfExceptions, OverlapsAny, Overlap
<1> HIDE DEF seen
<1>11. SlotAt(t, D) \in AvailableSlots(Zone[QueryOrg], read.org, read.rules, read.bookings, seen,
                                       asked.from .. asked.to, clock)
  BY <1>1, <1>3, <1>6, <1>7, <1>8, <1>9, <1>10, AcceptedIsListed
<1> QED BY <1>2, <1>6, <1>11

LEMMA ReadingIsSteady ==
  ASSUME Inv, SeenInv, SteadyInv, Reading, UNCHANGED vars
  PROVE  SteadyInv'
<1> USE DEF SteadyInv, SeesAll, ReadIsCurrent, OffersAreAccepted, NoneUnoffered, QueryZone
<1>0. UNCHANGED <<settings, rules, exceptions, bookings, clock>>
  BY DEF vars
<1>1. \/ QueryOrg' = QueryOrg /\ ActiveOf(QueryOrg)' = ActiveOf(QueryOrg)
      \/ \E q \in Questions : Ask(q)
  BY <1>0 DEF Reading, ReadSettings, ReadRules, ReadBookings, ReadExceptions, ListBookings,
       QueryFails, handler, QueryOrg, ActiveOf, Active
<1>2. ASSUME NEW t \in Starts, UNCHANGED <<asked, free>>, Unoffered(t)' PROVE Unoffered(t)
  BY <1>0, <1>2 DEF Unoffered, FirstPass, QueryOrg, Refused, ActiveOf, Active
<1>3. ASSUME NEW q \in Questions, Ask(q)
      PROVE  (SeesAll /\ ReadIsCurrent /\ OffersAreAccepted /\ NoneUnoffered)'
  <2>1. /\ asked' = q /\ stage = "idle" /\ stage' \in {"forbidden", "org"} /\ free' = {}
        /\ kept' = {b \in Requests : Active(b) /\ bookings[b].org = OrgOf[q.actor]}
        /\ stood' = exceptions[OrgOf[q.actor]]
    BY <1>3 DEF Ask, SeenInv, QueryPhaseOK
  <2>2. SeesAll'
    BY <1>0, <2>1 DEF QueryOrg, ActiveOf, Active
  <2> QED BY <2>1, <2>2
<1>4. CASE ReadSettings
  BY <1>0, <1>1, <1>4 DEF ReadSettings, history, QueryOrg, SeenInv, QueryPhaseOK, ActiveOf, Active
<1>5. CASE ReadRules
  BY <1>0, <1>1, <1>5 DEF ReadRules, history, QueryOrg, SeenInv, QueryPhaseOK, ActiveOf, Active
<1>6. CASE ReadBookings
  <2>1. /\ stage = "bookings" /\ stage' = "exceptions"
        /\ read' = [read EXCEPT !.bookings =
             {bookings[b] : b \in {x \in BookingsIn(PaddedDays) : Active(x)}}]
        /\ UNCHANGED <<asked, free, steady, kept, stood>>
    BY <1>6 DEF ReadBookings, history
  <2>2. /\ read'.org = read.org /\ read'.rules = read.rules
        /\ read'.bookings = {bookings[b] : b \in {x \in BookingsIn(PaddedDays) : Active(x)}}
    BY <2>1 DEF SeenInv, QueryPhaseOK
  <2>3. read'.bookings \subseteq {bookings[b] : b \in ActiveOf(QueryOrg)}
    BY <2>2 DEF BookingsIn, ActiveOf
  <2>4. QueryOrg' = QueryOrg /\ ActiveOf(QueryOrg)' = ActiveOf(QueryOrg)
    BY <1>0, <2>1 DEF QueryOrg, ActiveOf, Active
  <2> QED BY <1>0, <2>1, <2>2, <2>3, <2>4
<1>7. CASE ReadExceptions
  <2>1. /\ stage = "exceptions" /\ stage' \in {"calendar", "answered"}
        /\ UNCHANGED <<asked, read, steady, kept, stood>>
    BY <1>7 DEF ReadExceptions, history
  <2>2. OffersAreAccepted' BY <1>7, ComputedAreAccepted
  <2>3. NoneUnoffered' BY <1>7, ComputedAreAll
  <2>4. QueryOrg' = QueryOrg /\ ActiveOf(QueryOrg)' = ActiveOf(QueryOrg)
    BY <1>0, <2>1 DEF QueryOrg, ActiveOf, Active
  <2>5. SeesAll' /\ ReadIsCurrent' BY <1>0, <2>1, <2>4
  <2> QED BY <2>2, <2>3, <2>5
<1>8. CASE ListBookings
  <2>1. /\ stage = "calendar" /\ stage' = "answered"
        /\ UNCHANGED <<asked, read, free, steady, kept, stood>>
    BY <1>8 DEF ListBookings, history
  <2>2. NoneUnoffered' BY <1>2, <2>1
  <2> QED BY <1>0, <2>1, <2>2 DEF QueryOrg, ActiveOf, Active
<1>9. CASE QueryFails
  <2>1. /\ stage \in Stages /\ stage' = "error"
        /\ UNCHANGED <<asked, read, free, steady, kept, stood>>
    BY <1>9 DEF QueryFails, handler, history
  <2> QED BY <1>0, <2>1 DEF QueryOrg, ActiveOf, Active, Stages
<1> QED BY <1>3, <1>4, <1>5, <1>6, <1>7, <1>8, <1>9 DEF Reading

LEMMA LaterThreshold ==
  ASSUME NEW t \in Int, NEW now \in Int, NEW later \in Int, NEW lead \in Int,
         now <= later, t >= later + lead
  PROVE  t >= now + lead
BY SMT

LEMMA ElsewhereIsSteady ==
  ASSUME Inv, SeenInv, SteadyInv, Elsewhere
  PROVE  SteadyInv'
<1>1. /\ [Next]_vars /\ UNCHANGED <<stage, asked, read, free>>
      /\ kept' = {b \in kept : bookings'[b].status = "active"}
      /\ stood' = IF asked = Null THEN stood ELSE stood \cap exceptions'[QueryOrg]
      /\ steady' = (asked # Null => (steady /\ UNCHANGED <<config, bookings>>))
  BY DEF Elsewhere, handler
<1>2. CASE stage = "idle"
  BY <1>1, <1>2 DEF SeenInv, QueryPhaseOK, SteadyInv, SeesAll, ReadIsCurrent, OffersAreAccepted,
    NoneUnoffered
<1>3. CASE stage # "idle" /\ ~ steady'
  BY <1>1, <1>3 DEF SteadyInv, SeesAll, ReadIsCurrent, OffersAreAccepted, NoneUnoffered
<1>4. CASE stage # "idle" /\ steady'
  <2>1. asked \in QuestionType /\ asked # Null
    BY <1>4, QueryAssumption DEF SeenInv, QueryPhaseOK
  <2>2. steady /\ UNCHANGED <<settings, rules, exceptions, bookings>>
    BY <1>1, <1>4, <2>1 DEF config
  <2>3. QueryOrg' = QueryOrg /\ ActiveOf(QueryOrg)' = ActiveOf(QueryOrg)
    BY <1>1, <2>2 DEF QueryOrg, ActiveOf, Active
  <2>4. kept' = kept /\ stood' = stood
    BY <1>1, <1>4, <2>1, <2>2 DEF SteadyInv, SeesAll, ActiveOf, Active
  <2>5. (SeesAll /\ ReadIsCurrent /\ OffersAreAccepted)'
    BY <1>1, <2>2, <2>3, <2>4 DEF SteadyInv, SeesAll, ReadIsCurrent, OffersAreAccepted, QueryZone
  <2>6. clock \in Int /\ clock' \in Int /\ clock <= clock'
    <3>1. clock' = clock \/ clock' = clock + 1
      BY <1>1, NextCases, ArriveFrame, HandleFrame, AdministerFrame DEF Tick, vars
    <3> QED BY <3>1 DEF Inv, TypeOK
  <2>7. ASSUME NEW t \in Starts, Unoffered(t)' PROVE Unoffered(t)
    <3> DEFINE lead == settings[QueryOrg].lead * Minute
    <3>1. t \in Int /\ lead \in Int
      <4>1. settings[QueryOrg] \in Settings
        BY <2>1, QuestionFacts DEF Inv, TypeOK, ConfigTypeOK
      <4> QED BY <4>1, ServiceAssumption, CalendarAssumption, SMT DEF Settings
    <3>2. t >= clock' + lead BY <1>1, <2>2, <2>3, <2>7 DEF Unoffered
    <3> HIDE DEF lead
    <3>3. t >= clock + lead BY <2>6, <3>1, <3>2, LaterThreshold
    <3> USE DEF lead
    <3> QED BY <1>1, <2>2, <2>3, <2>7, <3>3 DEF Unoffered, FirstPass, QueryZone, Refused, Active
  <2>8. NoneUnoffered'
    BY <1>1, <2>2, <2>7 DEF SteadyInv, NoneUnoffered
  <2> QED BY <2>5, <2>8 DEF SteadyInv
<1> QED BY <1>2, <1>3, <1>4

LEMMA SteadyInit == QueryInit => SteadyInv
BY DEF QueryInit, SteadyInv, SeesAll, ReadIsCurrent, OffersAreAccepted, NoneUnoffered

LEMMA SteadyUnchanged == SteadyInv /\ UNCHANGED queryVars => SteadyInv'
BY DEF queryVars, vars, handler, history, SteadyInv, SeesAll, ReadIsCurrent, OffersAreAccepted,
  NoneUnoffered, Unoffered, FirstPass, Refused, ActiveOf, Active, QueryOrg, QueryZone

LEMMA SteadyNext == Inv /\ SeenInv /\ SteadyInv /\ [QueryNext]_queryVars => SteadyInv'
<1> SUFFICES ASSUME Inv, SeenInv, SteadyInv, [QueryNext]_queryVars PROVE SteadyInv'
  OBVIOUS
<1> QED BY QueryCases, ReadingIsSteady, ElsewhereIsSteady, SteadyUnchanged

LEMMA SteadyInvariance == QuerySpec => [](Inv /\ LengthInv /\ SeenInv /\ SteadyInv /\ ConfigFits)
<1>1. QueryInit => LengthInv /\ ConfigFits BY LengthInit, ConfigFitsInit DEF QueryInit
<1>2. Inv /\ LengthInv /\ [QueryNext]_queryVars => LengthInv'
  BY LengthNext, QueryCases
<1>3. Inv /\ ConfigFits /\ [QueryNext]_queryVars => ConfigFits'
  BY ConfigFitsNext, QueryCases
<1> QED BY <1>1, <1>2, <1>3, SeenInit, SeenNext, SteadyInit, SteadyNext, QueryInvariance, PTL
     DEF QuerySpec

\* What an undisturbed query offers is accepted, in the booking window, unless
\* its end is read on a clock that has been changed since its start.
UnchangedOffersAreBookable ==
  steady => \A slot \in free :
    /\ KeepsOffset(QueryZone, slot)
    /\ WithinWindow(settings[QueryOrg], clock, slot.start)
    => ~ Refused(QueryOrg, slot)

LEMMA AcceptedOffers ==
  Inv /\ LengthInv /\ SeenInv /\ SteadyInv => UnchangedOffersAreBookable
<1> SUFFICES ASSUME Inv, LengthInv, SeenInv, SteadyInv, steady, NEW slot \in free,
                    KeepsOffset(QueryZone, slot), Refused(QueryOrg, slot)
             PROVE  FALSE
  BY DEF UnchangedOffersAreBookable
<1>1. /\ OnGrid(Zone[QueryOrg], settings[QueryOrg].duration, rules[QueryOrg], slot)
      /\ slot \in Ranges
  BY DEF SteadyInv, OffersAreAccepted, QueryZone
<1>2. stage # "idle" /\ kept = ActiveOf(QueryOrg) /\ stood = exceptions[QueryOrg]
  BY DEF SteadyInv, SeesAll, SeenInv, QueryPhaseOK
<1>3. ClearOfExceptions(exceptions[QueryOrg], slot)
  BY <1>2 DEF SeenInv, OffersAreFree, ClearOfExceptions, Overlap
<1>4. PICK b \in Requests :
        Active(b) /\ bookings[b].org = QueryOrg /\ bookings[b].start = slot.start
  BY <1>1, <1>3 DEF Refused
<1>5. bookings[b].start < bookings[b].end
  BY <1>4 DEF LengthInv, BookingsTakeTime, Active
<1>6. Overlap(slot, bookings[b])
  <2>1. slot.start < slot.end BY <1>1 DEF Ranges
  <2> QED BY <1>4, <1>5, <2>1 DEF Overlap
<1> QED BY <1>2, <1>4, <1>6 DEF SeenInv, OffersAreFree, ActiveOf

\* In every zone, a slot that is offered while nothing is written is accepted
\* when it is asked for, as long as the clock is not changed in it.
THEOREM UnchangedOffersCanBeBooked == QuerySpec => []UnchangedOffersAreBookable
BY AcceptedOffers, SteadyInvariance, PTL

\* RF-4.1 for every grid, every booking and every query: where an organisation
\* is closed when its clock is changed, a slot that is offered while nothing is
\* written is accepted when it is asked for.
THEOREM OffersCanBeBooked ==
  ASSUME ClosedAtChanges
  PROVE  QuerySpec => []OffersAreBookable
<1>1. Inv /\ LengthInv /\ SeenInv /\ SteadyInv /\ ConfigFits => OffersAreBookable
  <2> SUFFICES ASSUME Inv, LengthInv, SeenInv, SteadyInv, ConfigFits, steady, NEW slot \in free,
                      WithinWindow(settings[QueryOrg], clock, slot.start)
               PROVE  ~ Refused(QueryOrg, slot)
    BY DEF OffersAreBookable
  <2>1. QueryOrg \in Orgs
    BY QuestionFacts DEF SeenInv, QueryPhaseOK
  <2>2. \A rule \in rules[QueryOrg] : ClosedAtChange(QueryZone, rule)
    BY <2>1 DEF ConfigFits, ClosedAtChanges, QueryZone
  <2>3. KeepsOffset(QueryZone, slot)
    BY <2>2 DEF SteadyInv, OffersAreAccepted
  <2> QED BY <2>3, AcceptedOffers DEF UnchangedOffersAreBookable
<1> QED BY <1>1, SteadyInvariance, PTL

\* The answer of an undisturbed query holds every slot that could be booked on
\* the first pass, if the clock is not changed in it.
FirstBookablesAreOffered ==
  steady /\ stage \in {"calendar", "answered"} =>
    \A t \in Starts :
      LET slot == SlotAt(t, settings[QueryOrg].duration)
      IN  /\ t % Minute = 0 /\ FirstPass(t)
          /\ LocalDate(ToLocal(QueryZone, t)) \in asked.from .. asked.to
          /\ WithinWindow(settings[QueryOrg], clock, t)
          /\ ~ Refused(QueryOrg, slot)
          => slot \in free \/ \E b \in ActiveOf(QueryOrg) : Overlap(slot, bookings[b])

LEMMA FirstAreOffered == SteadyInv => FirstBookablesAreOffered
BY DEF SteadyInv, NoneUnoffered, Unoffered, FirstBookablesAreOffered, WithinWindow

\* In every zone, whole minutes from UTC or not, the answer of a query that
\* nothing disturbs holds every slot that could be booked on the first pass.
THEOREM FirstBookablesCanBeFound == QuerySpec => []FirstBookablesAreOffered
BY FirstAreOffered, SteadyInvariance, PTL

\* RF-2.4 for every grid, every booking and every query: where an organisation
\* is closed when its clock is changed and is a whole number of minutes from
\* UTC, the answer of a query that nothing disturbs holds every slot that could
\* be booked.
THEOREM BookablesCanBeFound ==
  ASSUME ClosedAtChanges, WholeMinuteZones
  PROVE  QuerySpec => []BookablesAreOffered
<1>1. Inv /\ SeenInv /\ SteadyInv /\ ConfigFits => BookablesAreOffered
  <2> DEFINE D == settings[QueryOrg].duration
  <2> SUFFICES ASSUME Inv, SeenInv, SteadyInv, ConfigFits,
                      steady, stage \in {"calendar", "answered"}, NEW t \in Starts,
                      t % Minute = 0,
                      LocalDate(ToLocal(Zone[QueryOrg], t)) \in asked.from .. asked.to,
                      WithinWindow(settings[QueryOrg], clock, t),
                      ~ Refused(QueryOrg, SlotAt(t, D))
               PROVE  \/ SlotAt(t, D) \in free
                      \/ \E b \in Requests : /\ Active(b) /\ bookings[b].org = QueryOrg
                                             /\ Overlap(SlotAt(t, D), bookings[b])
    BY DEF BookablesAreOffered
  <2>1. QueryOrg \in Orgs /\ t \in Int
    BY QuestionFacts, ServiceAssumption DEF SeenInv, QueryPhaseOK
  <2>2. /\ Zone[QueryOrg] \in Zones /\ rules[QueryOrg] \in SUBSET Rules /\ D \in Nat \ {0}
    BY <2>1, ServiceAssumption DEF Inv, TypeOK, ConfigTypeOK, Settings
  <2>3. \A rule \in rules[QueryOrg] : ClosedAtChange(Zone[QueryOrg], rule)
    BY <2>1 DEF ConfigFits, ClosedAtChanges
  <2>4. OnGrid(Zone[QueryOrg], D, rules[QueryOrg], SlotAt(t, D))
    BY DEF Refused
  <2>5. KeepsOffset(Zone[QueryOrg], SlotAt(t, D)) /\ ToLocal(Zone[QueryOrg], t).fold = 0
    <3> HIDE DEF D
    <3> QED BY <2>1, <2>2, <2>3, <2>4, AcceptedWhenClosed
  <2>6. UtcOffset(Zone[QueryOrg], t) % Minute = 0
    BY <2>1 DEF WholeMinuteZones, UtcOffset
  <2>7. FirstPass(t) BY <2>5, <2>6 DEF FirstPass, QueryZone
  <2> QED BY <2>7, FirstAreOffered DEF FirstBookablesAreOffered, QueryZone, ActiveOf
<1> QED BY <1>1, SteadyInvariance, PTL

-----------------------------------------------------------------------------
(***************************************************************************)
(* Offers share no instant, whatever is written meanwhile, as they come    *)
(* from rules that were read at once.                                      *)
(***************************************************************************)
LEMMA ListedApart ==
  ASSUME NEW tz \in Zones, NEW org \in Settings, NEW grid \in SUBSET Rules, WellFormed(grid),
         NEW taken, NEW closed, NEW from \in Int, NEW to \in Int, NEW now,
         NEW x \in AvailableSlots(tz, org, grid, taken, closed, from .. to, now),
         NEW y \in AvailableSlots(tz, org, grid, taken, closed, from .. to, now),
         KeepsOffset(tz, x), KeepsOffset(tz, y), x # y
  PROVE  ~ Overlap(x, y)
<1> DEFINE D == org.duration
           Answer == AvailableSlots(tz, org, grid, taken, closed, from .. to, now)
<1>1. D \in Nat \ {0} BY DEF Settings
<1>2. \A s \in Answer : \E t \in Int : s = SlotAt(t, D) /\ WallAt(tz, t) % Minute = 0
  <2> SUFFICES ASSUME NEW s \in Answer
               PROVE  \E t \in Int : s = SlotAt(t, D) /\ WallAt(tz, t) % Minute = 0
    OBVIOUS
  <2>1. PICK t \in Int, rule \in grid, d \in Int, m \in Nat :
          s = SlotAt(t, D) /\ WallAt(tz, t) % Minute = 0
    BY ListedInRule
  <2> QED BY <2>1
<1>3. \A s \in Answer : KeepsOffset(tz, s) => OnGrid(tz, D, grid, s)
  BY ListedIsAccepted
<1>4. PICK s \in Int : x = SlotAt(s, D) /\ WallAt(tz, s) % Minute = 0
  BY <1>2
<1>5. PICK t \in Int : y = SlotAt(t, D) /\ WallAt(tz, t) % Minute = 0
  BY <1>2
<1>6. OnGrid(tz, D, grid, x) /\ OnGrid(tz, D, grid, y) BY <1>3
<1> HIDE DEF Answer, D
<1>7. s < t => s + D * Minute <= t
  BY <1>1, <1>4, <1>5, <1>6, SlotsApart
<1>8. t < s => t + D * Minute <= s
  BY <1>1, <1>4, <1>5, <1>6, SlotsApart
<1>9. D * Minute \in Nat BY <1>1, CalendarAssumption, SMT
<1> DEFINE k == D * Minute
<1> HIDE DEF k
<1>10. /\ x.start = s /\ x.end = s + k /\ y.start = t /\ y.end = t + k /\ k \in Nat
       /\ s < t => s + k <= t
       /\ t < s => t + k <= s
  BY <1>4, <1>5, <1>7, <1>8, <1>9 DEF SlotAt, k
<1>11. s # t BY <1>4, <1>5
<1> QED BY <1>10, <1>11 DEF Overlap

ApartInv ==
  /\ stage \in {"org", "rules"} => free = {}
  /\ stage \in {"bookings", "exceptions"} \/ free # {} => read.rules \subseteq AllRules
  /\ \A x \in free : ClosedAtChanges => KeepsOffset(QueryZone, x)
  /\ WellFormed(read.rules) =>
       \A x, y \in free :
         KeepsOffset(QueryZone, x) /\ KeepsOffset(QueryZone, y) /\ x # y => ~ Overlap(x, y)

LEMMA ApartNext == Inv /\ ConfigFits /\ SeenInv /\ ApartInv /\ [QueryNext]_queryVars => ApartInv'
<1> SUFFICES ASSUME Inv, ConfigFits, SeenInv, ApartInv, [QueryNext]_queryVars PROVE ApartInv'
  OBVIOUS
<1> USE DEF ApartInv, QueryZone, QueryOrg
<1>1. ASSUME NEW q \in Questions, Ask(q) PROVE ApartInv'
  BY <1>1 DEF Ask, SeenInv, QueryPhaseOK
<1>2. CASE ReadSettings
  <2>1. /\ read'.rules = read.rules /\ stage = "org" /\ stage' \in {"invalid", "rules"}
        /\ UNCHANGED <<asked, free>>
    BY <1>2 DEF ReadSettings, SeenInv, QueryPhaseOK
  <2> QED BY <2>1
<1>3. CASE ReadRules
  <2>1. /\ read'.rules = rules[QueryOrg] /\ UNCHANGED <<asked, free>> /\ stage = "rules"
        /\ stage' = "bookings"
    BY <1>3 DEF ReadRules, SeenInv, QueryPhaseOK
  <2>2. rules[QueryOrg] \subseteq AllRules
    BY <2>1, QuestionFacts DEF SeenInv, QueryPhaseOK, ConfigFits
  <2>3. free = {} BY <2>1
  <2> QED BY <2>1, <2>2, <2>3
<1>4. CASE ReadBookings
  <2>1. /\ read'.rules = read.rules /\ UNCHANGED <<asked, free>> /\ stage = "bookings"
        /\ stage' = "exceptions"
    BY <1>4 DEF ReadBookings, SeenInv, QueryPhaseOK
  <2> QED BY <2>1
<1>5. CASE ReadExceptions
  <2> DEFINE seen == {e \in exceptions[QueryOrg] : Overlap(e, PaddedDays)}
  <2>1. /\ stage = "exceptions" /\ stage' \in {"calendar", "answered"} /\ UNCHANGED <<asked, read>>
        /\ free' = AvailableSlots(Zone[QueryOrg], read.org, read.rules, read.bookings, seen,
                                  asked.from .. asked.to, clock)
    BY <1>5 DEF ReadExceptions
  <2> HIDE DEF seen
  <2>2. /\ read.org \in Settings /\ read.rules \in SUBSET Rules /\ read.rules \subseteq AllRules
        /\ asked.from \in Int /\ asked.to \in Int /\ Zone[QueryOrg] \in Zones
        /\ QueryOrg \in Orgs
    BY <2>1, QuestionFacts, ServiceAssumption DEF SeenInv, QueryPhaseOK
  <2>3. ClosedAtChanges => \A x \in free' : KeepsOffset(Zone[QueryOrg], x)
    BY <2>1, <2>2, ListedWhenClosed DEF ClosedAtChanges
  <2>4. WellFormed(read.rules) =>
          \A x, y \in free' : /\ KeepsOffset(Zone[QueryOrg], x) /\ KeepsOffset(Zone[QueryOrg], y)
                              /\ x # y
                              => ~ Overlap(x, y)
    BY <2>1, <2>2, ListedApart
  <2> QED BY <2>1, <2>2, <2>3, <2>4
<1>6. CASE ListBookings BY <1>6 DEF ListBookings
<1>7. CASE QueryFails BY <1>7 DEF QueryFails, handler
<1>8. CASE Elsewhere BY <1>8 DEF Elsewhere, handler
<1>9. CASE UNCHANGED queryVars BY <1>9 DEF queryVars, handler
<1> QED BY <1>1, <1>2, <1>3, <1>4, <1>5, <1>6, <1>7, <1>8, <1>9 DEF QueryNext, Reading

\* RF-2.4: offered slots share no instant, for every grid whose rules do not
\* overlap and whatever is written while the query reads, where organisations
\* are closed when their clocks are changed.
THEOREM OffersDoNotOverlap ==
  ASSUME ClosedAtChanges
  PROVE  QuerySpec => []OffersAreApart
<1>1. QueryInit => ApartInv
  BY DEF QueryInit, ApartInv
<1>2. ApartInv => OffersAreApart
  BY DEF ApartInv, OffersAreApart
<1> QED BY <1>1, <1>2, ApartNext, SeenInit, SeenNext, SteadyInvariance, PTL DEF QuerySpec

-----------------------------------------------------------------------------
(***************************************************************************)
(* Type correctness of a query.                                            *)
(***************************************************************************)
LEMMA QueryTypeNext ==
  Inv /\ SeenInv /\ QueryTypeOK /\ [QueryNext]_queryVars => QueryTypeOK'
<1> SUFFICES ASSUME Inv, SeenInv, QueryTypeOK, [QueryNext]_queryVars PROVE QueryTypeOK'
  OBVIOUS
<1> USE DEF QueryTypeOK
<1> DEFINE ReadType == [org : Settings \cup {Null}, rules : SUBSET Rules,
                        bookings : SUBSET BookingRows]
<1>1. stage # "idle" => asked \in QuestionType /\ QueryOrg \in Orgs
  BY QuestionFacts DEF SeenInv, QueryPhaseOK
<1>2. /\ \A o \in Orgs : /\ settings[o] \in Settings /\ rules[o] \subseteq Rules
                         /\ exceptions[o] \subseteq Ranges
      /\ \A b \in Requests : bookings[b] \in BookingRows \cup {Null}
  BY DEF Inv, TypeOK, ConfigTypeOK
<1>3. ASSUME NEW q \in Questions, Ask(q) PROVE QueryTypeOK'
  <2>1. q \in QuestionType /\ OrgOf[q.actor] \in Orgs
    BY QueryAssumption, ServiceAssumption DEF QuestionType
  <2> QED BY <1>2, <1>3, <2>1 DEF Ask, Stages, Outcomes
<1>4. CASE ReadSettings
  <2>1. settings[QueryOrg] \in Settings BY <1>1, <1>2, <1>4 DEF ReadSettings
  <2> QED BY <1>4, <2>1 DEF ReadSettings, history, Stages, Outcomes
<1>5. CASE ReadRules
  <2>1. rules[QueryOrg] \in SUBSET Rules BY <1>1, <1>2, <1>5 DEF ReadRules
  <2> QED BY <1>5, <2>1 DEF ReadRules, history, Stages
<1>6. CASE ReadBookings
  <2>1. {bookings[b] : b \in {x \in BookingsIn(PaddedDays) : Active(x)}} \in SUBSET BookingRows
    BY <1>2 DEF BookingsIn, Active
  <2> QED BY <1>6, <2>1 DEF ReadBookings, history, Stages
<1>7. CASE ReadExceptions
  <2>1. /\ read.org \in Settings /\ read.rules \in SUBSET Rules /\ clock \in Int
        /\ asked.from \in Int /\ asked.to \in Int
    BY <1>1, <1>7, QuestionFacts DEF ReadExceptions, SeenInv, QueryPhaseOK, Inv, TypeOK
  <2>2. free' \subseteq Ranges
    BY <1>1, <1>7, <2>1, OffersAreRanges DEF ReadExceptions
  <2> QED BY <1>7, <2>2 DEF ReadExceptions, history, Stages, Outcomes
<1>8. CASE ListBookings BY <1>8 DEF ListBookings, BookingsIn, history, Outcomes
<1>9. CASE QueryFails BY <1>9 DEF QueryFails, handler, history, Outcomes
<1>10. CASE Elsewhere
  <2>1. steady' \in BOOLEAN BY <1>10 DEF Elsewhere
  <2>2. kept' \subseteq Requests /\ stood' \subseteq Ranges BY <1>10 DEF Elsewhere
  <2>3. UNCHANGED <<stage, asked, read, free, listed>> BY <1>10 DEF Elsewhere, handler
  <2> QED BY <2>1, <2>2, <2>3
<1>11. CASE UNCHANGED queryVars BY <1>11 DEF queryVars, handler, history
<1> QED BY <1>3, <1>4, <1>5, <1>6, <1>7, <1>8, <1>9, <1>10, <1>11 DEF QueryNext, Reading

\* What a query reads, computes and answers is what it should be: settings,
\* rules and bookings of their tables, and slots that begin before they end.
THEOREM QueryTypeCorrect == QuerySpec => []QueryTypeOK
<1>1. QueryInit => QueryTypeOK
  BY DEF QueryInit, QueryTypeOK
<1> QED BY <1>1, QueryTypeNext, SeenInit, SeenNext, QueryInvariance, PTL DEF QuerySpec

-----------------------------------------------------------------------------
(***************************************************************************)
(* The calendar.  It lists by UTC dates what is asked for by local dates.  *)
(***************************************************************************)
\* What the calendar lists are bookings of the organisation that touch the UTC
\* days asked for, and all those of them that were active from its arrival on.
CalendarShowsUtcDays ==
  stage = "answered" /\ asked.view = "calendar" =>
    /\ \A b \in listed : /\ bookings[b] # Null /\ bookings[b].org = QueryOrg
                         /\ Overlap(bookings[b], UtcDays)
    /\ \A b \in kept : Overlap(bookings[b], UtcDays) => b \in listed

CalendarInv ==
  /\ stage = "calendar" => asked.view = "calendar"
  /\ CalendarShowsUtcDays

LEMMA CalendarReading ==
  ASSUME SeenInv, CalendarInv, Reading, UNCHANGED vars
  PROVE  CalendarInv'
<1> USE DEF CalendarInv, CalendarShowsUtcDays
<1>0. UNCHANGED bookings BY DEF vars
<1>1. ASSUME NEW q \in Questions, Ask(q) PROVE CalendarInv' BY <1>1 DEF Ask
<1>2. CASE ReadSettings BY <1>2 DEF ReadSettings
<1>3. CASE ReadRules BY <1>3 DEF ReadRules
<1>4. CASE ReadBookings BY <1>4 DEF ReadBookings
<1>5. CASE ReadExceptions BY <1>5 DEF ReadExceptions
<1>6. CASE ListBookings
  <2>1. /\ stage = "calendar" /\ stage' = "answered" /\ listed' = BookingsIn(UtcDays)
        /\ UNCHANGED <<asked, kept>>
    BY <1>6 DEF ListBookings, history
  <2>2. UNCHANGED <<QueryOrg, UtcDays>> BY <2>1 DEF QueryOrg, UtcDays
  <2>3. \A b \in kept : b \in Requests /\ bookings[b] # Null /\ bookings[b].org = QueryOrg
    BY <2>1 DEF SeenInv, KeptAreActive, Active
  <2> QED BY <1>0, <2>1, <2>2, <2>3 DEF BookingsIn
<1>7. CASE QueryFails BY <1>7 DEF QueryFails
<1> QED BY <1>1, <1>2, <1>3, <1>4, <1>5, <1>6, <1>7 DEF Reading

LEMMA CalendarElsewhere ==
  ASSUME Inv, SeenInv, listed \subseteq Requests, CalendarInv, Elsewhere
  PROVE  CalendarInv'
<1>1. /\ [Next]_vars /\ UNCHANGED <<stage, asked, listed>> /\ kept' \subseteq kept
      /\ kept' = {b \in kept : bookings'[b].status = "active"}
  BY DEF Elsewhere, handler
<1>2. CASE stage # "answered" BY <1>1, <1>2 DEF CalendarInv, CalendarShowsUtcDays
<1>3. CASE stage = "answered"
  <2>1. UNCHANGED <<QueryOrg, UtcDays>> BY <1>1 DEF QueryOrg, UtcDays
  <2>2. \A b \in kept : b \in Requests /\ bookings[b] # Null
    BY <1>3 DEF SeenInv, KeptAreActive, Active
  <2>3. ASSUME NEW b \in Requests, bookings[b] # Null
        PROVE  /\ bookings'[b] # Null /\ bookings'[b].org = bookings[b].org
               /\ \A s : Overlap(bookings'[b], s) <=> Overlap(bookings[b], s)
    BY <1>1, <2>3, RowsRemain DEF Overlap
  <2> QED BY <1>1, <2>1, <2>2, <2>3 DEF CalendarInv, CalendarShowsUtcDays
<1> QED BY <1>2, <1>3

LEMMA CalendarNext ==
  Inv /\ SeenInv /\ QueryTypeOK /\ CalendarInv /\ [QueryNext]_queryVars => CalendarInv'
<1> SUFFICES ASSUME Inv, SeenInv, QueryTypeOK, CalendarInv, [QueryNext]_queryVars
             PROVE  CalendarInv'
  OBVIOUS
<1>1. CASE UNCHANGED queryVars
  BY <1>1 DEF queryVars, vars, handler, history, CalendarInv, CalendarShowsUtcDays, QueryOrg,
    UtcDays
<1> QED BY <1>1, QueryCases, CalendarReading, CalendarElsewhere DEF QueryTypeOK

\* Whatever is booked and cancelled while it is computed, a calendar lists the
\* bookings of its organisation on the UTC days asked for, and no other.
THEOREM CalendarsShowUtcDays == QuerySpec => []CalendarShowsUtcDays
<1>1. QueryInit => CalendarInv BY DEF QueryInit, CalendarInv, CalendarShowsUtcDays
<1>2. CalendarInv => CalendarShowsUtcDays BY DEF CalendarInv
<1> QED BY <1>1, <1>2, CalendarNext, SeenInit, SeenNext, QueryInvariance, QueryTypeCorrect, PTL
     DEF QuerySpec

LEMMA DayBounds ==
  ASSUME NEW t \in Int, NEW from \in Int, NEW to \in Int, from <= t \div Day, t \div Day <= to
  PROVE  from * Day <= t /\ t < (to + 1) * Day
<1> DEFINE d == t \div Day
           r == t % Day
<1>1. d \in Int /\ r \in Nat /\ r < Day /\ t = d * Day + r
  BY CalendarAssumption, SMT
<1>2. from <= d /\ d <= to OBVIOUS
<1> HIDE DEF d, r
<1>3. from * Day <= d * Day
  <2>1. d - from \in Nat BY <1>1, <1>2
  <2>2. (d - from) * Day >= 0 BY <2>1, CalendarAssumption, SMT
  <2>3. (d - from) * Day = d * Day - from * Day BY <1>1, CalendarAssumption, SMT
  <2> QED BY <1>1, <2>2, <2>3, CalendarAssumption, SMT
<1>4. d * Day <= to * Day
  <2>1. to - d \in Nat BY <1>1, <1>2
  <2>2. (to - d) * Day >= 0 BY <2>1, CalendarAssumption, SMT
  <2>3. (to - d) * Day = to * Day - d * Day BY <1>1, CalendarAssumption, SMT
  <2> QED BY <1>1, <2>2, <2>3, CalendarAssumption, SMT
<1>5. (to + 1) * Day = to * Day + Day BY CalendarAssumption, SMT
<1>6. from * Day \in Int /\ to * Day \in Int /\ d * Day \in Int
  BY <1>1, CalendarAssumption, SMT
<1> QED BY <1>1, <1>3, <1>4, <1>5, <1>6, CalendarAssumption, SMT

\* RF-3.3, "the global view of the agenda", is true of organisations whose
\* clocks show UTC: there the UTC days are the days asked for.
THEOREM CalendarIsGlobalInUtc ==
  ASSUME \A o \in Orgs : Zone[o].before = 0 /\ Zone[o].after = 0
  PROVE  QuerySpec => []CalendarIsGlobal
<1>1. Inv /\ LengthInv /\ SeenInv /\ SteadyInv /\ CalendarShowsUtcDays => CalendarIsGlobal
  <2> SUFFICES ASSUME Inv, LengthInv, SeenInv, SteadyInv, CalendarShowsUtcDays, steady,
                      stage = "answered", asked.view = "calendar",
                      NEW b \in Requests, Active(b), bookings[b].org = QueryOrg,
                      LocalDate(ToLocal(Zone[QueryOrg], bookings[b].start))
                        \in asked.from .. asked.to
               PROVE  b \in listed
    BY DEF CalendarIsGlobal
  <2>1. QueryOrg \in Orgs /\ asked.from \in Int /\ asked.to \in Int
    BY QuestionFacts DEF SeenInv, QueryPhaseOK
  <2>2. /\ bookings[b].start \in Int /\ bookings[b].end \in Int
        /\ bookings[b].end > bookings[b].start
    BY ServiceAssumption DEF Active, Inv, TypeOK, BookingRows, LengthInv, BookingsTakeTime
  <2>3. ToLocal(Zone[QueryOrg], bookings[b].start).wall = bookings[b].start
    BY <2>1, <2>2 DEF ToLocal, UtcOffset
  <2>4. /\ bookings[b].start \div Day \in Int
        /\ asked.from <= bookings[b].start \div Day /\ bookings[b].start \div Day <= asked.to
    BY <2>1, <2>2, <2>3, CalendarAssumption DEF LocalDate
  <2>5. ASSUME NEW t \in Int, NEW from \in Int, NEW to \in Int, from <= t \div Day,
               t \div Day <= to
        PROVE  from * Day <= t /\ t < (to + 1) * Day
    BY <2>5, DayBounds
  <2>6. /\ asked.from * Day <= bookings[b].start
        /\ bookings[b].start < (asked.to + 1) * Day
    BY <2>1, <2>2, <2>4, <2>5
  <2>7. asked.from * Day \in Int /\ (asked.to + 1) * Day \in Int
    BY <2>1, CalendarAssumption, SMT
  <2>8. Overlap(bookings[b], UtcDays)
    <3> DEFINE lo == asked.from * Day
               hi == (asked.to + 1) * Day
    <3>1. lo <= bookings[b].start /\ bookings[b].start < hi /\ lo \in Int /\ hi \in Int
      BY <2>6, <2>7
    <3>2. UtcDays = [start |-> lo, end |-> hi] BY DEF UtcDays
    <3> HIDE DEF lo, hi
    <3>3. UtcDays.start = lo /\ UtcDays.end = hi BY <3>2
    <3> QED BY <2>2, <3>1, <3>3 DEF Overlap
  <2>9. b \in kept BY DEF SteadyInv, SeesAll, ActiveOf
  <2> QED BY <2>8, <2>9 DEF CalendarShowsUtcDays
<1> QED BY <1>1, CalendarsShowUtcDays, SteadyInvariance, PTL
==============================================================================
