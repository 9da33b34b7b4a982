------------------------------ MODULE SlotProofs ------------------------------
(***************************************************************************)
(* The two readings of a grid agree: the slots compute_available_slots     *)
(* lists are those _validate_against_grid accepts, but for slots in which  *)
(* the clock is changed and for the second pass through a repeated hour.   *)
(***************************************************************************)
EXTENDS SlotService, TLAPS

-----------------------------------------------------------------------------
(***************************************************************************)
(* Arithmetic of days and minutes.                                         *)
(***************************************************************************)
LEMMA Monotone ==
  ASSUME NEW a \in Int, NEW b \in Int, NEW k \in Nat, a <= b
  PROVE  a * k <= b * k /\ a * k \in Int /\ b * k \in Int
<1>1. (b - a) \in Nat BY SMT
<1>2. (b - a) * k >= 0 BY <1>1, SMT
<1>3. (b - a) * k = b * k - a * k BY SMT
<1> QED BY <1>2, <1>3, SMT

LEMMA WholeMinutes ==
  ASSUME NEW t \in Nat
  PROVE  t \div Minute \in Nat /\ (t \div Minute) * Minute <= t
BY CalendarAssumption, SMT

LEMMA CursorBounds ==
  ASSUME NEW rule \in Rules, NEW duration \in Nat \ {0}, NEW m \in Cursors(rule, duration)
  PROVE  m \in Nat /\ m * Minute \in Nat /\ duration * Minute \in Nat
         /\ m * Minute + duration * Minute < Day
<1>1. rule.start \in Nat /\ rule.end \in Nat /\ rule.end < Day
  BY CalendarAssumption DEF Rules
<1>2. rule.start \div Minute \in Nat /\ rule.end \div Minute \in Nat
      /\ (rule.end \div Minute) * Minute <= rule.end
  BY <1>1, WholeMinutes
<1>3. m \in Nat /\ m + duration <= rule.end \div Minute
  BY <1>2 DEF Cursors
<1>4. Minute \in Nat /\ Day \in Nat BY CalendarAssumption
<1>5. (m + duration) * Minute <= (rule.end \div Minute) * Minute
  BY <1>2, <1>3, <1>4, Monotone
<1>6. (m + duration) * Minute = m * Minute + duration * Minute
  BY <1>3, <1>4, SMT
<1>7. m * Minute \in Nat /\ duration * Minute \in Nat
  BY <1>3, <1>4, SMT
<1> QED BY <1>1, <1>2, <1>3, <1>4, <1>5, <1>6, <1>7

LEMMA DivMod ==
  ASSUME NEW k \in Nat \ {0}, NEW d \in Int, NEW x \in Nat, x < k
  PROVE  (d * k + x) \div k = d /\ (d * k + x) % k = x
<1> DEFINE n == d * k + x
           q == n \div k
           r == n % k
<1>1. n \in Int BY SMT
<1>2. q \in Int /\ r \in Nat /\ r < k /\ n = q * k + r
  BY <1>1, SMT
<1>3. (q - d) * k = q * k - d * k BY <1>1, <1>2, SMT
<1>4. (q - d) * k < k /\ - k < (q - d) * k
  BY <1>2, <1>3, SMT
<1>5. q - d < 1
  <2>1. SUFFICES ASSUME q - d >= 1 PROVE FALSE BY <1>2, SMT
  <2>2. (q - d - 1) * k >= 0 BY <2>1, <1>2, SMT
  <2>3. (q - d - 1) * k = (q - d) * k - k BY <1>2, SMT
  <2> QED BY <1>4, <2>2, <2>3, <1>2, SMT
<1>6. q - d > -1
  <2>1. SUFFICES ASSUME q - d <= -1 PROVE FALSE BY <1>2, SMT
  <2>2. (d - q - 1) * k >= 0 BY <2>1, <1>2, SMT
  <2>3. (d - q - 1) * k = - ((q - d) * k) - k BY <1>2, SMT
  <2>4. (q - d) * k \in Int BY <1>2, SMT
  <2> QED BY <1>4, <2>2, <2>3, <2>4, <1>2, SMT
<1>7. q = d BY <1>2, <1>5, <1>6, SMT
<1> QED BY <1>2, <1>7, SMT

LEMMA WallOfSlot ==
  ASSUME NEW d \in Int, NEW m \in Nat, NEW wall, wall = d * Day + m * Minute,
         m * Minute \in Nat, m * Minute < Day
  PROVE  wall \in Int /\ wall \div Day = d /\ (wall % Day) \div Minute = m
<1>1. wall \div Day = d /\ wall % Day = m * Minute
  BY CalendarAssumption, DivMod
<1>2. m * Minute = m * Minute + 0 BY SMT
<1>3. (m * Minute + 0) \div Minute = m
  BY CalendarAssumption, DivMod
<1>4. d * Day \in Int BY CalendarAssumption, SMT
<1> QED BY <1>1, <1>2, <1>3, <1>4

LEMMA Products ==
  ASSUME NEW a \in Int, NEW b \in Int, NEW k \in Int
  PROVE  /\ (a + b) * k = a * k + b * k
         /\ (a - b) * k = a * k - b * k
         /\ a * (b * k) = (a * b) * k
         /\ a * b \in Int
BY SMT

LEMMA Multiples ==
  ASSUME NEW k \in Nat \ {0}, NEW n \in Int
  PROVE  /\ n \div k \in Int /\ n % k \in Nat /\ n % k < k
         /\ n = (n \div k) * k + (n % k)
         /\ (n * k) % k = 0
<1>1. /\ n \div k \in Int /\ n % k \in Nat /\ n % k < k
      /\ n = (n \div k) * k + (n % k)
  BY SMT
<1>2. (n * k + 0) % k = 0 BY DivMod
<1>3. n * k + 0 = n * k BY SMT
<1> QED BY <1>1, <1>2, <1>3

\* A wall reading on a whole minute is its date's first tick and whole minutes.
LEMMA WallOnMinute ==
  ASSUME NEW w \in Int, w % Minute = 0
  PROVE  /\ w \div Day \in Int /\ (w % Day) \div Minute \in Nat
         /\ w % Day = ((w % Day) \div Minute) * Minute
         /\ w = (w \div Day) * Day + ((w % Day) \div Minute) * Minute
<1> DEFINE d == w \div Day
           x == w % Day
           k == Day \div Minute
           e == w \div Minute
<1>1. Day \in Nat \ {0} /\ Minute \in Nat \ {0} /\ Day % Minute = 0
  BY CalendarAssumption
<1>2. d \in Int /\ x \in Nat /\ x < Day /\ w = d * Day + x
  BY <1>1, Multiples
<1>3. k \in Int /\ Day = k * Minute
  BY <1>1, Multiples
<1>4. e \in Int /\ w = e * Minute
  BY <1>1, Multiples
<1>5. x = (e - d * k) * Minute
  <2>1. x = w - d * Day BY <1>1, <1>2, SMT
  <2> HIDE DEF d, x, e, k
  <2>2. d * k \in Int /\ d * Day = (d * k) * Minute
    BY <1>1, <1>2, <1>3, Products
  <2>3. Minute \in Int BY <1>1
  <2>4. (e - d * k) * Minute = e * Minute - (d * k) * Minute
    BY <1>4, <2>2, <2>3, Products
  <2> QED BY <1>4, <2>1, <2>2, <2>4
<1>6. x % Minute = 0
  BY <1>1, <1>2, <1>3, <1>4, <1>5, Multiples
<1>7. x = (x \div Minute) * Minute
  BY <1>1, <1>2, <1>6, Multiples
<1>8. x \div Minute \in Nat
  BY <1>2, WholeMinutes
<1> QED BY <1>2, <1>7, <1>8

LEMMA SumOfMinutes ==
  ASSUME NEW a \in Int, a % Minute = 0, NEW b \in Int, b % Minute = 0
  PROVE  a + b \in Int /\ (a + b) % Minute = 0
<1> DEFINE x == a \div Minute  y == b \div Minute  z == x + y
<1>1. Minute \in Nat \ {0} BY CalendarAssumption
<1>2. x \in Int /\ a = x * Minute BY <1>1, Multiples
<1>3. y \in Int /\ b = y * Minute BY <1>1, Multiples
<1> HIDE DEF x, y
<1>4. z \in Int /\ a + b = z * Minute BY <1>1, <1>2, <1>3, Products
<1> HIDE DEF z
<1>5. (z * Minute) % Minute = 0 BY <1>1, <1>4, Multiples
<1> QED BY <1>4, <1>5

-----------------------------------------------------------------------------
(***************************************************************************)
(* Clocks.                                                                 *)
(***************************************************************************)
\* What the clock on the wall shows at an instant.
WallAt(tz, t) == ToLocal(tz, t).wall

LEMMA Readings ==
  ASSUME NEW tz \in Zones, NEW t \in Int
  PROVE  /\ tz.change \in Int /\ tz.before \in Int /\ tz.after \in Int
         /\ UtcOffset(tz, t) \in Int
         /\ WallAt(tz, t) = t + UtcOffset(tz, t) /\ WallAt(tz, t) \in Int
         /\ ToLocal(tz, t) = [wall |-> WallAt(tz, t), fold |-> ToLocal(tz, t).fold]
         /\ ToLocal(tz, t).fold \in {0, 1}
BY DEF Zones, UtcOffset, WallAt, ToLocal

\* An instant that is read on the clock and read back is the same instant, in
\* every zone: the test of _validate_against_grid for local times that do not
\* exist refuses no start.
THEOREM EveryInstantHasALocalTime ==
  ASSUME NEW tz \in Zones, NEW t \in Int
  PROVE  LocalToUtcOrNone(tz, ToLocal(tz, t)) = {t}
<1>1. tz.change \in Int /\ tz.before \in Int /\ tz.after \in Int
  BY DEF Zones
<1>2. ToUtc(tz, ToLocal(tz, t)) = t
  BY <1>1 DEF ToUtc, ToLocal, UtcOffset
<1> QED BY <1>2 DEF LocalToUtcOrNone

\* local_to_utc_or_none does what its docstring says: None if the clock never
\* shows the time, the first occurrence if it shows it twice.
THEOREM LocalToUtcIsTheFirst ==
  ASSUME NEW tz \in Zones, NEW w \in Int
  PROVE  LocalToUtcOrNone(tz, [wall |-> w, fold |-> 0])
           = {t \in Int : /\ WallAt(tz, t) = w
                          /\ \A s \in Int : WallAt(tz, s) = w => t <= s}
<1> DEFINE u == ToUtc(tz, [wall |-> w, fold |-> 0])
<1>1. tz.change \in Int /\ tz.before \in Int /\ tz.after \in Int
  BY DEF Zones
<1>2. u \in Int BY <1>1 DEF ToUtc
<1>3. \A s \in Int : WallAt(tz, s) = w => WallAt(tz, u) = w /\ u <= s
  BY <1>1 DEF WallAt, ToLocal, UtcOffset, ToUtc
<1>4. LocalToUtcOrNone(tz, [wall |-> w, fold |-> 0])
        = IF WallAt(tz, u) = w THEN {u} ELSE {}
  BY DEF LocalToUtcOrNone, WallAt
<1> HIDE DEF u
<1>5. CASE WallAt(tz, u) = w
  <2>1. \A t \in Int : WallAt(tz, t) = w /\ (\A s \in Int : WallAt(tz, s) = w => t <= s)
          => t = u
    BY <1>2, <1>3, <1>5
  <2> QED BY <1>2, <1>3, <1>4, <1>5, <2>1
<1>6. CASE WallAt(tz, u) # w
  BY <1>3, <1>4, <1>6
<1> QED BY <1>5, <1>6

\* The end of a slot in which the clock is not changed.
LEMMA ReadingOfEnd ==
  ASSUME NEW tz \in Zones, NEW t \in Int, NEW D \in Nat \ {0},
         KeepsOffset(tz, SlotAt(t, D))
  PROVE  /\ D * Minute \in Nat /\ D * Minute > 0
         /\ t + D * Minute \in Int
         /\ WallAt(tz, SlotAt(t, D).end) = WallAt(tz, t) + D * Minute
<1>1. D * Minute \in Nat /\ D * Minute > 0 BY CalendarAssumption, SMT
<1> DEFINE k == D * Minute
<1> HIDE DEF k
<1>2. t + k \in Int BY <1>1 DEF k
<1>3. UtcOffset(tz, t) = UtcOffset(tz, t + k) BY DEF KeepsOffset, SlotAt, k
<1>4. WallAt(tz, t + k) = WallAt(tz, t) + k
  BY <1>1, <1>2, <1>3, Readings DEF k
<1> QED BY <1>1, <1>2, <1>4 DEF k, SlotAt

-----------------------------------------------------------------------------
(***************************************************************************)
(* What one reading of a grid lists and the other accepts.                 *)
(***************************************************************************)
\* A listed slot begins at the first instant at which the clock shows one of
\* the cursors of a rule.
LEMMA ListedStarts ==
  ASSUME NEW tz, NEW org, NEW grid, NEW taken, NEW closed, NEW from, NEW to, NEW now,
         NEW slot \in AvailableSlots(tz, org, grid, taken, closed, from .. to, now)
  PROVE  \E rule \in grid : \E d \in from .. to, m \in Cursors(rule, org.duration) :
           /\ d % Week = rule.dow
           /\ \E t \in LocalToUtcOrNone(tz, [wall |-> d * Day + m * Minute, fold |-> 0]) :
                slot = SlotAt(t, org.duration)
<1> DEFINE D == org.duration
<1>1. PICK t \in GridStarts(tz, D, grid, from .. to) : slot = SlotAt(t, D)
  BY DEF AvailableSlots
<1>2. PICK rule \in grid : \E d \in {x \in from .. to : x % Week = rule.dow}, m \in Cursors(rule, D) :
        t \in LocalToUtcOrNone(tz, [wall |-> d * Day + m * Minute, fold |-> 0])
  BY <1>1 DEF GridStarts
<1> QED BY <1>1, <1>2

\* Where the first instant with a reading is.
LEMMA FirstInstant ==
  ASSUME NEW tz \in Zones, NEW w \in Int, NEW t,
         t \in LocalToUtcOrNone(tz, [wall |-> w, fold |-> 0])
  PROVE  t \in Int /\ WallAt(tz, t) = w /\ ToLocal(tz, t).fold = 0
<1>1. t \in Int /\ WallAt(tz, t) = w /\ \A s \in Int : WallAt(tz, s) = w => t <= s
  BY LocalToUtcIsTheFirst
<1>2. tz.change \in Int /\ tz.before \in Int /\ tz.after \in Int
  BY DEF Zones
<1>3. ASSUME ToLocal(tz, t).fold # 0 PROVE FALSE
  <2>1. t >= tz.change /\ t < tz.change + tz.before - tz.after
    BY <1>3 DEF ToLocal
  <2>2. (t + tz.after) - tz.before \in Int /\ (t + tz.after) - tz.before < tz.change
        /\ (t + tz.after) - tz.before < t
    BY <1>1, <1>2, <2>1
  <2>3. WallAt(tz, (t + tz.after) - tz.before) = t + tz.after /\ w = t + tz.after
    BY <1>1, <1>2, <2>1, <2>2 DEF WallAt, ToLocal, UtcOffset
  <2> QED BY <1>1, <2>2, <2>3
<1> QED BY <1>1, <1>3

\* A slot in which the clock is not changed, from a start that reads a whole
\* minute: its end reads as many minutes later, if it is on the same date.
LEMMA SlotOnClock ==
  ASSUME NEW tz \in Zones, NEW t \in Int, NEW D \in Nat \ {0},
         KeepsOffset(tz, SlotAt(t, D)), WallAt(tz, t) % Minute = 0,
         NEW d, d = LocalDate(ToLocal(tz, t)), NEW m, m = MinuteOfDay(ToLocal(tz, t)),
         NEW till, till = ToLocal(tz, SlotAt(t, D).end)
  PROVE  /\ d \in Int /\ m \in Nat /\ WallAt(tz, t) = d * Day + m * Minute
         /\ (m + D) * Minute = m * Minute + D * Minute
         /\ (m + D) * Minute < Day => LocalDate(till) = d
         /\ LocalDate(till) = d => (m + D) * Minute < Day /\ MinuteOfDay(till) = m + D
<1> DEFINE w == WallAt(tz, t)  v == WallAt(tz, SlotAt(t, D).end)  n == m + D
           i == d * Day  x == m * Minute  y == D * Minute  z == n * Minute  u == v % Day
<1>1. Day \in Nat \ {0} /\ Minute \in Nat \ {0} BY CalendarAssumption
<1>2. w \in Int /\ v \in Int /\ v = w + y /\ y \in Nat
  BY Readings, ReadingOfEnd
<1>3. /\ d = w \div Day /\ m = (w % Day) \div Minute
      /\ LocalDate(till) = v \div Day /\ MinuteOfDay(till) = (v % Day) \div Minute
  BY DEF LocalDate, MinuteOfDay, WallAt
<1>4. d \in Int /\ m \in Nat /\ w = i + x
  BY <1>2, <1>3, WallOnMinute
<1>5. n \in Nat /\ i \in Int /\ x \in Nat /\ z = x + y /\ z \in Nat
  BY <1>1, <1>2, <1>4, Products, SMT
<1>6. v = i + z BY <1>2, <1>4, <1>5
<1>7. v = (v \div Day) * Day + u /\ u \in Nat /\ u < Day
  BY <1>1, <1>2, Multiples
<1>8. z < Day => v \div Day = d /\ u = z /\ (v % Day) \div Minute = n
  <2> SUFFICES ASSUME z < Day PROVE v \div Day = d /\ u = z /\ (v % Day) \div Minute = n
    OBVIOUS
  <2>1. v = d * Day + n * Minute /\ n * Minute \in Nat /\ n * Minute < Day
    BY <1>5, <1>6
  <2> HIDE DEF v, n
  <2>2. v \div Day = d /\ (v % Day) \div Minute = n
    BY <1>4, <1>5, <2>1, WallOfSlot
  <2>3. v = i + u BY <1>7, <2>2
  <2> HIDE DEF i, z, u
  <2> QED BY <1>4, <1>5, <1>6, <1>7, <2>2, <2>3
<1>9. v \div Day = d => z < Day
  <2> SUFFICES ASSUME v \div Day = d PROVE z < Day
    OBVIOUS
  <2>1. v = i + u BY <1>7
  <2> HIDE DEF i, z, u, v
  <2> QED BY <1>1, <1>5, <1>6, <1>7, <2>1
<1> HIDE DEF u, v, w
<1> QED BY <1>3, <1>4, <1>5, <1>8, <1>9 DEF w, i, x, y, z, n

\* The slots of a rule: d is the date, m the minute of the start.
InRule(rule, duration, d, m) ==
  /\ rule.dow = d % Week
  /\ m - rule.start \div Minute >= 0
  /\ (m - rule.start \div Minute) % duration = 0
  /\ m + duration <= rule.end \div Minute

LEMMA InRuleFits ==
  ASSUME NEW rule \in Rules, NEW D \in Nat \ {0}, NEW d \in Int, NEW m \in Nat,
         m + D <= rule.end \div Minute
  PROVE  (m + D) * Minute < Day
<1>1. rule.end \in Nat /\ rule.end < Day BY CalendarAssumption DEF Rules
<1>2. rule.end \div Minute \in Nat /\ (rule.end \div Minute) * Minute <= rule.end
  BY <1>1, WholeMinutes
<1>3. (m + D) * Minute <= (rule.end \div Minute) * Minute /\ (m + D) * Minute \in Int
      /\ (rule.end \div Minute) * Minute \in Int
  BY <1>2, CalendarAssumption, Monotone
<1>4. Day \in Nat BY CalendarAssumption
<1> QED BY <1>1, <1>2, <1>3, <1>4

\* Which slots the check accepts, of those that keep their offset and start on
\* a whole minute: those that lie in a rule of the grid, a multiple of their
\* length after its start.
LEMMA AcceptedInRule ==
  ASSUME NEW tz \in Zones, NEW t \in Int, NEW D \in Nat \ {0}, NEW grid \in SUBSET Rules,
         KeepsOffset(tz, SlotAt(t, D)), WallAt(tz, t) % Minute = 0
  PROVE  OnGrid(tz, D, grid, SlotAt(t, D))
           <=> \E rule \in grid : InRule(rule, D, LocalDate(ToLocal(tz, t)), MinuteOfDay(ToLocal(tz, t)))
<1> DEFINE from == ToLocal(tz, t)  till == ToLocal(tz, SlotAt(t, D).end)
           d == LocalDate(from)  m == MinuteOfDay(from)
<1>1. /\ d \in Int /\ m \in Nat
      /\ (m + D) * Minute < Day => LocalDate(till) = d
      /\ LocalDate(till) = d => MinuteOfDay(till) = m + D
  BY SlotOnClock
<1>2. LocalToUtcOrNone(tz, from) = {t} /\ SlotAt(t, D).start = t
  BY EveryInstantHasALocalTime DEF SlotAt
<1>3. \A rule \in grid : m + D <= rule.end \div Minute => LocalDate(till) = d
  BY <1>1, InRuleFits
<1>4. OnGrid(tz, D, grid, SlotAt(t, D))
        <=> /\ LocalDate(till) = d
            /\ \E rule \in grid : /\ rule.dow = d % Week
                                  /\ m - rule.start \div Minute >= 0
                                  /\ (m - rule.start \div Minute) % D = 0
                                  /\ MinuteOfDay(till) <= rule.end \div Minute
  BY <1>2 DEF OnGrid, Weekday
<1> HIDE DEF d, m, till
<1>5. OnGrid(tz, D, grid, SlotAt(t, D)) <=> \E rule \in grid : InRule(rule, D, d, m)
  BY <1>1, <1>3, <1>4 DEF InRule
<1> QED BY <1>5 DEF d, m

\* The cursors are the minutes at which slots of a rule start.
LEMMA CursorsInRule ==
  ASSUME NEW rule \in Rules, NEW D \in Nat \ {0}, NEW d \in Int, d % Week = rule.dow, NEW m \in Int
  PROVE  m \in Cursors(rule, D) <=> InRule(rule, D, d, m)
<1>1. rule.start \div Minute \in Nat /\ rule.end \div Minute \in Nat
  BY CalendarAssumption, WholeMinutes DEF Rules
<1> QED BY <1>1 DEF Cursors, InRule

\* What is known of a listed slot, in every zone.
LEMMA ListedInRule ==
  ASSUME NEW tz \in Zones, NEW org \in Settings, NEW grid \in SUBSET Rules,
         NEW taken, NEW closed, NEW from \in Int, NEW to \in Int,
         NEW now, NEW slot \in AvailableSlots(tz, org, grid, taken, closed, from .. to, now)
  PROVE  \E t \in Int, rule \in grid, d \in Int, m \in Nat :
           /\ slot = SlotAt(t, org.duration) /\ ToLocal(tz, t).fold = 0
           /\ WallAt(tz, t) = d * Day + m * Minute
           /\ WallAt(tz, t) % Minute = 0
           /\ LocalDate(ToLocal(tz, t)) = d /\ MinuteOfDay(ToLocal(tz, t)) = m
           /\ InRule(rule, org.duration, d, m)
<1> DEFINE D == org.duration
<1>1. PICK rule \in grid : \E d \in from .. to, m \in Cursors(rule, D) :
        /\ d % Week = rule.dow
        /\ \E t \in LocalToUtcOrNone(tz, [wall |-> d * Day + m * Minute, fold |-> 0]) :
             slot = SlotAt(t, D)
  BY ListedStarts
<1>2. PICK d \in from .. to, m \in Cursors(rule, D) :
        /\ d % Week = rule.dow
        /\ \E t \in LocalToUtcOrNone(tz, [wall |-> d * Day + m * Minute, fold |-> 0]) :
             slot = SlotAt(t, D)
  BY <1>1
<1>3. D \in Nat \ {0} /\ d \in Int /\ Day \in Nat \ {0} /\ Minute \in Nat \ {0}
  BY CalendarAssumption DEF Settings
<1>4. /\ m \in Nat /\ m * Minute \in Nat /\ D * Minute \in Nat
      /\ m * Minute + D * Minute < Day
  BY <1>3, CursorBounds
<1> DEFINE w == d * Day + m * Minute
<1>5. w \in Int /\ w \div Day = d /\ (w % Day) \div Minute = m
  <2>1. m * Minute < Day BY <1>3, <1>4
  <2> QED BY <1>3, <1>4, <2>1, WallOfSlot
<1>6. w % Minute = 0
  <2> DEFINE k == Day \div Minute  q == d * k + m
  <2>1. k \in Int /\ Day = k * Minute BY <1>3, CalendarAssumption, Multiples
  <2> HIDE DEF k
  <2>2. d * k \in Int /\ d * Day = (d * k) * Minute /\ q \in Int /\ q * Minute = (d * k) * Minute + m * Minute
    BY <1>3, <1>4, <2>1, Products
  <2> HIDE DEF q
  <2>3. w = q * Minute BY <2>2
  <2> HIDE DEF w
  <2> QED BY <1>3, <2>2, <2>3, Multiples
<1> HIDE DEF w
<1>7. PICK t \in LocalToUtcOrNone(tz, [wall |-> w, fold |-> 0]) : slot = SlotAt(t, D)
  BY <1>2 DEF w
<1>8. t \in Int /\ WallAt(tz, t) = w /\ ToLocal(tz, t).fold = 0
  BY <1>5, <1>7, FirstInstant
<1>9. LocalDate(ToLocal(tz, t)) = d /\ MinuteOfDay(ToLocal(tz, t)) = m
  BY <1>5, <1>8 DEF LocalDate, MinuteOfDay, WallAt
<1>10. InRule(rule, D, d, m) BY <1>2, <1>3, <1>4, CursorsInRule
<1> QED BY <1>3, <1>4, <1>6, <1>7, <1>8, <1>9, <1>10 DEF w

\* Every listed slot passes the check of the grid it was computed from, in
\* every zone, unless the clock is changed while the slot lasts.
THEOREM ListedIsAccepted ==
  ASSUME NEW tz \in Zones, NEW org \in Settings, NEW grid \in SUBSET Rules,
         NEW taken, NEW closed, NEW from \in Int, NEW to \in Int,
         NEW now, NEW slot \in AvailableSlots(tz, org, grid, taken, closed, from .. to, now),
         KeepsOffset(tz, slot)
  PROVE  OnGrid(tz, org.duration, grid, slot)
<1>1. PICK t \in Int, rule \in grid, d \in Int, m \in Nat :
        /\ slot = SlotAt(t, org.duration) /\ WallAt(tz, t) % Minute = 0
        /\ LocalDate(ToLocal(tz, t)) = d /\ MinuteOfDay(ToLocal(tz, t)) = m
        /\ InRule(rule, org.duration, d, m)
  BY ListedInRule
<1>2. org.duration \in Nat \ {0} BY DEF Settings
<1> QED BY <1>1, <1>2, AcceptedInRule

\* No slot is listed on the second pass through a repeated hour, in which it
\* can be booked as well as on the first.
THEOREM ListedOnFirstPass ==
  ASSUME NEW tz \in Zones, NEW org \in Settings, NEW grid \in SUBSET Rules,
         NEW taken, NEW closed, NEW from \in Int, NEW to \in Int,
         NEW now, NEW slot \in AvailableSlots(tz, org, grid, taken, closed, from .. to, now)
  PROVE  ToLocal(tz, slot.start).fold = 0
BY ListedInRule DEF SlotAt

\* Every start that passes the check of a grid, on a whole minute of one of
\* the dates, is listed, unless the time of day or what is taken forbids it,
\* the clock is changed while the slot lasts, or it shows the time of the
\* start a second time.
THEOREM AcceptedIsListed ==
  ASSUME NEW tz \in Zones, NEW org \in Settings, NEW grid \in SUBSET Rules,
         NEW taken, NEW closed, NEW from \in Int, NEW to \in Int, NEW now,
         NEW t \in Int, t % Minute = 0, UtcOffset(tz, t) % Minute = 0,
         KeepsOffset(tz, SlotAt(t, org.duration)), ToLocal(tz, t).fold = 0,
         t >= now + org.lead * Minute,
         LocalDate(ToLocal(tz, t)) \in from .. to,
         OnGrid(tz, org.duration, grid, SlotAt(t, org.duration)),
         ~ OverlapsAny(SlotAt(t, org.duration), taken),
         ~ OverlapsAny(SlotAt(t, org.duration), closed)
  PROVE  SlotAt(t, org.duration) \in AvailableSlots(tz, org, grid, taken, closed, from .. to, now)
<1> DEFINE D == org.duration
           d == LocalDate(ToLocal(tz, t))
           m == MinuteOfDay(ToLocal(tz, t))
<1>1. D \in Nat \ {0} BY DEF Settings
<1>2. WallAt(tz, t) % Minute = 0
  BY Readings, SumOfMinutes
<1>3. d \in Int /\ m \in Nat /\ WallAt(tz, t) = d * Day + m * Minute
  BY <1>1, <1>2, SlotOnClock
<1>4. PICK rule \in grid : InRule(rule, D, d, m)
  BY <1>1, <1>2, AcceptedInRule
<1>5. rule.dow = d % Week BY <1>4 DEF InRule
<1>6. t \in LocalToUtcOrNone(tz, [wall |-> d * Day + m * Minute, fold |-> 0])
  BY <1>3, EveryInstantHasALocalTime, Readings
<1> HIDE DEF d, m
<1>7. m \in Cursors(rule, D) BY <1>1, <1>3, <1>4, <1>5, CursorsInRule
<1>8. t \in GridStarts(tz, D, grid, from .. to)
  BY <1>5, <1>6, <1>7 DEF GridStarts, d
<1> QED BY <1>8 DEF AvailableSlots, SlotAt

-----------------------------------------------------------------------------
(***************************************************************************)
(* Opening hours that no clock change meets.                               *)
(***************************************************************************)
\* What the clock shows before and after it is changed, the earlier first.
Lowest(tz) == tz.change + IF tz.before < tz.after THEN tz.before ELSE tz.after
Highest(tz) == tz.change + IF tz.before < tz.after THEN tz.after ELSE tz.before

\* On every date of the rule, its last minute has passed before the readings
\* that the change skips or repeats, or its first comes after them.
ClosedAtChange(tz, rule) ==
  \/ tz.before = tz.after
  \/ \A d \in Int : d % Week = rule.dow =>
       \/ d * Day + ((rule.end \div Minute) * Minute + Minute) <= Lowest(tz)
       \/ d * Day + (rule.start \div Minute) * Minute >= Highest(tz)

\* A slot in which the clock is changed starts before the highest of those
\* readings and ends after the lowest.
LEMMA SlotOverChange ==
  ASSUME NEW tz \in Zones, NEW t \in Int, NEW D \in Nat \ {0},
         ~ KeepsOffset(tz, SlotAt(t, D))
  PROVE  /\ tz.before # tz.after
         /\ t < tz.change /\ t + D * Minute \in Int /\ t + D * Minute >= tz.change
         /\ WallAt(tz, t) < Highest(tz)
         /\ WallAt(tz, SlotAt(t, D).end) >= Lowest(tz)
<1>1. tz.change \in Int /\ tz.before \in Int /\ tz.after \in Int
  BY DEF Zones
<1>2. D * Minute \in Nat /\ D * Minute > 0 BY CalendarAssumption, SMT
<1> DEFINE k == D * Minute
<1> HIDE DEF k
<1>3. UtcOffset(tz, t) # UtcOffset(tz, t + k) BY DEF KeepsOffset, SlotAt, k
<1>4. k \in Nat /\ k > 0 BY <1>2 DEF k
<1>5. /\ tz.before # tz.after /\ t < tz.change /\ t + k >= tz.change /\ t + k \in Int
  BY <1>1, <1>3, <1>4 DEF UtcOffset
<1>6. WallAt(tz, t) < Highest(tz) /\ WallAt(tz, t + k) >= Lowest(tz)
  BY <1>1, <1>4, <1>5 DEF WallAt, ToLocal, UtcOffset, Highest, Lowest
<1> QED BY <1>5, <1>6 DEF k, SlotAt

\* The check accepts no slot in which the clock is changed, and none on the
\* second pass through an hour, if its rules are closed then.
LEMMA AcceptedWhenClosed ==
  ASSUME NEW tz \in Zones, NEW t \in Int, NEW D \in Nat \ {0}, NEW grid \in SUBSET Rules,
         \A rule \in grid : ClosedAtChange(tz, rule),
         OnGrid(tz, D, grid, SlotAt(t, D))
  PROVE  KeepsOffset(tz, SlotAt(t, D)) /\ ToLocal(tz, t).fold = 0
<1> DEFINE from == ToLocal(tz, t)  till == ToLocal(tz, SlotAt(t, D).end)
           w == WallAt(tz, t)  v == WallAt(tz, SlotAt(t, D).end)
           d == LocalDate(from)
<1>1. PICK rule \in grid : /\ rule.dow = d % Week
                           /\ MinuteOfDay(from) >= rule.start \div Minute
                           /\ MinuteOfDay(till) <= rule.end \div Minute
                           /\ LocalDate(till) = d
  <2>1. PICK rule \in grid : /\ rule.dow = d % Week
                             /\ MinuteOfDay(from) - rule.start \div Minute >= 0
                             /\ MinuteOfDay(till) <= rule.end \div Minute
                             /\ LocalDate(till) = d
    BY DEF OnGrid, Weekday, SlotAt
  <2>2. MinuteOfDay(from) \in Int /\ rule.start \div Minute \in Int
    <3>1. w \in Int BY Readings
    <3>2. rule.start \in Nat BY CalendarAssumption DEF Rules
    <3>3. w % Day \in Nat BY <3>1, CalendarAssumption, Multiples
    <3> QED BY <3>2, <3>3, WholeMinutes DEF MinuteOfDay, WallAt
  <2> QED BY <2>1, <2>2
<1>2. Day \in Nat \ {0} /\ Minute \in Nat \ {0} BY CalendarAssumption
<1>3. D * Minute \in Nat /\ t + D * Minute \in Int BY <1>2, SMT
<1>4. w \in Int /\ v \in Int BY <1>3, Readings DEF SlotAt
<1> DEFINE us == rule.start \div Minute  ue == rule.end \div Minute
           opens == d * Day + us * Minute
           ends == d * Day + (ue * Minute + Minute)
<1>5. us \in Nat /\ ue \in Nat /\ rule.dow \in Int
  BY CalendarAssumption, WholeMinutes DEF Rules
\* The start is not before the rule opens, the end in its last minute or earlier.
<1>6. d \in Int /\ opens \in Int /\ ends \in Int /\ opens <= w /\ v < ends
  <2> DEFINE p == w % Day  q == v % Day  i == p \div Minute  j == q \div Minute
             k == d * Day  a == us * Minute  b == ue * Minute  x == i * Minute  y == j * Minute
  <2>1. d \in Int /\ p \in Nat /\ w = k + p /\ k \in Int
    <3>1. d = w \div Day BY DEF LocalDate, WallAt
    <3> HIDE DEF d, w
    <3>2. d \in Int /\ w = d * Day + p /\ p \in Nat
      BY <1>2, <1>4, <3>1, Multiples
    <3> QED BY <1>2, <3>2, Products
  <2>2. q \in Nat /\ v = k + q
    <3>1. d = v \div Day BY <1>1 DEF LocalDate, WallAt
    <3> HIDE DEF d, v
    <3> QED BY <1>2, <1>4, <3>1, Multiples
  <2>3. i \in Nat /\ x <= p /\ us <= i
    BY <1>1, <2>1, WholeMinutes DEF MinuteOfDay, WallAt
  <2>4. j \in Nat /\ j <= ue /\ q < y + Minute
    <3>1. j <= ue BY <1>1 DEF MinuteOfDay, WallAt
    <3> HIDE DEF q
    <3>2. q = y + (q % Minute) /\ q % Minute \in Nat /\ q % Minute < Minute /\ j \in Nat
      BY <1>2, <2>2, Multiples, WholeMinutes
    <3>3. y \in Int BY <1>2, <3>2, SMT
    <3> QED BY <1>2, <2>2, <3>1, <3>2, <3>3
  <2> HIDE DEF i, j, us, ue
  <2>5. a <= x /\ y <= b /\ a \in Int /\ x \in Int /\ y \in Int /\ b \in Int
    BY <1>2, <1>5, <2>3, <2>4, Monotone
  <2> HIDE DEF k, a, b, x, y, p, q, d, w, v
  <2>6. k + a <= w /\ v < k + (b + Minute)
    BY <1>2, <2>1, <2>2, <2>3, <2>4, <2>5
  <2> QED BY <1>2, <2>1, <2>5, <2>6 DEF k, a, b
<1>7. tz.change \in Int /\ tz.before \in Int /\ tz.after \in Int
      /\ Lowest(tz) \in Int /\ Highest(tz) \in Int
  BY DEF Zones, Lowest, Highest
<1>8. tz.before = tz.after \/ ends <= Lowest(tz) \/ opens >= Highest(tz)
  BY <1>1, <1>6 DEF ClosedAtChange
<1> HIDE DEF opens, ends, w, v
<1>9. KeepsOffset(tz, SlotAt(t, D))
  <2> SUFFICES ASSUME ~ KeepsOffset(tz, SlotAt(t, D)) PROVE FALSE
    OBVIOUS
  <2>1. tz.before # tz.after /\ w < Highest(tz) /\ v >= Lowest(tz)
    BY SlotOverChange DEF w, v
  <2> QED BY <1>4, <1>6, <1>7, <1>8, <2>1
<1>10. ToLocal(tz, t).fold = 0
  <2> SUFFICES ASSUME ToLocal(tz, t).fold # 0 PROVE FALSE
    OBVIOUS
  <2>1. /\ t >= tz.change /\ t < tz.change + tz.before - tz.after
        /\ w = t + tz.after
    BY <1>7 DEF ToLocal, UtcOffset, WallAt, w
  <2>2. w < Highest(tz) /\ w >= Lowest(tz) /\ tz.before # tz.after
    BY <1>7, <2>1 DEF Lowest, Highest
  <2>3. v = w + D * Minute /\ D * Minute > 0
    BY <1>9, ReadingOfEnd DEF v, w
  <2> DEFINE k == D * Minute
  <2>4. k \in Nat /\ v = w + k BY <1>3, <2>3
  <2> HIDE DEF k
  <2> QED BY <1>4, <1>6, <1>7, <1>8, <2>2, <2>4
<1> QED BY <1>9, <1>10

\* Nor is one listed.
LEMMA ListedWhenClosed ==
  ASSUME NEW tz \in Zones, NEW org \in Settings, NEW grid \in SUBSET Rules,
         NEW taken, NEW closed, NEW from \in Int, NEW to \in Int,
         NEW now, NEW slot \in AvailableSlots(tz, org, grid, taken, closed, from .. to, now),
         \A rule \in grid : ClosedAtChange(tz, rule)
  PROVE  KeepsOffset(tz, slot)
<1> DEFINE D == org.duration
<1>1. PICK t \in Int, rule \in grid, d \in Int, m \in Nat :
        /\ slot = SlotAt(t, D) /\ ToLocal(tz, t).fold = 0
        /\ WallAt(tz, t) = d * Day + m * Minute
        /\ InRule(rule, D, d, m)
  BY ListedInRule
<1>2. D \in Nat \ {0} /\ Day \in Nat \ {0} /\ Minute \in Nat \ {0}
  BY CalendarAssumption DEF Settings
<1>3. /\ tz.change \in Int /\ tz.before \in Int /\ tz.after \in Int
      /\ Lowest(tz) \in Int /\ Highest(tz) \in Int
  BY DEF Zones, Lowest, Highest
<1> DEFINE us == rule.start \div Minute  ue == rule.end \div Minute
           k == d * Day  a == us * Minute  b == ue * Minute  x == m * Minute  y == D * Minute
<1>4. us \in Nat /\ ue \in Nat /\ us <= m /\ m + D <= ue
  <2>1. us \in Nat /\ ue \in Nat
    BY CalendarAssumption, WholeMinutes DEF Rules
  <2> HIDE DEF D
  <2>2. m - us >= 0 /\ m + D <= ue BY <1>1 DEF InRule
  <2> HIDE DEF us, ue
  <2> QED BY <1>2, <2>1, <2>2
<1>5. /\ a <= x /\ x + y <= b /\ k \in Int /\ a \in Int /\ b \in Int /\ x \in Int
      /\ y \in Nat /\ y > 0
  <2> HIDE DEF us, ue, D
  <2>1. a <= x /\ a \in Int /\ x \in Int BY <1>2, <1>4, Monotone
  <2>2. (m + D) * Minute <= b /\ b \in Int BY <1>2, <1>4, Monotone
  <2>3. (m + D) * Minute = x + y BY <1>2, Products
  <2>4. k \in Int /\ y \in Nat /\ y > 0 BY <1>2, Products, SMT
  <2> QED BY <2>1, <2>2, <2>3, <2>4
<1>6. tz.before = tz.after \/ k + (b + Minute) <= Lowest(tz) \/ k + a >= Highest(tz)
  BY <1>1 DEF ClosedAtChange, InRule
<1>7. SUFFICES ASSUME ~ KeepsOffset(tz, slot) PROVE FALSE
  OBVIOUS
<1>8. /\ tz.before # tz.after /\ t < tz.change /\ t + y >= tz.change
      /\ WallAt(tz, t) < Highest(tz)
  BY <1>1, <1>2, <1>7, SlotOverChange
<1>9. WallAt(tz, t) = k + x /\ WallAt(tz, t) = t + tz.before
  BY <1>1, <1>8 DEF WallAt, ToLocal, UtcOffset
<1> HIDE DEF k, a, b, x, y
<1>10. k + (b + Minute) <= Lowest(tz)
  BY <1>3, <1>5, <1>6, <1>8, <1>9
<1>11. Lowest(tz) <= tz.change + tz.before BY <1>3 DEF Lowest
<1> QED BY <1>2, <1>3, <1>5, <1>8, <1>9, <1>10, <1>11
==============================================================================
