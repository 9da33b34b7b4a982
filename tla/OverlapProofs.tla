---------------------------- MODULE OverlapProofs ----------------------------
(***************************************************************************)
(* When bookings cannot overlap.  The unique index only keeps two bookings *)
(* from starting together; that they share no instant is the work of the   *)
(* grid, and holds as long as nothing disturbs its alignment.  The run     *)
(* Resize breaks the first assumption below, the run TwoGrids the second.  *)
(***************************************************************************)
EXTENDS BookingProofs, SlotProofs

\* Every duration and every rule that an administrator may bring into force.
Durations == {s.duration : s \in SettingsChoices}
AllRules == UNION GridChoices

\* The duration of slots is never changed, the rules of one grid fit with
\* those of the next, and clocks are whole minutes from UTC.
Undisturbed ==
  /\ \A d, e \in Durations : d = e
  /\ WellFormed(AllRules)
  /\ \A o \in Orgs : Zone[o].before % Minute = 0 /\ Zone[o].after % Minute = 0

-----------------------------------------------------------------------------
(***************************************************************************)
(* Slots accepted by the same rules.                                       *)
(***************************************************************************)
\* Multiples of D are the same or D apart.
LEMMA MultiplesApart ==
  ASSUME NEW D \in Nat \ {0}, NEW a \in Int, NEW b \in Int, a % D = 0, b % D = 0, a < b
  PROVE  a + D <= b
<1> DEFINE x == a \div D  y == b \div D
<1>1. x \in Int /\ a = x * D BY Multiples
<1>2. y \in Int /\ b = y * D BY Multiples
<1> HIDE DEF x, y
<1>3. x < y
  <2>1. SUFFICES ASSUME y <= x PROVE FALSE BY <1>1, <1>2
  <2>2. y * D <= x * D BY <1>1, <1>2, <2>1, Monotone
  <2> QED BY <1>1, <1>2, <2>2
<1>4. (x + 1) * D <= y * D BY <1>1, <1>2, <1>3, Monotone
<1>5. (x + 1) * D = x * D + D BY <1>1, SMT
<1> QED BY <1>1, <1>2, <1>4, <1>5

\* On the minutes of one date: two rules that do not overlap, or one rule.
LEMMA MinutesApart ==
  ASSUME NEW D \in Nat \ {0}, NEW grid \in SUBSET Rules, WellFormed(grid),
         NEW u \in grid, NEW v \in grid, u.dow = v.dow,
         NEW m \in Nat, m - u.start \div Minute >= 0, (m - u.start \div Minute) % D = 0,
         m + D <= u.end \div Minute,
         NEW n \in Nat, n - v.start \div Minute >= 0, (n - v.start \div Minute) % D = 0,
         n + D <= v.end \div Minute,
         m < n
  PROVE  m + D <= n
<1> DEFINE us == u.start \div Minute  ue == u.end \div Minute
           vs == v.start \div Minute  ve == v.end \div Minute
<1>1. /\ u.start \in Nat /\ u.end \in Nat /\ v.start \in Nat /\ v.end \in Nat
      /\ us \in Nat /\ ue \in Nat /\ vs \in Nat /\ ve \in Nat
  <2>1. u.start \in Nat /\ u.end \in Nat /\ v.start \in Nat /\ v.end \in Nat
    BY CalendarAssumption DEF Rules
  <2> QED BY <2>1, WholeMinutes
<1>2. CASE u = v
  <2> DEFINE a == m - us  b == n - us
  <2>1. a \in Int /\ b \in Int /\ a % D = 0 /\ b % D = 0 /\ a < b BY <1>1, <1>2
  <2> HIDE DEF a, b
  <2>2. a + D <= b BY <2>1, MultiplesApart
  <2> HIDE DEF us
  <2> QED BY <1>1, <2>2 DEF a, b
<1>3. CASE u # v
  <2>1. u.end <= v.start \/ v.end <= u.start
    BY <1>1, <1>3 DEF WellFormed, Overlap
  <2>2. \A x, y \in Nat : x <= y => x \div Minute <= y \div Minute
    <3> SUFFICES ASSUME NEW x \in Nat, NEW y \in Nat, x <= y, x \div Minute > y \div Minute
                 PROVE  FALSE
      BY WholeMinutes
    <3> DEFINE p == x \div Minute  q == y \div Minute
    <3>1. Minute \in Nat \ {0} BY CalendarAssumption
    <3>2. p \in Int /\ p * Minute <= x BY WholeMinutes
    <3>3. q \in Int /\ y = q * Minute + (y % Minute) /\ y % Minute \in Nat /\ y % Minute < Minute
      BY <3>1, Multiples
    <3> HIDE DEF p, q
    <3>4. (q + 1) * Minute <= p * Minute BY <3>1, <3>2, <3>3, Monotone DEF p, q
    <3>5. (q + 1) * Minute = q * Minute + Minute BY <3>1, <3>3, SMT
    <3> QED BY <3>1, <3>2, <3>3, <3>4, <3>5
  <2>3. ue <= vs \/ ve <= us BY <1>1, <2>1, <2>2
  <2> HIDE DEF us, ue, vs, ve
  <2>4. m >= us /\ m + D <= ue /\ n >= vs /\ n + D <= ve
    BY <1>1 DEF us, ue, vs, ve
  <2> QED BY <1>1, <2>3, <2>4
<1> QED BY <1>2, <1>3

\* Two slots of one length in rules of one grid, on a clock that is not changed
\* meanwhile: in readings, they are one or apart.
LEMMA ReadingsApart ==
  ASSUME NEW D \in Nat \ {0}, NEW grid \in SUBSET Rules, WellFormed(grid),
         NEW u \in grid, NEW c \in Int, NEW m \in Nat, InRule(u, D, c, m),
         NEW v \in grid, NEW d \in Int, NEW n \in Nat, InRule(v, D, d, n),
         NEW s \in Int, s = c * Day + m * Minute,
         NEW t \in Int, t = d * Day + n * Minute,
         s < t
  PROVE  s + D * Minute <= t
<1>1. /\ u.dow = c % Week
      /\ m - u.start \div Minute >= 0 /\ (m - u.start \div Minute) % D = 0
      /\ m + D <= u.end \div Minute
  BY DEF InRule
<1>2. /\ v.dow = d % Week
      /\ n - v.start \div Minute >= 0 /\ (n - v.start \div Minute) % D = 0
      /\ n + D <= v.end \div Minute
  BY DEF InRule
<1>3. Day \in Nat \ {0} /\ Minute \in Nat \ {0}
  BY CalendarAssumption
\* Both slots end within their dates.
<1>4. (m + D) * Minute < Day /\ (n + D) * Minute < Day
  BY <1>1, <1>2, InRuleFits
<1> DEFINE cd == c * Day  dd == d * Day  mm == m * Minute  nm == n * Minute
           Dm == D * Minute
<1>5. /\ cd \in Int /\ dd \in Int /\ mm \in Nat /\ nm \in Nat /\ Dm \in Nat
      /\ (m + D) * Minute = mm + Dm /\ (n + D) * Minute = nm + Dm
      /\ s = cd + mm /\ t = dd + nm
  <2>1. cd \in Int /\ dd \in Int BY <1>3, Products
  <2>2. mm \in Nat /\ nm \in Nat /\ Dm \in Nat BY <1>3, SMT
  <2>3. (m + D) * Minute = mm + Dm /\ (n + D) * Minute = nm + Dm
    BY <1>3, Products
  <2> QED BY <2>1, <2>2, <2>3
<1>6. mm + Dm < Day /\ nm + Dm < Day BY <1>4, <1>5
<1>7. CASE c = d
  <2>1. m < n
    <3>1. mm < nm
      <4>1. cd = dd BY <1>7
      <4> HIDE DEF cd, dd, mm, nm, Dm
      <4> QED BY <1>5, <4>1
    <3>2. SUFFICES ASSUME n <= m PROVE FALSE OBVIOUS
    <3>3. nm <= mm BY <1>3, <3>2, Monotone
    <3> HIDE DEF mm, nm
    <3> QED BY <1>5, <3>1, <3>3
  <2>2. u.dow = v.dow BY <1>1, <1>2, <1>7
  <2>3. m + D <= n BY <1>1, <1>2, <2>1, <2>2, MinutesApart
  <2>4. (m + D) * Minute <= nm BY <1>3, <2>3, Monotone
  <2>5. cd = dd BY <1>7
  <2> HIDE DEF cd, dd, mm, nm, Dm
  <2>6. s + Dm <= t BY <1>5, <2>4, <2>5
  <2> QED BY <2>6 DEF Dm
<1>8. CASE c < d
  <2>1. (c + 1) * Day <= dd /\ (c + 1) * Day = cd + Day
    BY <1>3, <1>8, Monotone, Products
  <2> HIDE DEF cd, dd, mm, nm, Dm
  <2>2. s + Dm <= t BY <1>3, <1>5, <1>6, <2>1
  <2> QED BY <2>2 DEF Dm
<1>9. CASE d < c
  <2>1. (d + 1) * Day <= cd /\ (d + 1) * Day = dd + Day
    BY <1>3, <1>9, Monotone, Products
  <2> HIDE DEF cd, dd, mm, nm, Dm
  <2> QED BY <1>3, <1>5, <1>6, <2>1
<1> QED BY <1>7, <1>8, <1>9

\* Two slots of one length that the same rules accept are one or apart, if the
\* clock is not changed within either: it may be changed between them.
LEMMA SlotsApart ==
  ASSUME NEW tz \in Zones, NEW D \in Nat \ {0}, NEW grid \in SUBSET Rules, WellFormed(grid),
         NEW s \in Int, WallAt(tz, s) % Minute = 0, KeepsOffset(tz, SlotAt(s, D)),
         OnGrid(tz, D, grid, SlotAt(s, D)),
         NEW t \in Int, WallAt(tz, t) % Minute = 0, KeepsOffset(tz, SlotAt(t, D)),
         OnGrid(tz, D, grid, SlotAt(t, D)),
         s < t
  PROVE  s + D * Minute <= t
<1> DEFINE c == LocalDate(ToLocal(tz, s))  m == MinuteOfDay(ToLocal(tz, s))
           d == LocalDate(ToLocal(tz, t))  n == MinuteOfDay(ToLocal(tz, t))
           k == D * Minute
<1>1. c \in Int /\ m \in Nat /\ WallAt(tz, s) = c * Day + m * Minute
  BY SlotOnClock
<1>2. d \in Int /\ n \in Nat /\ WallAt(tz, t) = d * Day + n * Minute
  BY SlotOnClock
<1>3. PICK u \in grid : InRule(u, D, c, m) BY AcceptedInRule
<1>4. PICK v \in grid : InRule(v, D, d, n) BY AcceptedInRule
<1>5. /\ k \in Nat /\ k > 0 /\ tz.change \in Int
      /\ UtcOffset(tz, s) \in Int /\ UtcOffset(tz, t) \in Int
      /\ WallAt(tz, s) = s + UtcOffset(tz, s) /\ WallAt(tz, t) = t + UtcOffset(tz, t)
      /\ WallAt(tz, s) \in Int /\ WallAt(tz, t) \in Int
  BY Readings, ReadingOfEnd
<1> HIDE DEF c, d, m, n, k
<1>6. CASE UtcOffset(tz, s) = UtcOffset(tz, t)
  <2>1. WallAt(tz, s) < WallAt(tz, t) BY <1>5, <1>6
  <2>2. WallAt(tz, s) + D * Minute <= WallAt(tz, t)
    BY <1>1, <1>2, <1>3, <1>4, <1>5, <2>1, ReadingsApart
  <2>3. WallAt(tz, s) + k <= WallAt(tz, t) BY <2>2 DEF k
  <2>4. s + k <= t BY <1>5, <1>6, <2>3
  <2> QED BY <2>4 DEF k
\* The first slot has ended when the clock is changed.
<1>7. CASE UtcOffset(tz, s) # UtcOffset(tz, t)
  <2>1. UtcOffset(tz, s + k) = UtcOffset(tz, s) BY DEF KeepsOffset, SlotAt, k
  <2>2. s + k <= t BY <1>5, <1>7, <2>1 DEF UtcOffset
  <2> QED BY <2>2 DEF k
<1> QED BY <1>6, <1>7

-----------------------------------------------------------------------------
(***************************************************************************)
(* Every booking was accepted by rules that some grid contains, in slots   *)
(* of a duration that administrators use.                                  *)
(***************************************************************************)
ConfigFits ==
  \A o \in Orgs : settings[o].duration \in Durations /\ rules[o] \subseteq AllRules

Fits(org, start, duration) ==
  duration \in Durations /\ OnGrid(Zone[org], duration, AllRules, SlotAt(start, duration))

RequestsFit ==
  \A r \in Requests : Op(r) # "cancel" =>
    /\ pc[r] = "grid" => local[r].duration \in Durations
    /\ pc[r] \in {"exceptions", "update", "insert", "commit"}
         => Fits(OrgFor(r), call[r].start, local[r].duration)

RowsFit ==
  \A b \in Requests : bookings[b] # Null =>
    \E d \in Durations : /\ Fits(bookings[b].org, bookings[b].start, d)
                         /\ bookings[b].end = bookings[b].start + d * Minute

FitInv == ConfigFits /\ RequestsFit /\ RowsFit

LEMMA ConfigFitsInit == Init => ConfigFits
<1> SUFFICES ASSUME Init, NEW o \in Orgs
             PROVE  settings[o].duration \in Durations /\ rules[o] \subseteq AllRules
  BY DEF ConfigFits
<1>1. settings[o] \in SettingsChoices /\ rules[o] \in GridChoices
  BY DEF Init, ConfigInit
<1> QED BY <1>1 DEF Durations, AllRules

LEMMA ConfigFitsNext == Inv /\ ConfigFits /\ [Next]_vars => ConfigFits'
<1> SUFFICES ASSUME Inv, ConfigFits, [Next]_vars PROVE ConfigFits'
  OBVIOUS
<1>1. ASSUME Administer PROVE ConfigFits'
  <2>1. Configure BY <1>1 DEF Administer
  <2>2. PICK o \in Orgs : \/ UpdateOrg(o) \/ ReplaceGrid(o) \/ UNCHANGED <<settings, rules>>
    BY <2>1 DEF Configure, CreateException, DeleteException, UpdateException
  <2>3. CASE UpdateOrg(o)
    <3>1. PICK row \in Patched(o) : settings' = [settings EXCEPT ![o] = row]
      BY <2>3 DEF UpdateOrg
    <3>2. \/ row.duration = settings[o].duration
          \/ \E new \in SettingsChoices : row.duration = new.duration
      BY <3>1 DEF Patched
    <3>3. row.duration \in Durations
      BY <3>2 DEF Durations, ConfigFits
    <3>4. \A p \in Orgs : p # o => settings'[p] = settings[p]
      BY <3>1 DEF Inv, TypeOK, ConfigTypeOK
    <3>5. settings'[o] = row BY <3>1 DEF Inv, TypeOK, ConfigTypeOK
    <3>6. UNCHANGED rules BY <2>3 DEF UpdateOrg
    <3> QED BY <3>3, <3>4, <3>5, <3>6 DEF ConfigFits
  <2>4. CASE ReplaceGrid(o)
    <3>1. PICK grid \in Replaced(o) : rules' = [rules EXCEPT ![o] = grid]
      BY <2>4 DEF ReplaceGrid
    <3>2. PICK new \in GridChoices, kept \in Leftovers(o) : grid = kept \cup new
      BY <3>1 DEF Replaced
    <3>3. new \subseteq AllRules /\ kept \subseteq AllRules
      BY <3>2 DEF Leftovers, AllRules
    <3>4. rules'[o] = grid /\ \A p \in Orgs : p # o => rules'[p] = rules[p]
      BY <3>1 DEF Inv, TypeOK, ConfigTypeOK
    <3>5. UNCHANGED settings BY <2>4 DEF ReplaceGrid
    <3> QED BY <3>2, <3>3, <3>4, <3>5 DEF ConfigFits
  <2>5. CASE UNCHANGED <<settings, rules>> BY <2>5 DEF ConfigFits
  <2> QED BY <2>2, <2>3, <2>4, <2>5
<1>2. CASE UNCHANGED <<settings, rules>> BY <1>2 DEF ConfigFits
<1> QED BY <1>1, <1>2, NextCases, ArriveFrame, HandleFrame DEF Tick, config, vars

\* A check that passes with the rules of the moment passes with all of them.
LEMMA MoreRules ==
  ASSUME NEW tz, NEW D, NEW grid, NEW more, grid \subseteq more, NEW slot,
         OnGrid(tz, D, grid, slot)
  PROVE  OnGrid(tz, D, more, slot)
BY DEF OnGrid

LEMMA RequestsFitNext == Inv /\ ConfigFits /\ RequestsFit /\ [Next]_vars => RequestsFit'
<1> SUFFICES ASSUME Inv, ConfigFits, RequestsFit, [Next]_vars PROVE RequestsFit'
  OBVIOUS
<1> USE DEF RequestsFit
<1>1. ASSUME NEW r \in Requests, Arrive(r) PROVE RequestsFit'
  <2>1. PICK c \in CallType :
           /\ call' = [call EXCEPT ![r] = c]
           /\ local' = [local EXCEPT ![r].owner = c.actor]
           /\ Goto(r, "window") \/ Goto(r, "read") \/ Goto(r, "forbidden")
    BY <1>1, ArriveFrame
  <2>2. pc'[r] \in {"window", "read", "forbidden"}
        /\ \A s \in Requests : s # r =>
             pc'[s] = pc[s] /\ call'[s] = call[s] /\ local'[s] = local[s]
    BY <2>1 DEF Goto, Inv, TypeOK
  <2> QED BY <2>2 DEF Op, OrgFor
<1>2. ASSUME NEW r \in Requests, Handle(r) \/ Fail(r) PROVE RequestsFit'
  <2>1. PICK step \in Steps \cup Answers : pc' = [pc EXCEPT ![r] = step]
    BY <1>2, HandleFrame
  <2>2. UNCHANGED call
    BY <1>2, HandleFrame
  <2>3. ASSUME NEW s \in Requests, s # r
        PROVE  local'[s] = local[s] /\ pc'[s] = pc[s]
    BY <1>2, <2>1, <2>3, LocalOthers DEF Inv, TypeOK
  <2>4. pc'[r] = step /\ pc[r] \in Steps /\ call[r] \in CallType
    BY <1>2, <2>1, HandleFrame DEF Inv, TypeOK, CallOK, Steps
  <2>5. Op(r) # "cancel" =>
          /\ step = "grid" => local'[r].duration \in Durations
          /\ step \in {"exceptions", "update", "insert", "commit"}
               => Fits(OrgFor(r), call[r].start, local'[r].duration)
    <3>1. CASE ReadBooking(r)
      BY <2>4, <3>1 DEF ReadBooking, Goto, Inv, TypeOK
    <3>2. CASE ReadOrg(r)
      <4>1. settings[OrgFor(r)].duration \in Durations
        BY <2>4, CallFacts DEF ConfigFits
      <4>2. local'[r].duration = settings[OrgFor(r)].duration
            /\ step \in {"grid", "invalid"}
        BY <2>4, <3>2 DEF ReadOrg, Goto, Inv, TypeOK
      <4> QED BY <4>1, <4>2
    <3>3. CASE CheckGrid(r)
      <4>1. local'[r] = local[r] /\ pc[r] = "grid" BY <3>3 DEF CheckGrid
      <4>2. CASE step = "exceptions"
        <5>1. OnGrid(Zone[OrgFor(r)], local[r].duration, rules[OrgFor(r)], Slot(r))
          BY <2>4, <3>3, <4>2 DEF CheckGrid, Goto, Inv, TypeOK
        <5>2. rules[OrgFor(r)] \subseteq AllRules
          BY <2>4, CallFacts DEF ConfigFits
        <5>3. OnGrid(Zone[OrgFor(r)], local[r].duration, AllRules, Slot(r))
          BY <5>1, <5>2, MoreRules
        <5> QED BY <4>1, <4>2, <5>3 DEF Fits, Slot
      <4>3. CASE step # "exceptions"
        BY <2>4, <3>3, <4>3 DEF CheckGrid, Goto, Inv, TypeOK
      <4> QED BY <4>2, <4>3
    <3>4. CASE CheckExceptions(r)
      <4>1. local'[r].duration = local[r].duration /\ pc[r] = "exceptions" /\ step # "grid"
        BY <2>4, <3>4 DEF CheckExceptions, Goto, Inv, TypeOK
      <4> QED BY <4>1
    <3>5. CASE FlushCancel(r) BY <2>4, <3>5 DEF FlushCancel, Goto, Inv, TypeOK
    <3>6. CASE FlushInsert(r) BY <2>4, <3>6 DEF FlushInsert, Goto, Inv, TypeOK
    <3>7. CASE Commit(r) BY <2>4, <3>7 DEF Commit, Goto, Inv, TypeOK
    <3>8. CASE Respond(r) BY <2>4, <3>8 DEF Respond, Goto, Inv, TypeOK
    <3>9. CASE DeadlockVictim(r) BY <2>4, <3>9 DEF DeadlockVictim, Goto, Inv, TypeOK
    <3>10. CASE Fail(r) BY <2>4, <3>10 DEF Fail, Goto, Inv, TypeOK
    <3> QED BY <1>2, <3>1, <3>2, <3>3, <3>4, <3>5, <3>6, <3>7, <3>8, <3>9, <3>10 DEF Handle
  <2> QED BY <2>2, <2>3, <2>4, <2>5 DEF Op, OrgFor
<1>3. CASE UNCHANGED <<pc, call, local>>
  BY <1>3 DEF Op, OrgFor
<1> QED BY <1>1, <1>2, <1>3, NextCases, AdministerFrame DEF Tick, vars

LEMMA RowsFitNext == Inv /\ RequestsFit /\ RowsFit /\ [Next]_vars => RowsFit'
<1> SUFFICES ASSUME Inv, RequestsFit, RowsFit, [Next]_vars PROVE RowsFit'
  OBVIOUS
<1> USE DEF RowsFit
<1>1. ASSUME NEW r \in Requests, Commit(r), NEW b \in Requests, bookings'[b] # Null
      PROVE  \E d \in Durations : /\ Fits(bookings'[b].org, bookings'[b].start, d)
                                  /\ bookings'[b].end = bookings'[b].start + d * Minute
  <2>1. /\ call[r] \in CallType /\ pc[r] = "commit"
        /\ bookings'[b] = IF Op(r) # "create" /\ b = Target(r)
                            THEN Cancelled(r, bookings[b])
                          ELSE IF Op(r) # "cancel" /\ b = r
                            THEN NewBooking(r)
                          ELSE bookings[b]
    BY <1>1, CommitRows DEF Inv, SlotInv, Commit
  <2>2. CASE Op(r) # "create" /\ b = Target(r)
    <3>1. bookings[b] \in BookingRows /\ bookings[b] # Null
      BY <1>1, <2>2, CommitRows, NullAssumption DEF Inv, SlotInv
    <3>2. /\ bookings'[b].org = bookings[b].org /\ bookings'[b].start = bookings[b].start
          /\ bookings'[b].end = bookings[b].end
      BY <2>1, <2>2, <3>1 DEF Cancelled, BookingRows
    <3> QED BY <3>1, <3>2
  <2>3. CASE ~ (Op(r) # "create" /\ b = Target(r)) /\ Op(r) # "cancel" /\ b = r
    <3>1. Fits(OrgFor(r), call[r].start, local[r].duration)
      BY <2>1, <2>3 DEF RequestsFit
    <3>2. local[r].duration \in Durations BY <3>1 DEF Fits
    <3> QED BY <2>1, <2>3, <3>1, <3>2 DEF NewBooking, Slot, SlotAt
  <2>4. CASE ~ (Op(r) # "create" /\ b = Target(r)) /\ ~ (Op(r) # "cancel" /\ b = r)
    BY <1>1, <2>1, <2>4
  <2> QED BY <2>2, <2>3, <2>4
<1>2. CASE UNCHANGED bookings BY <1>2
<1> QED BY <1>1, <1>2, NextCases, ArriveFrame, HandleFrame, AdministerFrame DEF Tick, vars

LEMMA FitApart ==
  ASSUME Undisturbed, Inv, RowsFit, NEW a \in Requests, NEW b \in Requests,
         bookings[a] # Null, bookings[b] # Null, bookings[a].org = bookings[b].org,
         OnTheMinute(a), OnTheMinute(b), OnOneOffset(a), OnOneOffset(b),
         bookings[a].start < bookings[b].start
  PROVE  bookings[a].end <= bookings[b].start
<1>1. PICK d \in Durations : /\ Fits(bookings[a].org, bookings[a].start, d)
                             /\ bookings[a].end = bookings[a].start + d * Minute
  BY DEF RowsFit
<1>2. PICK e \in Durations : /\ Fits(bookings[b].org, bookings[b].start, e)
                             /\ bookings[b].end = bookings[b].start + e * Minute
  BY DEF RowsFit
<1>3. d = e /\ d \in Nat \ {0}
  BY ConfigurationAssumption DEF Undisturbed, Durations, Settings
<1>4. /\ bookings[a].org \in Orgs
      /\ bookings[a].start \in Int /\ bookings[b].start \in Int
  BY ServiceAssumption DEF Inv, TypeOK, BookingRows
<1> DEFINE tz == Zone[bookings[a].org]
<1>5. tz \in Zones /\ WellFormed(AllRules)
  BY <1>4, ServiceAssumption DEF Undisturbed
<1>6. AllRules \in SUBSET Rules BY ConfigurationAssumption DEF AllRules
<1>7. \A t \in {bookings[a].start, bookings[b].start} :
        OnGrid(tz, d, AllRules, SlotAt(t, d))
  BY <1>1, <1>2, <1>3 DEF Fits
<1>8. \A t \in {bookings[a].start, bookings[b].start} : KeepsOffset(tz, SlotAt(t, d))
  BY <1>1, <1>2, <1>3 DEF OnOneOffset, KeepsOffset, SlotAt
<1>9. ASSUME NEW t \in {bookings[a].start, bookings[b].start}
      PROVE  WallAt(tz, t) % Minute = 0
  <2>1. /\ t \in Int /\ t % Minute = 0
        /\ tz.before % Minute = 0 /\ tz.after % Minute = 0
    BY <1>4 DEF Undisturbed, OnTheMinute
  <2> HIDE DEF tz
  <2>2. UtcOffset(tz, t) % Minute = 0 BY <2>1 DEF UtcOffset
  <2> QED BY <1>5, <2>1, <2>2, Readings, SumOfMinutes
<1> HIDE DEF tz
<1> QED BY <1>1, <1>3, <1>4, <1>5, <1>6, <1>7, <1>8, <1>9, SlotsApart

\* Two active bookings of an organisation that start on whole minutes, and
\* during which its clock is not changed, share no instant, whatever requests
\* race, as long as the duration of slots is not changed and grids fit together.
THEOREM BookingsDoNotOverlap == Undisturbed => (Spec => []NoOverlap)
<1>1. Init => FitInv
  BY ConfigFitsInit DEF Init, FitInv, RequestsFit, RowsFit
<1>2. Inv /\ FitInv /\ [Next]_vars => FitInv'
  BY ConfigFitsNext, RequestsFitNext, RowsFitNext DEF FitInv
<1>3. Undisturbed /\ Inv /\ FitInv => NoOverlap
  <2> SUFFICES ASSUME Undisturbed, Inv, FitInv, NEW a \in Requests, NEW b \in Requests,
                      Active(a), Active(b), a # b, bookings[a].org = bookings[b].org,
                      OnTheMinute(a), OnTheMinute(b), OnOneOffset(a), OnOneOffset(b)
               PROVE  ~ Overlap(bookings[a], bookings[b])
    BY DEF NoOverlap
  <2>1. bookings[a] \in BookingRows /\ bookings[b] \in BookingRows
        /\ bookings[a] # Null /\ bookings[b] # Null
    BY DEF Active, Inv, TypeOK
  <2>2. bookings[a].start # bookings[b].start
    BY DEF Inv, SlotInv, OneActivePerSlot
  <2>3. /\ bookings[a].start \in Int /\ bookings[b].start \in Int
        /\ bookings[a].end \in Int /\ bookings[b].end \in Int
    BY <2>1, ServiceAssumption DEF BookingRows
  <2>4. CASE bookings[a].start < bookings[b].start
    BY <2>1, <2>3, <2>4, FitApart DEF FitInv, Overlap
  <2>5. CASE bookings[b].start < bookings[a].start
    BY <2>1, <2>3, <2>5, FitApart DEF FitInv, Overlap
  <2> QED BY <2>2, <2>3, <2>4, <2>5
<1>4. SUFFICES ASSUME Undisturbed PROVE Spec => []NoOverlap
  OBVIOUS
<1>5. Inv /\ FitInv => NoOverlap BY <1>3, <1>4
<1> QED BY <1>1, <1>2, <1>5, Invariance, PTL DEF Spec

-----------------------------------------------------------------------------
(***************************************************************************)
(* Where offices are closed while their clocks are changed.                *)
(***************************************************************************)
\* An organisation is closed when its clock is changed.  In a zone without
\* clock changes every organisation is.
ClosedAtChanges == \A o \in Orgs, rule \in AllRules : ClosedAtChange(Zone[o], rule)

NoSeconds == \A t \in Starts : t % Minute = 0

NoTwoOverlap ==
  \A a, b \in Requests :
    Active(a) /\ Active(b) /\ a # b /\ bookings[a].org = bookings[b].org
    => ~ Overlap(bookings[a], bookings[b])

\* If clients ask for starts without seconds and offices are closed when their
\* clocks are changed, no two active bookings of an organisation overlap.
THEOREM NoBookingsOverlap ==
  Undisturbed /\ ClosedAtChanges /\ NoSeconds => (Spec => []NoTwoOverlap)
<1>1. Init => FitInv
  BY ConfigFitsInit DEF Init, FitInv, RequestsFit, RowsFit
<1>2. Inv /\ FitInv /\ [Next]_vars => FitInv'
  BY ConfigFitsNext, RequestsFitNext, RowsFitNext DEF FitInv
<1>3. ASSUME ClosedAtChanges, NoSeconds, Inv, FitInv, NEW b \in Requests, bookings[b] # Null
      PROVE  OnTheMinute(b) /\ OnOneOffset(b)
  <2>1. PICK d \in Durations : /\ Fits(bookings[b].org, bookings[b].start, d)
                               /\ bookings[b].end = bookings[b].start + d * Minute
    BY <1>3 DEF FitInv, RowsFit
  <2>2. bookings[b].org \in Orgs /\ bookings[b].start \in Starts /\ bookings[b].start \in Int
    BY <1>3, ServiceAssumption DEF Inv, TypeOK, BookingRows
  <2>3. d \in Nat \ {0} /\ AllRules \in SUBSET Rules /\ Zone[bookings[b].org] \in Zones
    BY <2>2, ConfigurationAssumption, ServiceAssumption DEF Durations, Settings, AllRules
  <2>4. KeepsOffset(Zone[bookings[b].org], SlotAt(bookings[b].start, d))
    BY <1>3, <2>1, <2>2, <2>3, AcceptedWhenClosed DEF ClosedAtChanges, Fits
  <2> QED BY <1>3, <2>1, <2>2, <2>4
          DEF NoSeconds, OnTheMinute, OnOneOffset, KeepsOffset, SlotAt
<1>4. SUFFICES ASSUME Undisturbed, ClosedAtChanges, NoSeconds PROVE Spec => []NoTwoOverlap
  OBVIOUS
<1>5. Inv /\ FitInv /\ NoOverlap => NoTwoOverlap
  BY <1>3, <1>4 DEF NoOverlap, NoTwoOverlap, Active
<1>6. Spec => []NoOverlap BY <1>4, BookingsDoNotOverlap
<1> QED BY <1>1, <1>2, <1>5, <1>6, Invariance, PTL DEF Spec
==============================================================================
