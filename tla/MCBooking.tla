------------------------------ MODULE MCBooking ------------------------------
(***************************************************************************)
(* Instances of BookingService for TLC.  A minute is two ticks, so that a  *)
(* start can carry seconds; a day is six minutes and a week two days.  The *)
(* office opens from local minute 0 to 4 and is one minute behind UTC, so  *)
(* with slots of two minutes its first day has the starts 2 and 6.         *)
(***************************************************************************)
EXTENDS BookingService, TLC

CONSTANTS admin, alice, bob, eve, outsider, here, there, r1, r2, r3, r4

First == 2      \* start of the first slot
Seconds == 3    \* in the first minute of the first slot, and accepted as it is
Off == 4        \* between slots
Second == 6     \* start of the second
Over == 10      \* closing time, before the clock goes back to noon
Again == 12     \* reads as Second does, after the clock has gone back

BehindUtc == [o \in Orgs |-> [change |-> 0, before |-> -2, after |-> -2]]
\* The clock goes back three minutes, one after closing time.
GoesBack == [o \in Orgs |-> [change |-> 12, before |-> -2, after |-> -8]]
\* The clock skips the minute after closing time.
SkipsAtClosing == [o \in Orgs |-> [change |-> 10, before |-> -2, after |-> 0]]

OneOrg == [u \in Users |-> here]
TwoOrgs == [u \in Users |-> IF u \in {eve, outsider} THEN there ELSE here]

TwoMinutes == {[duration |-> 2, lead |-> 0, horizon |-> 1]}
OneOrTwoMinutes == TwoMinutes \cup {[duration |-> 1, lead |-> 2, horizon |-> 1]}

Opening == {[dow |-> 0, start |-> 0, end |-> 8]}
OneGrid == {Opening}

NoExceptions == {}

Call(op, actors, targets, starts) ==
  [op : {op}, actor : actors, target : targets, start : starts]
Creates(actors, starts) == Call("create", actors, {Null}, starts)
Cancels(actors, targets) == Call("cancel", actors, targets, {First})
Moves(actors, targets, starts) == Call("reschedule", actors, targets, starts)

EachMay(calls) == [r \in Requests |-> calls]

LifecycleCalls ==
  r1 :> Creates({alice}, {First})
  @@ r2 :> Creates({bob}, {First, Second, Seconds, Again}) \cup Cancels({alice}, {r1})
           \cup Moves({admin}, {r1}, {Second})
  @@ r3 :> Cancels({admin, alice, bob}, {r1, r2})
           \cup Moves({admin, bob}, {r1, r2}, {First, Off, Second, Over}) \cup Creates({bob}, {First})

\* Two bookings that administrators exchange; strangers name them too.
TenantCalls ==
  r1 :> Creates({alice, outsider}, {First})
  @@ r2 :> Creates({alice}, {Second})
  @@ r3 :> Moves({admin, eve}, {r1}, {Second}) \cup Cancels({eve, outsider}, {r1})
  @@ r4 :> Moves({admin}, {r2}, {First})

DayCalls == EachMay(Creates({alice, bob}, {First, Seconds, Off, Second}))

MoveCalls == r1 :> Creates({alice}, {First}) @@ r2 :> Moves({admin}, {r1}, {Second})
             @@ r3 :> Cancels({alice}, {r1})
==============================================================================
