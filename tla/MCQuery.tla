------------------------------- MODULE MCQuery -------------------------------
(***************************************************************************)
(* Instances of AvailabilityQuery for TLC, with the calendar of MCBooking. *)
(* In a zone five minutes ahead of UTC the starts 2 and 6 are those of the *)
(* local day 1 although UTC is still at day 0.                             *)
(***************************************************************************)
EXTENDS AvailabilityQuery, MCBooking

AheadOfUtc == [o \in Orgs |-> [change |-> 0, before |-> 10, after |-> 10]]

Tuesday == {[dow |-> 1, start |-> 0, end |-> 8]}
TwoGrids == {Tuesday, {[dow |-> 1, start |-> 2, end |-> 8]}}
LeadOfAMinute == {[duration |-> 2, lead |-> 1, horizon |-> 1]}
BlockedEnd == {[start |-> 5, end |-> 7]}

\* A move to the start that the booking has leaves two rows there.
OfferCalls ==
  r1 :> Creates({alice}, {First})
  @@ r2 :> Creates({alice}, {Second}) \cup Moves({admin}, {r1}, {First, Second})

Slots(actor, from, to) == [actor |-> actor, from |-> from, to |-> to, view |-> "slots"]
Calendar(actor, from, to) == [actor |-> actor, from |-> from, to |-> to, view |-> "calendar"]

\* A day, a range with closed days, one that ends before it begins, one that
\* is too long, and the calendar as an administrator and as a user.
SomeQuestions ==
  {Slots(bob, 0, 1), Slots(alice, 1, 0), Slots(alice, 0, 2),
   Calendar(admin, 1, 1), Calendar(alice, 1, 1)}
ThisDay == {Slots(alice, 0, 0)}
AdminsDay == {Calendar(admin, 1, 1)}
==============================================================================
