------------------------------ MODULE MCListing ------------------------------
(***************************************************************************)
(* Instances of BookingListing for TLC, with the queries of MCQuery.       *)
(***************************************************************************)
EXTENDS BookingListing, MCQuery

List(view, actor, user, status) ==
  [view |-> view, actor |-> actor, user |-> user, from |-> Null, to |-> Null, status |-> status]

\* Everything, all that is active, the bookings of one user that begin before
\* the second slot, and the list of the organisation refused to a user.
SomeLists ==
  {List("org", admin, Null, Null), List("org", admin, Null, "active"), List("org", bob, Null, Null),
   [List("mine", alice, alice, Null) EXCEPT !.from = First, !.to = Second]}
==============================================================================
