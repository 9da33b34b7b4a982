---------------------------- MODULE BookingListing ----------------------------
(***************************************************************************)
(* list_my_bookings, list_org_bookings and get_booking_for_actor           *)
(* (backend/app/services/booking_service.py), while bookings change.  A    *)
(* page of a list is a request of its own, which counts the rows and then  *)
(* selects its share of them.  A client walks through the pages of one     *)
(* list until a page is not full.  Lists write nothing, as the queries of  *)
(* AvailabilityQuery, so one reader at a time, a client with a list or a   *)
(* query, shows all that many can see.                                     *)
(***************************************************************************)
EXTENDS AvailabilityQuery, FiniteSets, Functions

CONSTANTS
  Lists,      \* the lists a client may ask for
  PageSize    \* page_size, the same for all pages of a list

\* list_my_bookings has no parameter user_id: it is always the actor's.
ListType ==
  {l \in [view : {"mine", "org"}, actor : Users, user : Users \cup {Null},
          from : Int \cup {Null}, to : Int \cup {Null},
          status : {"active", "cancelled", Null}] : l.view = "mine" => l.user = l.actor}

ASSUME ListAssumption ==
  /\ Null \notin ListType /\ Null \notin Int /\ Null \notin {"active", "cancelled"}
  /\ Lists \subseteq ListType
  /\ PageSize \in Nat \ {0} /\ IsFiniteSet(Requests)

VARIABLES
  list,      \* the list that is asked for
  place,     \* the statement of the current page, or how the walk ended
  page,      \* the page asked for
  total,     \* what the last COUNT returned
  shown,     \* the bookings on the pages so far
  repeated,  \* history: a booking was on two of them,
  still,     \* nothing has been written since the walk began,
  before     \* and the bookings of the list when it began

walk == <<list, page, total, shown, repeated>>
past == <<still, before>>
listVars == <<queryVars, place, walk, past>>

Places == {"count", "rows", "turn"}
Ends == {"done", "forbidden", "error"}

\* The WHERE clause.
Matches(l, b) ==
  /\ bookings[b] # Null /\ bookings[b].org = OrgOf[l.actor]
  /\ l.user # Null => bookings[b].user = l.user
  /\ l.from # Null => bookings[b].end > l.from
  /\ l.to # Null => bookings[b].start < l.to
  /\ l.status # Null => bookings[b].status = l.status

Matching(l) == {b \in Requests : Matches(l, b)}

ListingInit ==
  /\ QueryInit
  /\ list = Null /\ place = "idle" /\ page = 0 /\ total = 0
  /\ shown = {} /\ repeated = FALSE /\ still = TRUE /\ before = {}

\* The router; require_admin guards the list of the organisation.
AskFirst(l) ==
  /\ place = "idle" /\ stage = "idle"
  /\ list' = l /\ page' = 1
  /\ place' = IF l.view = "org" /\ l.actor \notin Admins THEN "forbidden" ELSE "count"
  /\ before' = Matching(l)
  /\ UNCHANGED <<queryVars, total, shown, repeated, still>>

\* The client asks for the page after a full one.
AskNext ==
  /\ place = "turn"
  /\ page' = page + 1 /\ place' = "count"
  /\ UNCHANGED <<queryVars, list, total, shown, repeated, past>>

\* Mutant: COUNT by user, which returns no row when there is no booking.
CountGrouped ==
  /\ place = "count"
  /\ total' = IF Matching(list) = {} THEN Null ELSE Cardinality(Matching(list))
  /\ place' = "rows"
  /\ UNCHANGED <<queryVars, list, page, shown, repeated, past>>

Count ==
  /\ place = "count"
  /\ total' = Cardinality(Matching(list))
  /\ place' = "rows"
  /\ UNCHANGED <<queryVars, list, page, shown, repeated, past>>

\* Mutant: no ORDER BY.
AnyOrder(S) == Bijection(1 .. Cardinality(S), S)

\* ORDER BY start_at_utc DESC: rows of one start come in any order, another
\* for each statement.
Orders(S) ==
  {order \in Bijection(1 .. Cardinality(S), S) :
     \A i, j \in 1 .. Cardinality(S) : i < j => bookings[order[i]].start >= bookings[order[j]].start}

\* Mutant: pages counted from 0.
PageFromZero(order) ==
  {order[i] : i \in {j \in DOMAIN order : page * PageSize < j /\ j <= (page + 1) * PageSize}}

\* OFFSET and LIMIT.
Page(order) ==
  {order[i] : i \in {j \in DOMAIN order : (page - 1) * PageSize < j /\ j <= page * PageSize}}

ReadPage ==
  /\ place = "rows"
  /\ \E order \in Orders(Matching(list)) :
       /\ shown' = shown \cup Page(order)
       /\ repeated' = (repeated \/ Page(order) \cap shown # {})
       /\ place' = IF Cardinality(Page(order)) = PageSize THEN "turn" ELSE "done"
  /\ UNCHANGED <<queryVars, list, page, total, past>>

ListingFails ==
  /\ place \in {"count", "rows"}
  /\ place' = "error"
  /\ UNCHANGED <<queryVars, walk, past>>

\* A step of the query, while nobody reads a list.
AQuery ==
  /\ place = "idle"
  /\ Reading /\ UNCHANGED <<place, walk, past>>

\* A step of the rest of the system.
Meanwhile ==
  /\ Elsewhere
  /\ still' = (place # "idle" => (still /\ UNCHANGED bookings))
  /\ UNCHANGED <<place, walk, before>>

ListingNext ==
  \/ \E l \in Lists : AskFirst(l)
  \/ AskNext \/ Count \/ ReadPage \/ ListingFails \/ AQuery \/ Meanwhile

ListingSpec == ListingInit /\ [][ListingNext]_listVars

\* get_booking_for_actor returns b; all other bookings are a 404.
MayGet(user, b) ==
  /\ bookings[b] # Null /\ bookings[b].org = OrgOf[user]
  /\ user \in Admins \/ bookings[b].user = user

-----------------------------------------------------------------------------
(***************************************************************************)
(* Properties.                                                             *)
(***************************************************************************)
ListingTypeOK ==
  /\ list \in ListType \cup {Null} /\ place \in {"idle"} \cup Places \cup Ends
  /\ page \in Nat /\ total \in Nat /\ shown \subseteq Requests /\ before \subseteq Requests
  /\ repeated \in BOOLEAN /\ still \in BOOLEAN

\* No other booking of the list has the start of b, so ORDER BY places it.
Alone(b) == \A c \in Matching(list) : bookings[c].start = bookings[b].start => c = b

\* Whatever is booked, cancelled and moved between two pages, a walk through
\* a list of cancelled bookings, or of all, misses none that was there when it
\* began, unless another booking of the list starts with it: bookings that
\* come push the others to later pages, never to earlier ones, and none
\* leaves.  (A list of active bookings has no such promise: a cancellation
\* between two pages pulls the next booking over the edge.)
NoneIsSkipped ==
  place = "done" /\ list.status # "active" => \A b \in before : Alone(b) => b \in shown

\* The pages of a list of active bookings that nothing disturbs show each of
\* them once and are as many rows as each page says: the ORDER BY has no
\* second key, and that starts are unique is the work of the unique index.
ActivePagesAreExact ==
  still /\ place = "done" /\ list.status = "active" =>
    shown = Matching(list) /\ ~ repeated /\ total = Cardinality(shown)
==============================================================================
