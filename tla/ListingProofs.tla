----------------------------- MODULE ListingProofs -----------------------------
(***************************************************************************)
(* Proofs about BookingListing.                                            *)
(***************************************************************************)
EXTENDS BookingListing, QueryProofs, FiniteSetTheorems

-----------------------------------------------------------------------------
(***************************************************************************)
(* Where a booking lies in an order, and how long a page is.               *)
(***************************************************************************)
\* The bookings of S that ORDER BY puts before b.
Above(S, b) == {c \in S : bookings[c].start > bookings[b].start}

LEMMA OrderFacts ==
  ASSUME NEW S, IsFiniteSet(S), NEW order \in Orders(S)
  PROVE  /\ Cardinality(S) \in Nat /\ DOMAIN order = 1 .. Cardinality(S)
         /\ \A i \in DOMAIN order : order[i] \in S
         /\ \A i, j \in DOMAIN order : order[i] = order[j] => i = j
         /\ \A b \in S : \E i \in DOMAIN order : order[i] = b
         /\ \A i, j \in DOMAIN order : i < j => bookings[order[i]].start >= bookings[order[j]].start
<1>1. Cardinality(S) \in Nat BY FS_CardinalityType
<1>2. order \in Bijection(1 .. Cardinality(S), S) BY DEF Orders
<1>3. order \in [1 .. Cardinality(S) -> S] /\ IsInjective(order)
  BY <1>2 DEF Bijection, Injection
<1>4. \A b \in S : \E i \in 1 .. Cardinality(S) : order[i] = b
  BY <1>2 DEF Bijection, Surjection
<1> QED BY <1>1, <1>3, <1>4 DEF Orders, IsInjective

\* ORDER BY gives a booking that is alone at its start one place, the one
\* after those that start later.
LEMMA PlaceOfAlone ==
  ASSUME NEW S, IsFiniteSet(S), NEW order \in Orders(S), NEW b \in S,
         \A c \in S : bookings[c].start \in Int,
         \A c \in S : bookings[c].start = bookings[b].start => c = b
  PROVE  /\ IsFiniteSet(Above(S, b))
         /\ \E i \in DOMAIN order : order[i] = b /\ Cardinality(Above(S, b)) = i - 1
<1>1. PICK i \in DOMAIN order : order[i] = b BY OrderFacts
<1>2. i \in Nat /\ i >= 1 /\ i <= Cardinality(S) /\ Cardinality(S) \in Nat BY OrderFacts
<1> DEFINE f == [j \in 1 .. (i - 1) |-> order[j]]
<1>3. \A j \in 1 .. (i - 1) : j \in DOMAIN order /\ j < i
  BY <1>2, OrderFacts
<1>4. \A j \in 1 .. (i - 1) : order[j] \in Above(S, b)
  <2> SUFFICES ASSUME NEW j \in 1 .. (i - 1) PROVE order[j] \in Above(S, b)
    OBVIOUS
  <2>1. j \in DOMAIN order /\ j < i BY <1>3
  <2>2. order[j] \in S /\ order[j] # b BY <1>1, <1>2, <2>1, OrderFacts
  <2>3. bookings[order[j]].start >= bookings[b].start BY <1>1, <2>1, OrderFacts
  <2> QED BY <2>2, <2>3 DEF Above
<1>5. ASSUME NEW c \in Above(S, b) PROVE \E j \in 1 .. (i - 1) : order[j] = c
  <2>1. c \in S /\ bookings[c].start > bookings[b].start BY <1>5 DEF Above
  <2>2. PICK j \in DOMAIN order : order[j] = c BY <2>1, OrderFacts
  <2>3. j # i BY <1>1, <2>1, <2>2
  <2>4. ~ (i < j)
    <3>1. i < j => bookings[b].start >= bookings[c].start BY <1>1, <2>2, OrderFacts
    <3> QED BY <2>1, <3>1
  <2>5. j \in 1 .. (i - 1)
    <3>1. j \in Nat /\ j >= 1 BY OrderFacts
    <3> QED BY <1>2, <2>3, <2>4, <3>1
  <2> QED BY <2>2, <2>5
<1>6. f \in Bijection(1 .. (i - 1), Above(S, b))
  <2>1. f \in [1 .. (i - 1) -> Above(S, b)] BY <1>4
  <2>2. IsInjective(f)
    <3> SUFFICES ASSUME NEW j \in 1 .. (i - 1), NEW k \in 1 .. (i - 1), order[j] = order[k]
                 PROVE  j = k
      BY DEF IsInjective
    <3> QED BY <1>3, OrderFacts
  <2>3. \A c \in Above(S, b) : \E j \in 1 .. (i - 1) : f[j] = c BY <1>5
  <2> QED BY <2>1, <2>2, <2>3 DEF Bijection, Injection, Surjection
<1>7. Cardinality(Above(S, b)) = i - 1
  BY <1>2, <1>6, FS_CountingElements DEF ExistsBijection
<1>8. IsFiniteSet(Above(S, b))
  BY FS_Subset DEF Above
<1> QED BY <1>1, <1>7, <1>8

\* The rows of a page, and how many there are when rows are left for the next.
LEMMA PageFacts ==
  ASSUME NEW S, IsFiniteSet(S), NEW order \in Orders(S), page \in Nat \ {0}
  PROVE  /\ Page(order) \subseteq S
         /\ (page - 1) * PageSize \in Nat /\ page * PageSize = (page - 1) * PageSize + PageSize
         /\ page * PageSize < Cardinality(S) => Cardinality(Page(order)) = PageSize
         /\ \A i \in DOMAIN order :
              order[i] \in Page(order) <=> (page - 1) * PageSize < i /\ i <= page * PageSize
<1> DEFINE m == (page - 1) * PageSize
           n == page * PageSize
<1>1. PageSize \in Nat /\ PageSize > 0 BY ListAssumption
<1>2. m \in Nat /\ n = m + PageSize
  BY <1>1
<1> HIDE DEF m, n
<1>3. Page(order) = {order[i] : i \in {j \in DOMAIN order : m < j /\ j <= n}}
  BY DEF Page, m, n
<1>4. Page(order) \subseteq S BY <1>3, OrderFacts
<1>5. \A i \in DOMAIN order : order[i] \in Page(order) <=> m < i /\ i <= n
  BY <1>3, OrderFacts
<1>6. ASSUME n < Cardinality(S) PROVE Cardinality(Page(order)) = PageSize
  <2>1. m + 1 \in Int /\ n \in Int /\ m + 1 <= n BY <1>1, <1>2
  <2>2. \A j \in (m + 1) .. n : j \in DOMAIN order /\ m < j /\ j <= n
    BY <1>2, <1>6, <2>1, OrderFacts
  <2> DEFINE f == [j \in (m + 1) .. n |-> order[j]]
  <2>3. f \in Bijection((m + 1) .. n, Page(order))
    <3>1. f \in [(m + 1) .. n -> Page(order)] BY <1>5, <2>2
    <3>2. IsInjective(f)
      <4> SUFFICES ASSUME NEW j \in (m + 1) .. n, NEW k \in (m + 1) .. n, order[j] = order[k]
                   PROVE  j = k
        BY DEF IsInjective
      <4> QED BY <2>2, OrderFacts
    <3>3. ASSUME NEW b \in Page(order) PROVE \E j \in (m + 1) .. n : f[j] = b
      <4>1. PICK j \in DOMAIN order : m < j /\ j <= n /\ order[j] = b BY <1>3, <3>3
      <4>2. j \in (m + 1) .. n BY <1>2, <4>1, OrderFacts
      <4> QED BY <4>1, <4>2
    <3> QED BY <3>1, <3>2, <3>3 DEF Bijection, Injection, Surjection
  <2>4. IsFiniteSet((m + 1) .. n) /\ Cardinality((m + 1) .. n) = PageSize
    BY <1>1, <1>2, <2>1, FS_Interval
  <2> QED BY <2>3, <2>4, FS_Bijection DEF ExistsBijection
<1> QED BY <1>2, <1>4, <1>5, <1>6 DEF m, n

-----------------------------------------------------------------------------
(***************************************************************************)
(* The steps of a walk, and of the rest of the system.                     *)
(***************************************************************************)
LEMMA ListingCases ==
  ASSUME [ListingNext]_listVars
  PROVE  /\ [QueryNext]_queryVars
         /\ \/ (\E l \in Lists : AskFirst(l)) \/ AskNext \/ Count \/ ReadPage \/ ListingFails
            \/ AQuery /\ UNCHANGED vars
            \/ Meanwhile
            \/ UNCHANGED listVars
BY DEF ListingNext, listVars, queryVars, AskFirst, AskNext, Count, ReadPage, ListingFails, AQuery,
  Meanwhile, QueryNext, Reading, Ask, ReadSettings, ReadRules, ReadBookings, ReadExceptions,
  ListBookings, QueryFails

\* Lists disturb neither queries nor bookings, so that every theorem about
\* AvailabilityQuery and BookingService holds beside them.
THEOREM ListsDisturbNothing == ListingSpec => QuerySpec
<1>1. ListingInit => QueryInit BY DEF ListingInit
<1>2. [ListingNext]_listVars => [QueryNext]_queryVars BY ListingCases
<1> QED BY <1>1, <1>2, PTL DEF ListingSpec, QuerySpec

LEMMA ListingInvariance == ListingSpec => []Inv
BY ListsDisturbNothing, QueryInvariance, PTL

LEMMA MatchingFacts ==
  ASSUME Inv
  PROVE  /\ IsFiniteSet(Matching(list)) /\ Matching(list) \subseteq Requests
         /\ \A b \in Matching(list) : bookings[b] # Null /\ bookings[b].start \in Int
<1>1. IsFiniteSet(Matching(list))
  BY ListAssumption, FS_Subset DEF Matching
<1>2. \A b \in Matching(list) : bookings[b] \in BookingRows /\ bookings[b] # Null
  BY DEF Matching, Matches, Inv, TypeOK
<1> QED BY <1>1, <1>2, ServiceAssumption DEF Matching, BookingRows

-----------------------------------------------------------------------------
(***************************************************************************)
(* A walk.                                                                 *)
(***************************************************************************)
WalkOK ==
  /\ ListingTypeOK
  /\ place = "idle" => shown = {} /\ before = {} /\ still /\ ~ repeated
  /\ place # "idle" => list \in ListType /\ page # 0
  /\ place \notin {"idle", "forbidden"} => (list.view = "org" => list.actor \in Admins)

\* The walk is under way, or has ended with the last page.
Walking == place \in Places \cup {"done"}

\* How many rows the pages so far have passed.
Passed == IF place \in {"count", "rows"} THEN (page - 1) * PageSize ELSE page * PageSize

Rank(b) == Cardinality(Above(Matching(list), b))

LEMMA RankIsNat ==
  ASSUME Inv, NEW b PROVE Rank(b) \in Nat
<1>1. IsFiniteSet(Above(Matching(list), b)) BY MatchingFacts, FS_Subset DEF Above
<1> QED BY <1>1, FS_CardinalityType DEF Rank

LEMMA SameRows ==
  ASSUME UNCHANGED <<list, bookings>>
  PROVE  /\ Matching(list)' = Matching(list)
         /\ \A b : Rank(b)' = Rank(b) /\ Alone(b)' = Alone(b)
<1>1. Matching(list)' = Matching(list) BY DEF Matching, Matches
<1>2. ASSUME NEW b PROVE Rank(b)' = Rank(b) /\ Alone(b)' = Alone(b)
  <2>1. Above(Matching(list), b)' = Above(Matching(list), b) BY <1>1 DEF Above
  <2> QED BY <1>1, <2>1 DEF Rank, Alone
<1> QED BY <1>1, <1>2

LEMMA WalkNext == Inv /\ WalkOK /\ [ListingNext]_listVars => WalkOK'
<1> SUFFICES ASSUME Inv, WalkOK, [ListingNext]_listVars PROVE WalkOK'
  OBVIOUS
<1> USE DEF WalkOK, ListingTypeOK, Places, Ends
<1>1. ASSUME NEW l \in Lists, AskFirst(l) PROVE WalkOK'
  BY <1>1, ListAssumption DEF AskFirst, Matching
<1>2. CASE AskNext BY <1>2 DEF AskNext, past
<1>3. CASE Count
  <2>1. Cardinality(Matching(list)) \in Nat BY MatchingFacts, FS_CardinalityType
  <2> QED BY <1>3, <2>1 DEF Count, past
<1>4. CASE ReadPage
  <2>1. PICK order \in Orders(Matching(list)) :
          /\ shown' = shown \cup Page(order)
          /\ repeated' = (repeated \/ Page(order) \cap shown # {})
          /\ place' = IF Cardinality(Page(order)) = PageSize THEN "turn" ELSE "done"
    BY <1>4 DEF ReadPage
  <2>2. page \in Nat \ {0} BY <1>4 DEF ReadPage
  <2>3. Page(order) \subseteq Requests
    BY <2>2, MatchingFacts, PageFacts
  <2>4. repeated' \in BOOLEAN BY <2>1
  <2>5. place' \in {"turn", "done"} BY <2>1
  <2>6. shown' \subseteq Requests BY <2>1, <2>3
  <2> QED BY <1>4, <2>4, <2>5, <2>6 DEF ReadPage, past
<1>5. CASE ListingFails BY <1>5 DEF ListingFails, walk, past
<1>6. CASE AQuery
  <2>1. UNCHANGED <<list, place, page, total, shown, repeated, still, before>>
    BY <1>6 DEF AQuery, walk, past
  <2> QED BY <2>1
<1>7. CASE Meanwhile
  <2>1. still' \in BOOLEAN /\ (place = "idle" => still') BY <1>7 DEF Meanwhile
  <2> QED BY <1>7, <2>1 DEF Meanwhile, walk
<1>8. CASE UNCHANGED listVars BY <1>8 DEF listVars, walk, past
<1> QED BY <1>1, <1>2, <1>3, <1>4, <1>5, <1>6, <1>7, <1>8, ListingCases

LEMMA WalkInvariance == ListingSpec => [](Inv /\ WalkOK)
<1>1. ListingInit => WalkOK
  <2>1. ListingInit => ListingTypeOK
    <3> SUFFICES ASSUME ListingInit PROVE ListingTypeOK
      OBVIOUS
    <3>1. repeated \in BOOLEAN /\ still \in BOOLEAN BY DEF ListingInit
    <3>2. page \in Nat /\ total \in Nat BY DEF ListingInit
    <3>3. list \in ListType \cup {Null} /\ place \in {"idle"} \cup Places \cup Ends
      BY DEF ListingInit
    <3>4. shown \subseteq Requests /\ before \subseteq Requests BY DEF ListingInit
    <3> QED BY <3>1, <3>2, <3>3, <3>4 DEF ListingTypeOK
  <2>2. ListingInit => place = "idle" /\ shown = {} /\ before = {} /\ still /\ ~ repeated
    BY DEF ListingInit
  <2> QED BY <2>1, <2>2 DEF WalkOK
<1> QED BY <1>1, WalkNext, ListingInvariance, PTL DEF ListingSpec

\* Pages and counts are what they should be, for any number of bookings.
THEOREM ListingTypeCorrect == ListingSpec => []ListingTypeOK
<1>1. WalkOK => ListingTypeOK BY DEF WalkOK
<1> QED BY <1>1, WalkInvariance, PTL

\* The details of a booking that a list has shown can be asked for, now and
\* after any number of cancellations and moves; who sees it in a list is who
\* gets it, and nobody else is shown it.
ListedCanBeGot == \A b \in shown : MayGet(list.actor, b)

\* Who is shown a booking by a list may ask for it.
THEOREM ListedAreVisible == ListingSpec => []ListedCanBeGot
<1>1. ListingInit => ListedCanBeGot BY DEF ListingInit, ListedCanBeGot
<1>2. Inv /\ WalkOK /\ ListedCanBeGot /\ [ListingNext]_listVars => ListedCanBeGot'
  <2> SUFFICES ASSUME Inv, WalkOK, ListedCanBeGot, [ListingNext]_listVars
               PROVE  ListedCanBeGot'
    OBVIOUS
  <2>1. ASSUME NEW l \in Lists, AskFirst(l) PROVE ListedCanBeGot'
    BY <2>1 DEF AskFirst, WalkOK, ListedCanBeGot
  <2>2. CASE ReadPage
    <3>1. PICK order \in Orders(Matching(list)) : shown' = shown \cup Page(order)
      BY <2>2 DEF ReadPage
    <3>2. page \in Nat \ {0} /\ list \in ListType /\ (list.view = "org" => list.actor \in Admins)
      BY <2>2 DEF ReadPage, WalkOK, ListingTypeOK
    <3>3. Page(order) \subseteq Matching(list) BY <3>2, MatchingFacts, PageFacts
    <3>4. \A b \in Matching(list) : MayGet(list.actor, b)
      BY <3>2, NullAssumption DEF Matching, Matches, MayGet, ListType
    <3>5. \A b \in shown' : MayGet(list.actor, b) BY <3>1, <3>3, <3>4 DEF ListedCanBeGot
    <3>6. UNCHANGED <<bookings, list>> BY <2>2 DEF ReadPage, queryVars, vars
    <3> QED BY <3>5, <3>6 DEF ListedCanBeGot, MayGet
  <2>3. CASE Meanwhile
    <3>1. [Next]_vars /\ UNCHANGED <<list, shown>> BY <2>3 DEF Meanwhile, Elsewhere, walk
    <3>2. \A b \in shown : b \in Requests /\ MayGet(list.actor, b)
      BY DEF WalkOK, ListingTypeOK, ListedCanBeGot
    <3>3. \A b \in shown : MayGet(list.actor, b)'
      BY <3>1, <3>2, RowsRemain DEF MayGet
    <3> QED BY <3>1, <3>3 DEF ListedCanBeGot
  <2>4. CASE UNCHANGED <<bookings, list, shown>>
    BY <2>4 DEF ListedCanBeGot, MayGet
  <2> QED BY <2>1, <2>2, <2>3, <2>4, ListingCases
       DEF AskNext, Count, ListingFails, AQuery, listVars, queryVars, vars, walk
<1> QED BY <1>1, <1>2, WalkInvariance, PTL DEF ListingSpec

-----------------------------------------------------------------------------
(***************************************************************************)
(* Nothing is skipped: a booking that is not shown yet has as many others  *)
(* before it as the pages so far have passed, and more can only come.      *)
(***************************************************************************)
Unseen ==
  Walking /\ list.status # "active" =>
    \A b \in before :
      /\ b \in Matching(list)
      /\ Alone(b) /\ b \notin shown => place # "done" /\ Rank(b) >= Passed

LEMMA UnseenAfterPage ==
  ASSUME Inv, WalkOK, Unseen, ReadPage
  PROVE  Unseen'
<1> SUFFICES ASSUME list.status # "active", NEW b \in before
             PROVE  /\ b \in Matching(list)
                    /\ Alone(b) /\ b \notin shown' => place' # "done" /\ Rank(b) >= Passed'
  <2>1. UNCHANGED <<list, before, bookings>> BY DEF ReadPage, queryVars, vars, past
  <2> QED BY <2>1, SameRows DEF Unseen
<1> DEFINE S == Matching(list)
<1>1. place = "rows" /\ page \in Nat \ {0} BY DEF ReadPage, WalkOK, ListingTypeOK
<1>2. b \in S /\ (Alone(b) /\ b \notin shown => Rank(b) >= (page - 1) * PageSize)
  BY <1>1 DEF Unseen, Walking, Places, Passed
<1>3. PICK order \in Orders(S) :
        /\ shown' = shown \cup Page(order)
        /\ place' = IF Cardinality(Page(order)) = PageSize THEN "turn" ELSE "done"
  BY DEF ReadPage
<1>4. ASSUME Alone(b), b \notin shown' PROVE place' # "done" /\ Rank(b) >= Passed'
  <2>1. IsFiniteSet(S) /\ \A c \in S : bookings[c].start \in Int BY MatchingFacts
  <2>2. PICK i \in DOMAIN order : order[i] = b /\ Rank(b) = i - 1
    BY <1>2, <1>4, <2>1, PlaceOfAlone DEF Alone, Rank
  <2>3. i \in Nat /\ i <= Cardinality(S) /\ Cardinality(S) \in Nat BY <2>1, OrderFacts
  <2>4. i - 1 >= (page - 1) * PageSize /\ b \notin Page(order)
    BY <1>2, <1>3, <1>4, <2>2
  <2> DEFINE m == (page - 1) * PageSize
             n == page * PageSize
  <2>5. m \in Nat /\ n = m + PageSize /\ PageSize \in Nat BY <1>1, <2>1, PageFacts, ListAssumption
  <2>6. ~ (m < i /\ i <= n) BY <1>1, <2>1, <2>2, <2>4, PageFacts
  <2>7. i - 1 >= m BY <2>4
  <2>8. n < Cardinality(S) => Cardinality(Page(order)) = PageSize
    BY <1>1, <2>1, PageFacts
  <2> HIDE DEF m, n
  <2>9. i > n BY <2>3, <2>5, <2>6, <2>7
  <2>10. n < Cardinality(S) /\ Rank(b) >= n BY <2>2, <2>3, <2>5, <2>9
  <2>11. place' = "turn" BY <1>3, <2>8, <2>10
  <2>12. Passed' = n
    BY <2>11 DEF ReadPage, Passed, n
  <2> QED BY <2>10, <2>11, <2>12
<1> QED BY <1>2, <1>4

\* Bookings that come are no fewer before b, and none that was leaves.
LEMMA UnseenMeanwhile ==
  ASSUME Inv, WalkOK, Unseen, Meanwhile, Inv'
  PROVE  Unseen'
<1> SUFFICES ASSUME Walking, list.status # "active", NEW b \in before
             PROVE  /\ b \in Matching(list)'
                    /\ Alone(b)' /\ b \notin shown => place # "done" /\ Rank(b)' >= Passed
  <2>1. UNCHANGED <<list, place, page, shown, before>> BY DEF Meanwhile, walk
  <2> QED BY <2>1 DEF Unseen, Walking, Passed
<1>1. [Next]_vars /\ UNCHANGED list BY DEF Meanwhile, Elsewhere, walk
<1>2. list \in ListType BY DEF WalkOK, Walking, Places
<1>3. \A c \in Matching(list) : c \in Matching(list)' /\ bookings'[c].start = bookings[c].start
  <2> SUFFICES ASSUME NEW c \in Matching(list)
               PROVE  c \in Matching(list)' /\ bookings'[c].start = bookings[c].start
    OBVIOUS
  <2>1. c \in Requests /\ bookings[c] # Null /\ Matches(list, c) BY DEF Matching, Matches
  <2>2. list.status # Null => bookings[c].status # "active" BY <2>1 DEF Matches
  <2>3. /\ bookings'[c] # Null
        /\ bookings'[c].org = bookings[c].org /\ bookings'[c].user = bookings[c].user
        /\ bookings'[c].start = bookings[c].start /\ bookings'[c].end = bookings[c].end
        /\ list.status # Null => bookings'[c].status = bookings[c].status
    BY <1>1, <2>1, <2>2, RowsRemain
  <2>4. Matches(list, c)' BY <1>1, <2>1, <2>3 DEF Matches
  <2> QED BY <2>1, <2>3, <2>4 DEF Matching
<1>4. b \in Matching(list) BY DEF Unseen
<1>5. ASSUME Alone(b)', b \notin shown PROVE place # "done" /\ Rank(b)' >= Passed
  <2>1. Alone(b) BY <1>3, <1>4, <1>5 DEF Alone
  <2>2. place # "done" /\ Rank(b) >= Passed BY <1>5, <2>1 DEF Unseen
  <2>3. Above(Matching(list), b) \subseteq Above(Matching(list), b)'
    BY <1>3, <1>4 DEF Above
  <2>4. IsFiniteSet(Above(Matching(list), b)')
    <3>1. IsFiniteSet(Requests) BY ListAssumption
    <3>2. Above(Matching(list), b)' \subseteq Requests BY DEF Above, Matching
    <3> QED BY <3>1, <3>2, FS_Subset
  <2>5. Cardinality(Above(Matching(list), b)) <= Cardinality(Above(Matching(list), b)')
    BY <2>3, <2>4, FS_Subset
  <2>6. Rank(b) \in Nat BY RankIsNat
  <2>7. Rank(b)' \in Nat BY <2>4, FS_CardinalityType DEF Rank
  <2>8. Passed \in Int
    BY ListAssumption DEF WalkOK, ListingTypeOK, Passed
  <2>9. Rank(b) <= Rank(b)' BY <2>5 DEF Rank
  <2> QED BY <2>2, <2>6, <2>7, <2>8, <2>9
<1> QED BY <1>3, <1>4, <1>5

LEMMA UnseenNext == Inv /\ WalkOK /\ Unseen /\ [ListingNext]_listVars /\ Inv' => Unseen'
<1> SUFFICES ASSUME Inv, WalkOK, Unseen, [ListingNext]_listVars, Inv' PROVE Unseen'
  OBVIOUS
<1>1. ASSUME NEW l \in Lists, AskFirst(l) PROVE Unseen'
  <2> SUFFICES ASSUME Walking', NEW b \in before'
               PROVE  b \in Matching(list)' /\ place' # "done" /\ Rank(b)' >= Passed'
    BY DEF Unseen
  <2>1. list' = l /\ page' = 1 /\ before' = Matching(l) /\ UNCHANGED bookings /\ place' = "count"
    BY <1>1 DEF AskFirst, queryVars, vars, Walking, Places
  <2>2. b \in Matching(list)' BY <2>1 DEF Matching, Matches
  <2>3. Passed' = 0 BY <2>1, ListAssumption DEF Passed
  <2>4. IsFiniteSet(Above(Matching(list), b)')
    <3>1. IsFiniteSet(Requests) BY ListAssumption
    <3>2. Above(Matching(list), b)' \subseteq Requests BY DEF Above, Matching
    <3> QED BY <3>1, <3>2, FS_Subset
  <2>5. Rank(b)' \in Nat BY <2>4, FS_CardinalityType DEF Rank
  <2> QED BY <2>1, <2>2, <2>3, <2>5
<1>2. CASE AskNext
  <2>1. UNCHANGED <<list, shown, before, bookings>> /\ place = "turn" /\ place' = "count"
    BY <1>2 DEF AskNext, queryVars, vars, past
  <2>2. Passed' = Passed
    BY <1>2, <2>1 DEF AskNext, Passed, WalkOK, ListingTypeOK
  <2> QED BY <2>1, <2>2, SameRows DEF Unseen, Walking, Places
<1>3. CASE Count
  <2>1. /\ UNCHANGED <<list, page, shown, before, bookings>>
        /\ place = "count" /\ place' = "rows"
    BY <1>3 DEF Count, queryVars, vars, past
  <2>2. Passed' = Passed BY <2>1 DEF Passed
  <2> QED BY <2>1, <2>2, SameRows DEF Unseen, Walking, Places
<1>4. CASE ListingFails BY <1>4 DEF ListingFails, Unseen, Walking, Places
<1>5. CASE UNCHANGED <<vars, place, walk, past>>
  <2>1. UNCHANGED <<list, place, page, shown, before, bookings>> BY <1>5 DEF vars, walk, past
  <2> QED BY <2>1, SameRows DEF Unseen, Walking, Passed
<1> QED BY <1>1, <1>2, <1>3, <1>4, <1>5, ListingCases, UnseenAfterPage, UnseenMeanwhile
     DEF AQuery, listVars, queryVars

\* A walk misses no booking that was there when it began, whatever is written
\* between its statements, for any number of bookings and any size of page.
THEOREM WalksMissNothing == ListingSpec => []NoneIsSkipped
<1>1. ListingInit => Unseen BY DEF ListingInit, Unseen, Walking, Places
<1>2. Unseen => NoneIsSkipped BY DEF Unseen, NoneIsSkipped, Walking
<1> QED BY <1>1, <1>2, UnseenNext, WalkInvariance, PTL DEF ListingSpec

-----------------------------------------------------------------------------
(***************************************************************************)
(* An undisturbed walk through a list of active bookings: no two of them   *)
(* start together, so each has one place, and what is shown are the first. *)
(***************************************************************************)
ShownAreFirst ==
  still /\ Walking /\ list.status = "active" =>
    /\ ~ repeated
    /\ shown = {b \in Matching(list) : Rank(b) < Passed}
    /\ place # "count" => total = Cardinality(Matching(list))
    /\ place = "done" => \A b \in Matching(list) : Rank(b) < Passed

LEMMA ActiveAreAlone ==
  ASSUME Inv, list \in ListType, list.status = "active"
  PROVE  \A b \in Matching(list) : Alone(b)
BY NullAssumption, ListAssumption
   DEF Inv, SlotInv, OneActivePerSlot, Active, Alone, Matching, Matches

LEMMA FirstAfterPage ==
  ASSUME Inv, WalkOK, ShownAreFirst, ReadPage
  PROVE  ShownAreFirst'
<1>1. UNCHANGED <<list, page, total, still, bookings>> BY DEF ReadPage, queryVars, vars, past
<1> SUFFICES ASSUME still, list.status = "active"
             PROVE  /\ ~ repeated'
                    /\ shown' = {b \in Matching(list) : Rank(b) < Passed'}
                    /\ total = Cardinality(Matching(list))
                    /\ place' = "done" => \A b \in Matching(list) : Rank(b) < Passed'
  BY <1>1, SameRows DEF ShownAreFirst
<1> DEFINE S == Matching(list)
           m == (page - 1) * PageSize
           n == page * PageSize
<1>2. place = "rows" /\ page \in Nat \ {0} /\ list \in ListType
  BY DEF ReadPage, WalkOK, ListingTypeOK
<1>3. ~ repeated /\ shown = {b \in S : Rank(b) < m} /\ total = Cardinality(S)
  BY <1>2 DEF ShownAreFirst, Walking, Places, Passed
<1>4. PICK order \in Orders(S) :
        /\ shown' = shown \cup Page(order)
        /\ repeated' = (repeated \/ Page(order) \cap shown # {})
        /\ place' = IF Cardinality(Page(order)) = PageSize THEN "turn" ELSE "done"
  BY DEF ReadPage
<1>5. IsFiniteSet(S) /\ \A c \in S : bookings[c].start \in Int BY MatchingFacts
<1>6. m \in Nat /\ n = m + PageSize /\ PageSize \in Nat /\ n \in Nat
  BY <1>2, <1>5, PageFacts, ListAssumption
<1>7. Passed' = n BY <1>1, <1>4 DEF Passed
<1>8. \A i \in DOMAIN order : order[i] \in Page(order) <=> m < i /\ i <= n
  BY <1>2, <1>5, PageFacts
<1>9. n < Cardinality(S) => Cardinality(Page(order)) = PageSize
  BY <1>2, <1>5, PageFacts
<1>10. Page(order) \subseteq S BY <1>2, <1>5, PageFacts
<1> HIDE DEF m, n
<1>11. ASSUME NEW b \in S
       PROVE  /\ Rank(b) \in Nat /\ Rank(b) < Cardinality(S) /\ Cardinality(S) \in Nat
              /\ b \in Page(order) <=> m <= Rank(b) /\ Rank(b) < n
  <2>1. Alone(b) BY <1>2, <1>11, ActiveAreAlone
  <2>2. PICK i \in DOMAIN order : order[i] = b /\ Rank(b) = i - 1
    BY <1>5, <1>11, <2>1, PlaceOfAlone DEF Alone, Rank
  <2>3. i \in Nat /\ i >= 1 /\ i <= Cardinality(S) /\ Cardinality(S) \in Nat BY <1>5, OrderFacts
  <2>4. b \in Page(order) <=> m < i /\ i <= n BY <1>8, <2>2
  <2> QED BY <1>6, <2>2, <2>3, <2>4
<1>12. ~ repeated'
  <2>1. \A b \in Page(order) : b \notin shown
    <3> SUFFICES ASSUME NEW b \in Page(order) PROVE b \notin shown
      OBVIOUS
    <3>1. Rank(b) \in Nat /\ m <= Rank(b) BY <1>10, <1>11
    <3> QED BY <1>3, <1>6, <3>1
  <2> QED BY <1>3, <1>4, <2>1
<1>13. \A b \in S : b \in shown' <=> Rank(b) < n
  <2> SUFFICES ASSUME NEW b \in S PROVE b \in shown' <=> Rank(b) < n
    OBVIOUS
  <2>1. b \in shown <=> Rank(b) < m BY <1>3
  <2>2. Rank(b) \in Nat /\ (b \in Page(order) <=> m <= Rank(b) /\ Rank(b) < n) BY <1>11
  <2>3. b \in shown' <=> b \in shown \/ b \in Page(order) BY <1>4
  <2> QED BY <1>6, <2>1, <2>2, <2>3
<1>14. shown' \subseteq S BY <1>3, <1>4, <1>10
<1>15. ASSUME place' = "done", NEW b \in S PROVE Rank(b) < n
  <2>1. ~ (n < Cardinality(S)) BY <1>4, <1>9, <1>15
  <2>2. Rank(b) \in Nat /\ Rank(b) < Cardinality(S) /\ Cardinality(S) \in Nat BY <1>11
  <2> QED BY <1>6, <2>1, <2>2
<1> QED BY <1>3, <1>7, <1>12, <1>13, <1>14, <1>15

LEMMA FirstNext == Inv /\ WalkOK /\ ShownAreFirst /\ [ListingNext]_listVars => ShownAreFirst'
<1> SUFFICES ASSUME Inv, WalkOK, ShownAreFirst, [ListingNext]_listVars PROVE ShownAreFirst'
  OBVIOUS
<1>1. ASSUME NEW l \in Lists, AskFirst(l) PROVE ShownAreFirst'
  <2> SUFFICES ASSUME Walking' PROVE ShownAreFirst'
    BY DEF ShownAreFirst
  <2>1. /\ place = "idle" /\ place' = "count" /\ page' = 1 /\ shown' = shown
        /\ repeated' = repeated
    BY <1>1 DEF AskFirst, Walking, Places
  <2>2. Passed' = 0 /\ shown' = {} /\ ~ repeated'
    BY <2>1, ListAssumption DEF Passed, WalkOK
  <2>3. \A b : Rank(b)' \in Nat
    <3> SUFFICES ASSUME NEW b PROVE Rank(b)' \in Nat
      OBVIOUS
    <3>1. IsFiniteSet(Requests) BY ListAssumption
    <3>2. Above(Matching(list), b)' \subseteq Requests BY DEF Above, Matching
    <3>3. IsFiniteSet(Above(Matching(list), b)') BY <3>1, <3>2, FS_Subset
    <3> QED BY <3>3, FS_CardinalityType DEF Rank
  <2>4. {b \in Matching(list)' : Rank(b)' < 0} = {} BY <2>3
  <2> QED BY <2>1, <2>2, <2>4 DEF ShownAreFirst
<1>2. CASE AskNext
  <2>1. /\ UNCHANGED <<list, shown, total, repeated, still, bookings>>
        /\ place = "turn" /\ place' = "count"
    BY <1>2 DEF AskNext, queryVars, vars, past
  <2>2. Passed' = Passed
    BY <1>2, <2>1 DEF AskNext, Passed, WalkOK, ListingTypeOK
  <2> QED BY <2>1, <2>2, SameRows DEF ShownAreFirst, Walking, Places
<1>3. CASE Count
  <2>1. /\ UNCHANGED <<list, page, shown, repeated, still, bookings>>
        /\ place = "count" /\ place' = "rows" /\ total' = Cardinality(Matching(list))
    BY <1>3 DEF Count, queryVars, vars, past
  <2>2. Passed' = Passed BY <2>1 DEF Passed
  <2> QED BY <2>1, <2>2, SameRows DEF ShownAreFirst, Walking, Places
<1>4. CASE ListingFails BY <1>4 DEF ListingFails, ShownAreFirst, Walking, Places
<1>5. CASE Meanwhile
  <2> SUFFICES ASSUME Walking, still' PROVE ShownAreFirst'
    BY <1>5 DEF Meanwhile, ShownAreFirst, Walking
  <2>1. /\ UNCHANGED <<list, place, page, total, shown, repeated, bookings>>
        /\ still
    BY <1>5 DEF Meanwhile, walk, Walking, Places
  <2> QED BY <2>1, SameRows DEF ShownAreFirst, Walking, Passed
<1>6. CASE UNCHANGED <<vars, place, walk, past>>
  <2>1. UNCHANGED <<list, place, page, total, shown, repeated, still, bookings>>
    BY <1>6 DEF vars, walk, past
  <2> QED BY <2>1, SameRows DEF ShownAreFirst, Walking, Passed
<1> QED BY <1>1, <1>2, <1>3, <1>4, <1>5, <1>6, ListingCases, FirstAfterPage
     DEF AQuery, listVars, queryVars

\* The unique index gives the active bookings of a list one order, so that its
\* pages show each of them once, for any number of them and any size of page.
THEOREM ActivePagesShowEachOnce == ListingSpec => []ActivePagesAreExact
<1>1. ListingInit => ShownAreFirst BY DEF ListingInit, ShownAreFirst, Walking, Places
<1>2. ShownAreFirst => ActivePagesAreExact
  BY DEF ShownAreFirst, ActivePagesAreExact, Walking
<1> QED BY <1>1, <1>2, FirstNext, WalkInvariance, PTL DEF ListingSpec
==============================================================================
