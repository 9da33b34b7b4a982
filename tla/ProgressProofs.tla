---------------------------- MODULE ProgressProofs ----------------------------
(***************************************************************************)
(* That bookings do not stand still.  Handlers wait for each other's rows  *)
(* and index entries without a timeout, and nothing in the code orders     *)
(* their locks.  Still a request that is under way is alone responsible    *)
(* for a wait only in a cycle of reschedules, which the database breaks.   *)
(***************************************************************************)
EXTENDS BookingProofs, FiniteSetTheorems

-----------------------------------------------------------------------------
(***************************************************************************)
(* Who waits for whom.                                                     *)
(***************************************************************************)
\* s stands between r and the end of its next statement.
WaitsOn(r, s) == WaitsFor(r, s) \/ (pc[r] = "update" /\ Holds(s, Target(r)))

CanGoOn(r) == pc[r] \in Steps /\ \A s \in Requests : ~ WaitsOn(r, s)

\* However rows and index entries are waited for, no requests that wait for
\* each other alone stand still: one of them is not waiting after all, or the
\* database finds it in a deadlock and aborts it.
NoStandstill ==
  \A group \in SUBSET {r \in Requests : pc[r] \in Steps} :
    group # {} /\ (\A r \in group : \A s \in Requests : WaitsOn(r, s) => s \in group)
    => \E r \in group : CanGoOn(r) \/ Deadlocked(r)

\* A transaction waits for at most one other.
WaitsForOne ==
  \A r, s, t \in Requests : WaitsFor(r, s) /\ WaitsFor(r, t) => s = t

LEMMA OneWait == Inv => WaitsForOne
<1> SUFFICES ASSUME Inv, NEW r \in Requests, NEW s \in Requests, NEW t \in Requests,
                    WaitsFor(r, s), WaitsFor(r, t)
             PROVE  s = t
  BY DEF WaitsForOne
<1>1. \A x \in Requests : Inserted(x) /\ SameKey(r, x) =>
        /\ \A y \in Requests : Inserted(y) /\ SameKey(r, y) => y = x
        /\ \A b \in Requests : Active(b) /\ HasKey(b, r) => Holds(x, b)
  BY DEF Inv, SlotInv, KeyExclusive, SameKey, HasKey
<1>2. \A x, y, b \in Requests : Holds(x, b) /\ Holds(y, b) => x = y
  BY DEF Inv, SlotInv, LockExclusive
<1>3. \A a, b \in Requests : Active(a) /\ HasKey(a, r) /\ Active(b) /\ HasKey(b, r) => a = b
  BY DEF Inv, SlotInv, OneActivePerSlot, HasKey
<1> QED BY <1>1, <1>2, <1>3 DEF WaitsFor

\* Waits end at transactions that are about to commit, or never.
LEMMA WhoIsWaitedFor ==
  ASSUME NEW r \in Requests, NEW s \in Requests,
         WaitsOn(r, s)
  PROVE  pc[s] = "commit" \/ (pc[s] = "insert" /\ Op(s) = "reschedule")
BY DEF WaitsOn, WaitsFor, Inserted, Holds

\* A finite set of transactions, each of which waits for one of the set,
\* contains a cycle: a smallest such set has nobody in it who is not waited for.
LEMMA WaitingInCircles ==
  ASSUME IsFiniteSet(Requests),
         NEW W \in SUBSET {s \in Requests : pc[s] = "insert"}, W # {},
         \A x \in W : \E y \in W : WaitsFor(x, y)
  PROVE  \E r \in W : Deadlocked(r)
<1> DEFINE Closed(C) == C # {} /\ \A x \in C : \E y \in C : WaitsFor(x, y)
           family == {C \in SUBSET W : Closed(C)}
           order == StrictSubsetOrdering(Requests)
<1>1. IsWellFoundedOn(order, SUBSET Requests)
  BY FS_StrictSubsetOrderingWellFounded, FS_FiniteSubsetsOfFinite
<1>2. family \subseteq SUBSET Requests /\ family # {}
  <2>1. W \in family OBVIOUS
  <2> QED BY <2>1
<1>3. PICK C \in family : \A D \in family : ~ (<<D, C>> \in order)
  <2> HIDE DEF family, order
  <2> QED BY <1>1, <1>2, WFMin
<1> DEFINE D == {y \in C : \E x \in C : WaitsFor(x, y)}
<1>4. Closed(D)
  <2>1. D # {} OBVIOUS
  <2>2. ASSUME NEW x \in D PROVE \E y \in D : WaitsFor(x, y)
    <3>1. PICK y \in C : WaitsFor(x, y) OBVIOUS
    <3> QED BY <3>1
  <2> QED BY <2>1, <2>2
<1>5. D = C
  <2>1. D \in family BY <1>4
  <2>2. <<D, C>> \notin order BY <1>3, <2>1
  <2>3. D \in SUBSET Requests /\ C \in SUBSET Requests /\ D \subseteq C OBVIOUS
  <2> HIDE DEF D, family
  <2> QED BY <2>2, <2>3 DEF StrictSubsetOrdering
<1>6. PICK r \in C : TRUE OBVIOUS
<1>7. \A s \in C : (\E t \in C : WaitsFor(s, t)) /\ (\E t \in C : WaitsFor(t, s))
  BY <1>5
<1>8. C \in SUBSET {s \in Requests : pc[s] = "insert"} /\ r \in W OBVIOUS
<1> HIDE DEF family, D
<1> QED BY <1>6, <1>7, <1>8 DEF Deadlocked

-----------------------------------------------------------------------------
(***************************************************************************)
(* Progress.  EveryCallAnswered follows from these on paper: a request     *)
(* that is under way has a bounded way ahead of it (RequestsAdvance), and  *)
(* however it waits, one of those it waits for can take a step of it       *)
(* (NobodyStandsStill), which is a fair step.                              *)
(***************************************************************************)
LEMMA SomebodyGoesOn ==
  ASSUME IsFiniteSet(Requests),
         NEW group \in SUBSET {r \in Requests : pc[r] \in Steps}, group # {},
         \A r \in group : \A s \in Requests : WaitsOn(r, s) => s \in group
  PROVE  \E r \in group : CanGoOn(r) \/ Deadlocked(r)
<1> SUFFICES ASSUME \A r \in group : ~ CanGoOn(r)
             PROVE  \E r \in group : Deadlocked(r)
  OBVIOUS
<1> DEFINE W == {r \in group : pc[r] = "insert"}
<1>1. ASSUME NEW r \in group PROVE \E s \in W : WaitsOn(r, s)
  <2>1. PICK s \in Requests : WaitsOn(r, s) BY DEF CanGoOn
  <2>2. s \in group BY <2>1
  <2>3. pc[s] # "commit" BY <2>2 DEF CanGoOn, WaitsOn, WaitsFor
  <2> QED BY <2>1, <2>2, <2>3, WhoIsWaitedFor
<1>2. W # {} BY <1>1
<1>3. \A x \in W : \E y \in W : WaitsFor(x, y)
  BY <1>1 DEF WaitsOn
<1>4. W \in SUBSET {s \in Requests : pc[s] = "insert"} OBVIOUS
<1>5. \E r \in W : Deadlocked(r)
  <2> HIDE DEF W
  <2> QED BY <1>2, <1>3, <1>4, WaitingInCircles
<1> QED BY <1>5

\* No group of requests waits for itself alone without a deadlock that the
\* database sees, whatever its members ask for.
THEOREM NobodyStandsStill ==
  ASSUME IsFiniteSet(Requests)
  PROVE  Spec => []NoStandstill
<1>1. NoStandstill
  <2> SUFFICES ASSUME NEW group \in SUBSET {r \in Requests : pc[r] \in Steps}, group # {},
                      \A r \in group : \A s \in Requests : WaitsOn(r, s) => s \in group
               PROVE  \E r \in group : CanGoOn(r) \/ Deadlocked(r)
    BY DEF NoStandstill
  <2> QED BY SomebodyGoesOn
<1> QED BY <1>1, PTL

\* Deadlocks are cycles of reschedules, each of which waits for the next alone.
MovesInACycle(C) ==
  \E next \in Bijection(C, C) :
    \A x \in C : /\ pc[x] = "insert" /\ Op(x) = "reschedule"
                 /\ \A s \in Requests : WaitsFor(x, s) <=> s = next[x]

DeadlocksAreCycles ==
  \A r \in Requests : Deadlocked(r) => \E C \in SUBSET Requests : r \in C /\ MovesInACycle(C)

LEMMA CycleOf ==
  ASSUME IsFiniteSet(Requests), Inv, NEW r \in Requests, Deadlocked(r)
  PROVE  \E C \in SUBSET Requests : r \in C /\ MovesInACycle(C)
<1>1. PICK C \in SUBSET {s \in Requests : pc[s] = "insert"} :
        /\ r \in C
        /\ \A s \in C : (\E t \in C : WaitsFor(s, t)) /\ (\E t \in C : WaitsFor(t, s))
  BY DEF Deadlocked
<1> DEFINE next == [x \in C |-> CHOOSE y \in C : WaitsFor(x, y)]
<1>2. C \in SUBSET Requests /\ IsFiniteSet(C)
  BY FS_Subset
<1>3. \A x \in C : next[x] \in C /\ WaitsFor(x, next[x])
  BY <1>1
<1>4. \A x \in C, s \in Requests : WaitsFor(x, s) <=> s = next[x]
  <2> HIDE DEF next
  <2> QED BY <1>2, <1>3, OneWait DEF WaitsForOne
<1>5. next \in Surjection(C, C)
  <2>1. next \in [C -> C] BY <1>3
  <2>2. \A y \in C : \E x \in C : next[x] = y
    <3> HIDE DEF next
    <3> QED BY <1>1, <1>2, <1>4
  <2> HIDE DEF next
  <2> QED BY <2>1, <2>2 DEF Surjection
<1> HIDE DEF next
<1>6. next \in Bijection(C, C)
  BY <1>2, <1>5, FS_SurjSameCardinalityImpliesInj DEF Bijection
<1>7. \A x \in C : pc[x] = "insert" /\ Op(x) = "reschedule"
  BY <1>1, WhoIsWaitedFor DEF WaitsOn
<1>8. MovesInACycle(C)
  <2>1. \A x \in C : /\ pc[x] = "insert" /\ Op(x) = "reschedule"
                    /\ \A s \in Requests : WaitsFor(x, s) <=> s = next[x]
    BY <1>4, <1>7
  <2> QED BY <1>6, <2>1 DEF MovesInACycle
<1> QED BY <1>1, <1>2, <1>8

\* The comment of DeadlockVictim, for every number of requests: what the
\* database finds is a cycle, and those in it are administrators' moves.
THEOREM DeadlocksAreCyclesOfMoves ==
  ASSUME IsFiniteSet(Requests)
  PROVE  Spec => []DeadlocksAreCycles
<1>1. Inv => DeadlocksAreCycles
  BY CycleOf DEF DeadlocksAreCycles
<1> QED BY <1>1, Invariance, PTL

\* A transaction waits for at most one other, so that a deadlock is a set of
\* cycles and no more are aborted than it takes to break them.
THEOREM WaitsAreForOne == Spec => []WaitsForOne
BY Invariance, OneWait, PTL

\* A wait for somebody who waits himself is for a row he has locked: it stays
\* until one of the two takes a step, for nobody else can change that row.
LEMMA WaitsLast ==
  ASSUME Inv, NEW z \in Requests, Handle(z) \/ Fail(z),
         NEW x \in Requests \ {z}, NEW y \in Requests \ {z},
         pc[y] = "insert", WaitsFor(x, y)
  PROVE  WaitsFor(x, y)'
<1>1. PICK b \in Requests : Active(b) /\ HasKey(b, x) /\ Holds(y, b)
  BY DEF WaitsFor, Inserted
<1>2. PICK step \in Steps \cup Answers : pc' = [pc EXCEPT ![z] = step]
  BY HandleFrame
<1>3. UNCHANGED call
  BY HandleFrame
<1>4. pc'[x] = "insert" /\ Holds(y, b)'
  BY <1>1, <1>2, <1>3, OthersKeep DEF Inv, TypeOK, WaitsFor
<1>5. bookings'[b] = bookings[b]
  <2>1. CASE Commit(z)
    <3>1. b # z /\ bookings[b] # Null
      BY <1>1, <2>1, CommitRows DEF Inv, SlotInv, Active
    <3>2. ~ Holds(z, b) BY <1>1 DEF Inv, SlotInv, LockExclusive
    <3>3. pc[z] = "commit" BY <2>1 DEF Commit
    <3> QED BY <2>1, <3>1, <3>2, <3>3, CommitRows DEF Inv, SlotInv, Holds
  <2>2. CASE UNCHANGED bookings BY <2>2
  <2> QED BY <2>1, <2>2, HandleFrame
<1>6. Active(b)' /\ HasKey(b, x)'
  BY <1>1, <1>3, <1>5 DEF Active, HasKey, OrgFor
<1> QED BY <1>4, <1>6 DEF WaitsFor

\* Who is in a deadlock cannot take a step but be aborted or fail.
LEMMA DeadlockedAreStuck ==
  ASSUME Inv, NEW r \in Requests, pc[r] = "insert", NEW s \in Requests, WaitsFor(r, s),
         Handle(r) \/ Fail(r)
  PROVE  pc'[r] = "error"
BY DEF Handle, ReadBooking, ReadOrg, CheckGrid, CheckExceptions, FlushCancel, FlushInsert,
       Commit, Respond, DeadlockVictim, Fail, Goto, Inv, TypeOK

LEMMA DeadlockLasts ==
  ASSUME Inv, [Next]_vars, NEW r \in Requests, Deadlocked(r),
         \A s \in Requests : Deadlocked(s) => pc'[s] # "error"
  PROVE  Deadlocked(r)'
<1>1. PICK C \in SUBSET {s \in Requests : pc[s] = "insert"} :
        /\ r \in C
        /\ \A s \in C : (\E t \in C : WaitsFor(s, t)) /\ (\E t \in C : WaitsFor(t, s))
  BY DEF Deadlocked
<1>2. \A s \in C : s \in Requests /\ pc[s] = "insert" /\ Deadlocked(s)
  BY <1>1 DEF Deadlocked
<1>3. (\A s \in C : pc'[s] = "insert") /\ (\A x, y \in C : WaitsFor(x, y) => WaitsFor(x, y)')
  <2>1. ASSUME NEW z \in Requests, Arrive(z)
        PROVE  (\A s \in C : pc'[s] = "insert") /\ (\A x, y \in C : WaitsFor(x, y) => WaitsFor(x, y)')
    <3>1. /\ pc[z] = "idle" /\ UNCHANGED bookings
          /\ \A x \in Requests \ {z} : pc'[x] = pc[x] /\ call'[x] = call[x]
      BY <2>1, ArriveFrame DEF Goto, Inv, TypeOK
    <3>2. z \notin C BY <1>2, <3>1
    <3>3. \A s \in C : pc'[s] = pc[s] /\ call'[s] = call[s] BY <1>2, <3>1, <3>2
    <3>4. ASSUME NEW x \in C, NEW y \in C, WaitsFor(x, y) PROVE WaitsFor(x, y)'
      BY <1>2, <3>1, <3>3, <3>4
      DEF WaitsFor, Inserted, SameKey, Active, HasKey, Holds, Op, Target, OrgFor
    <3> QED BY <1>2, <3>3, <3>4
  <2>2. ASSUME NEW z \in Requests, Handle(z) \/ Fail(z)
        PROVE  (\A s \in C : pc'[s] = "insert") /\ (\A x, y \in C : WaitsFor(x, y) => WaitsFor(x, y)')
    <3>1. z \notin C
      <4> SUFFICES ASSUME z \in C PROVE FALSE
        OBVIOUS
      <4>1. pc'[z] = "error" BY <1>1, <1>2, <2>2, DeadlockedAreStuck
      <4> QED BY <1>2, <4>1
    <3>2. \A s \in C : pc'[s] = "insert"
      BY <1>2, <2>2, <3>1, HandleFrame DEF Inv, TypeOK
    <3>3. ASSUME NEW x \in C, NEW y \in C, WaitsFor(x, y) PROVE WaitsFor(x, y)'
      BY <1>2, <2>2, <3>1, <3>3, WaitsLast
    <3> QED BY <3>2, <3>3
  <2>3. ASSUME UNCHANGED <<bookings, pc, call>>
        PROVE  (\A s \in C : pc'[s] = "insert") /\ (\A x, y \in C : WaitsFor(x, y) => WaitsFor(x, y)')
    BY <1>2, <2>3 DEF WaitsFor, Inserted, SameKey, Active, HasKey, Holds, Op, Target, OrgFor
  <2> QED BY <2>1, <2>2, <2>3, NextCases, AdministerFrame DEF Tick, vars
<1>4. C \in SUBSET {s \in Requests : pc'[s] = "insert"}
  BY <1>2, <1>3
<1>5. \A s \in C : (\E t \in C : WaitsFor(s, t)') /\ (\E t \in C : WaitsFor(t, s)')
  BY <1>1, <1>3
<1> QED
  <2> SUFFICES \E D \in SUBSET {s \in Requests : pc'[s] = "insert"} :
                 /\ r \in D
                 /\ \A s \in D : (\E t \in D : WaitsFor(s, t)') /\ (\E t \in D : WaitsFor(t, s)')
    BY DEF Deadlocked
  <2> QED BY <1>1, <1>4, <1>5

\* A deadlock is one for good: without the database's abort (or the failure
\* of one in it) the requests in it would never be answered.
THEOREM DeadlocksNeedAborts == Spec => OnlyAbortsEndDeadlock
<1>1. Inv /\ [Next]_vars =>
        \A r \in Requests : Deadlocked(r) /\ ~ Deadlocked(r)'
          => \E s \in Requests : Deadlocked(s) /\ pc'[s] = "error"
  BY DeadlockLasts
<1> QED BY <1>1, Invariance, PTL DEF Spec, OnlyAbortsEndDeadlock

\* How far a request has come.
Position(place) ==
  CASE place = "idle" -> 0
    [] place = "read" -> 1
    [] place = "window" -> 2
    [] place = "grid" -> 3
    [] place = "exceptions" -> 4
    [] place = "update" -> 5
    [] place = "insert" -> 6
    [] place = "commit" -> 7
    [] place = "refresh" -> 8
    [] place \in Answers -> 9

Advances == \A r \in Requests : pc'[r] = pc[r] \/ Position(pc[r]) < Position(pc'[r])

\* No handler goes back to a statement: it retries nothing, and is answered
\* after nine steps at most.
THEOREM RequestsAdvance == Spec => [][Advances]_vars
<1>1. TypeOK /\ CallOK /\ [Next]_vars => [Advances]_vars
  <2> SUFFICES ASSUME TypeOK, CallOK, [Next]_vars PROVE Advances
    OBVIOUS
  <2>1. ASSUME NEW r \in Requests, Arrive(r) PROVE Advances
    <3>1. pc[r] = "idle" /\ \E step \in {"window", "read", "forbidden"} : Goto(r, step)
      BY <2>1, ArriveFrame
    <3> QED BY <3>1 DEF Advances, Goto, TypeOK, Position, Answers
  <2>2. ASSUME NEW r \in Requests, Handle(r) \/ Fail(r) PROVE Advances
    <3>1. \E step \in Steps \cup Answers : Goto(r, step) BY <2>2, HandleFrame DEF Goto
    <3>2. Position(pc[r]) < Position(pc'[r])
      <4> USE DEF Goto, TypeOK, Position, Answers
      <4>1. CASE ReadBooking(r) BY <4>1 DEF ReadBooking
      <4>2. CASE ReadOrg(r) BY <4>2 DEF ReadOrg
      <4>3. CASE CheckGrid(r) BY <4>3 DEF CheckGrid
      <4>4. CASE CheckExceptions(r) BY <4>4 DEF CheckExceptions
      <4>5. CASE FlushCancel(r) BY <4>5 DEF FlushCancel
      <4>6. CASE FlushInsert(r) BY <4>6 DEF FlushInsert
      <4>7. CASE Commit(r) BY <4>7 DEF Commit
      <4>8. CASE Respond(r) BY <4>8 DEF Respond
      <4>9. CASE DeadlockVictim(r) BY <4>9 DEF DeadlockVictim, Deadlocked
      <4>10. CASE Fail(r) BY <4>10 DEF Fail, Steps
      <4> QED BY <2>2, <4>1, <4>2, <4>3, <4>4, <4>5, <4>6, <4>7, <4>8, <4>9, <4>10 DEF Handle
    <3> QED BY <3>1, <3>2 DEF Advances, Goto, TypeOK
  <2>3. CASE Administer BY <2>3, AdministerFrame DEF Advances
  <2>4. CASE Tick BY <2>4 DEF Tick, Advances
  <2>5. CASE UNCHANGED vars BY <2>5 DEF vars, Advances
  <2> QED BY <2>1, <2>2, <2>3, <2>4, <2>5, NextCases
<1>2. Spec => [](TypeOK /\ CallOK)
  BY TypeInit, TypeNext, PTL DEF Spec
<1> QED BY <1>1, <1>2, PTL DEF Spec
==============================================================================
