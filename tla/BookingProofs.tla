---------------------------- MODULE BookingProofs ----------------------------
(***************************************************************************)
(* Proofs about BookingService, for every set of organisations, users and  *)
(* requests and every behaviour of the clients and the administrators.     *)
(***************************************************************************)
EXTENDS BookingService, TLAPS

-----------------------------------------------------------------------------
(***************************************************************************)
(* The configuration stays within its tables' domains, whatever            *)
(* administrators may write.                                               *)
(***************************************************************************)
LEMMA ConfigTypeInit == ConfigInit => ConfigTypeOK
BY ConfigurationAssumption DEF ConfigInit, ConfigTypeOK

\* What a replacement leaves over are rules that were there.
LEMMA LeftoversAreRules ==
  ASSUME NEW o \in Orgs, NEW kept \in Leftovers(o)
  PROVE  kept \subseteq rules[o]
BY DEF Leftovers

LEMMA ConfigTypeStep == ConfigTypeOK /\ Configure => ConfigTypeOK'
<1> SUFFICES ASSUME ConfigTypeOK, Configure PROVE ConfigTypeOK'
  OBVIOUS
<1> USE DEF ConfigTypeOK
<1>1. PICK o \in Orgs :
        \/ UpdateOrg(o) \/ ReplaceGrid(o)
        \/ \E e \in ExceptionChoices :
             \/ CreateException(o, e) \/ DeleteException(o, e)
             \/ \E f \in ExceptionChoices : UpdateException(o, e, f)
  BY DEF Configure
<1>2. CASE UpdateOrg(o)
  <2>1. PICK row \in Patched(o) : settings' = [settings EXCEPT ![o] = row]
    BY <1>2 DEF UpdateOrg
  <2>2. row \in Settings
    BY <2>1, ConfigurationAssumption DEF Patched, Settings
  <2> QED BY <1>2, <2>1, <2>2 DEF UpdateOrg
<1>3. CASE ReplaceGrid(o)
  <2>1. PICK grid \in Replaced(o) : rules' = [rules EXCEPT ![o] = grid]
    BY <1>3 DEF ReplaceGrid
  <2>2. PICK new \in GridChoices, kept \in Leftovers(o) : grid = kept \cup new
    BY <2>1 DEF Replaced
  <2>3. grid \subseteq Rules
    BY <2>2, LeftoversAreRules, ConfigurationAssumption
  <2> QED BY <1>3, <2>1, <2>3 DEF ReplaceGrid
<1>4. ASSUME NEW e \in ExceptionChoices, CreateException(o, e) PROVE ConfigTypeOK'
  BY <1>4, ConfigurationAssumption DEF CreateException
<1>5. ASSUME NEW e \in ExceptionChoices, DeleteException(o, e) PROVE ConfigTypeOK'
  BY <1>5 DEF DeleteException
<1>6. ASSUME NEW e \in ExceptionChoices, NEW f \in ExceptionChoices,
             UpdateException(o, e, f)
      PROVE  ConfigTypeOK'
  BY <1>6, ConfigurationAssumption DEF UpdateException
<1> QED BY <1>1, <1>2, <1>3, <1>4, <1>5, <1>6

-----------------------------------------------------------------------------
(***************************************************************************)
(* What the steps leave alone.                                             *)
(***************************************************************************)
LEMMA CallFacts ==
  ASSUME NEW r \in Requests, call[r] \in CallType
  PROVE  /\ Op(r) \in Ops /\ Actor(r) \in Users /\ OrgFor(r) \in Orgs
         /\ Op(r) # "create" => Target(r) \in Requests
         /\ call[r].start \in Starts /\ call[r].start \in Int
BY ServiceAssumption DEF CallType, Op, Actor, OrgFor, Target

LEMMA ArriveFrame ==
  ASSUME NEW r \in Requests, Arrive(r)
  PROVE  /\ pc[r] = "idle"
         /\ UNCHANGED <<clock, settings, rules, exceptions, bookings>>
         /\ \E c \in CallType :
              /\ call' = [call EXCEPT ![r] = c]
              /\ local' = [local EXCEPT ![r].owner = c.actor]
              /\ inForce' = [inForce EXCEPT ![r] = exceptions[OrgOf[c.actor]]]
              /\ c.actor \in Users /\ OrgOf[c.actor] \in Orgs
              /\ \/ c.op = "create" /\ Goto(r, "window")
                 \/ c.op = "cancel" /\ Goto(r, "read")
                 \/ c.op = "reschedule" /\ c.actor \in Admins /\ Goto(r, "read")
                 \/ c.op = "reschedule" /\ Goto(r, "forbidden")
<1>1. PICK c \in Calls[r] :
        /\ call' = [call EXCEPT ![r] = c]
        /\ local' = [local EXCEPT ![r].owner = c.actor]
        /\ inForce' = [inForce EXCEPT ![r] = exceptions[OrgOf[c.actor]]]
        /\ Goto(r, CASE c.op = "create" -> "window"
                     [] c.op = "cancel" -> "read"
                     [] c.op = "reschedule" ->
                          IF c.actor \in Admins THEN "read" ELSE "forbidden")
  BY DEF Arrive
<1>2. c \in CallType /\ c.op \in Ops /\ c.actor \in Users /\ OrgOf[c.actor] \in Orgs
  BY <1>1, ServiceAssumption DEF CallType
<1>3. \/ c.op = "create" /\ Goto(r, "window")
      \/ c.op = "cancel" /\ Goto(r, "read")
      \/ c.op = "reschedule" /\ c.actor \in Admins /\ Goto(r, "read")
      \/ c.op = "reschedule" /\ Goto(r, "forbidden")
  BY <1>1, <1>2 DEF Ops
<1> QED BY <1>1, <1>2, <1>3 DEF Arrive, config

\* A statement moves its own request, and only a commit changes rows.
LEMMA HandleFrame ==
  ASSUME NEW r \in Requests, Handle(r) \/ Fail(r)
  PROVE  /\ pc[r] \in Steps
         /\ \E step \in Steps \cup Answers : pc' = [pc EXCEPT ![r] = step]
         /\ UNCHANGED <<clock, settings, rules, exceptions, call, inForce>>
         /\ Commit(r) \/ UNCHANGED bookings
         /\ ReadBooking(r) \/ ReadOrg(r) \/ CheckExceptions(r) \/ UNCHANGED local
<1> USE DEF Goto, config, Steps, Answers
<1>1. CASE ReadBooking(r)
  <2>1. \E step \in Steps \cup Answers : Goto(r, step) BY <1>1 DEF ReadBooking
  <2> QED BY <1>1, <2>1 DEF ReadBooking
<1>2. CASE ReadOrg(r) BY <1>2 DEF ReadOrg
<1>3. CASE CheckGrid(r) BY <1>3 DEF CheckGrid
<1>4. CASE CheckExceptions(r) BY <1>4 DEF CheckExceptions
<1>5. CASE FlushCancel(r) BY <1>5 DEF FlushCancel
<1>6. CASE FlushInsert(r) BY <1>6 DEF FlushInsert
<1>7. CASE Commit(r) BY <1>7 DEF Commit
<1>8. CASE Respond(r) BY <1>8 DEF Respond
<1>9. CASE DeadlockVictim(r) BY <1>9 DEF DeadlockVictim, Deadlocked, WaitsFor
<1>10. CASE Fail(r) BY <1>10 DEF Fail
<1> QED BY <1>1, <1>2, <1>3, <1>4, <1>5, <1>6, <1>7, <1>8, <1>9, <1>10 DEF Handle

\* Administrators, the clock and the end of a run do not touch requests.
LEMMA AdministerFrame ==
  ASSUME Administer PROVE UNCHANGED <<clock, bookings, pc, call, local>>
BY DEF Administer

LEMMA NextCases ==
  ASSUME [Next]_vars
  PROVE  \/ \E r \in Requests : Arrive(r)
         \/ \E r \in Requests : Handle(r) \/ Fail(r)
         \/ Administer
         \/ Tick
         \/ UNCHANGED vars
BY DEF Next, AllAnswered

-----------------------------------------------------------------------------
(***************************************************************************)
(* Type correctness.                                                       *)
(***************************************************************************)
\* A request that has arrived has a call and knows whose booking it makes;
\* past its reading of the target, the target's row is there.
CallOK ==
  \A r \in Requests : pc[r] # "idle" =>
    /\ call[r] \in CallType /\ local[r].owner \in Users
    /\ Op(r) # "create" /\ pc[r] \in Steps \ {"read"} => bookings[Target(r)] # Null

LEMMA NewRow ==
  ASSUME TypeOK, CallOK, NEW r \in Requests, pc[r] # "idle"
  PROVE  NewBooking(r) \in BookingRows /\ NewBooking(r) # Null
<1>1. call[r] \in CallType /\ local[r].owner \in Users
  BY DEF CallOK
<1>2. local[r].duration * Minute \in Int
  BY CalendarAssumption DEF TypeOK
<1>3. Slot(r).start \in Starts /\ Slot(r).end \in Int
  BY <1>1, <1>2, CallFacts DEF Slot, SlotAt
<1> QED BY <1>1, <1>3, CallFacts, NullAssumption DEF NewBooking, BookingRows

LEMMA TypeInit == Init => TypeOK /\ CallOK
BY ConfigTypeInit DEF Init, TypeOK, CallOK

LEMMA TypeNext == TypeOK /\ CallOK /\ [Next]_vars => TypeOK' /\ CallOK'
<1> SUFFICES ASSUME TypeOK, CallOK, [Next]_vars PROVE TypeOK' /\ CallOK'
  OBVIOUS
<1> USE DEF TypeOK, CallOK, ConfigTypeOK
<1> DEFINE PcType == [Requests -> {"idle"} \cup Steps \cup Answers]
           LocalType == [Requests -> [duration : Nat, owner : Users \cup {Null}, now : Nat]]
<1>1. ASSUME NEW r \in Requests, Arrive(r) PROVE TypeOK' /\ CallOK'
  <2>1. PICK c \in CallType :
           /\ call' = [call EXCEPT ![r] = c]
           /\ local' = [local EXCEPT ![r].owner = c.actor]
           /\ inForce' = [inForce EXCEPT ![r] = exceptions[OrgOf[c.actor]]]
           /\ c.actor \in Users /\ OrgOf[c.actor] \in Orgs
           /\ \/ c.op = "create" /\ Goto(r, "window")
              \/ c.op = "cancel" /\ Goto(r, "read")
              \/ c.op = "reschedule" /\ c.actor \in Admins /\ Goto(r, "read")
              \/ c.op = "reschedule" /\ Goto(r, "forbidden")
    BY <1>1, ArriveFrame
  <2>2. UNCHANGED <<clock, settings, rules, exceptions, bookings>>
    BY <1>1, ArriveFrame
  <2>3. pc' \in PcType
    BY <2>1 DEF Goto, Steps, Answers
  <2>4. local' \in LocalType
    BY <2>1
  <2>5. call' \in [Requests -> CallType \cup {Null}]
    BY <2>1
  <2>6. inForce' \in [Requests -> SUBSET Ranges]
    BY <2>1
  <2>7. CallOK'
    <3> SUFFICES ASSUME NEW s \in Requests, pc'[s] # "idle"
                 PROVE  /\ call'[s] \in CallType /\ local'[s].owner \in Users
                        /\ Op(s)' # "create" /\ pc'[s] \in Steps \ {"read"}
                           => bookings[Target(s)'] # Null
      BY <2>2 DEF Target
    <3>1. CASE s = r
      BY <2>1, <3>1 DEF Goto, Op, Steps
    <3>2. CASE s # r
      <4>1. pc'[s] = pc[s] /\ call'[s] = call[s] /\ local'[s] = local[s]
        BY <2>1, <3>2 DEF Goto
      <4> QED BY <4>1 DEF Op, Target
    <3> QED BY <3>1, <3>2
  <2> QED BY <2>2, <2>3, <2>4, <2>5, <2>6, <2>7
<1>2. ASSUME NEW r \in Requests, Handle(r) \/ Fail(r) PROVE TypeOK' /\ CallOK'
  <2>1. /\ pc[r] \in Steps
        /\ UNCHANGED <<clock, settings, rules, exceptions, call, inForce>>
    BY <1>2, HandleFrame
  <2>2. PICK step \in Steps \cup Answers : pc' = [pc EXCEPT ![r] = step]
    BY <1>2, HandleFrame
  <2>3. call[r] \in CallType /\ local[r].owner \in Users
    BY <2>1 DEF Steps
  <2>4. pc' \in PcType
    BY <2>2
  <2>5. local' \in LocalType /\ \A s \in Requests : pc[s] # "idle" => local'[s].owner \in Users
    <3>1. CASE ReadBooking(r)
      <4>1. CASE UNCHANGED local BY <4>1
      <4>2. CASE local' = [local EXCEPT ![r].now = clock] BY <4>2
      <4>3. CASE /\ Active(Target(r)) /\ Op(r) = "reschedule"
                 /\ local' = [local EXCEPT ![r].owner = bookings[Target(r)].user]
        <5>1. bookings[Target(r)].user \in Users
          BY <2>3, <4>3, CallFacts DEF Active, BookingRows
        <5> QED BY <4>3, <5>1
      <4> QED BY <3>1, <4>1, <4>2, <4>3 DEF ReadBooking
    <3>2. CASE ReadOrg(r)
      <4>1. settings[OrgFor(r)].duration \in Nat
        BY <2>3, CallFacts DEF Settings
      <4> QED BY <3>2, <4>1 DEF ReadOrg
    <3>3. CASE CheckExceptions(r)
      BY <3>3 DEF CheckExceptions
    <3>4. CASE UNCHANGED local BY <3>4
    <3> QED BY <1>2, <3>1, <3>2, <3>3, <3>4, HandleFrame
  <2>6. /\ bookings' \in [Requests -> BookingRows \cup {Null}]
        /\ \A b \in Requests : bookings[b] # Null => bookings'[b] # Null
    <3>1. CASE Commit(r)
      <4>1. pc[r] = "commit" /\ bookings' = [b \in Requests |->
              CASE Holds(r, b) -> Cancelled(r, bookings[b])
                [] ~ Holds(r, b) /\ b = r /\ Inserted(r) -> NewBooking(r)
                [] OTHER -> bookings[b]]
        BY <3>1 DEF Commit
      <4>2. ASSUME NEW b \in Requests, Holds(r, b)
            PROVE  Cancelled(r, bookings[b]) \in BookingRows
        <5>1. bookings[b] \in BookingRows
          BY <2>1, <4>1, <4>2 DEF Holds, Steps
        <5>2. local[r].now \in Int /\ Actor(r) \in Users
          BY <2>3, CallFacts
        <5> QED BY <5>1, <5>2 DEF Cancelled, BookingRows
      <4>3. NewBooking(r) \in BookingRows
        BY <2>1, NewRow DEF Steps
      <4> QED BY <4>1, <4>2, <4>3, NullAssumption
    <3>2. CASE UNCHANGED bookings BY <3>2
    <3> QED BY <1>2, <3>1, <3>2, HandleFrame
  <2>7. CallOK'
    <3> SUFFICES ASSUME NEW s \in Requests, pc'[s] # "idle"
                 PROVE  /\ call[s] \in CallType /\ local'[s].owner \in Users
                        /\ Op(s) # "create" /\ pc'[s] \in Steps \ {"read"}
                           => bookings'[Target(s)] # Null
      BY <2>1 DEF Op, Target
    <3>1. pc[s] # "idle" BY <2>1, <2>2 DEF Steps
    <3>2. call[s] \in CallType /\ local'[s].owner \in Users BY <3>1, <2>5
    <3>3. ASSUME Op(s) # "create", pc'[s] \in Steps \ {"read"}
          PROVE  bookings[Target(s)] # Null
      <4>1. CASE pc[s] # "read"
        <5>1. pc[s] \in Steps BY <2>1, <2>2, <3>3
        <5> QED BY <3>1, <3>3, <4>1, <5>1
      <4>2. CASE pc[s] = "read"
        <5>1. s = r BY <2>2, <3>3, <4>2
        <5>2. ReadBooking(r) \/ Fail(r)
          BY <1>2, <4>2, <5>1 DEF Handle, ReadOrg, CheckGrid, CheckExceptions,
            FlushCancel, FlushInsert, Commit, Respond, DeadlockVictim, Deadlocked, WaitsFor
        <5>3. pc'[r] \notin {"error", "notfound", "conflict", "forbidden"}
          BY <3>3, <5>1 DEF Steps
        <5>4. Visible(r)
          BY <5>2, <5>3 DEF Fail, ReadBooking, Goto
        <5> QED BY <5>1, <5>4 DEF Visible
      <4> QED BY <4>1, <4>2
    <3> QED BY <2>6, <3>2, <3>3, CallFacts
  <2> QED BY <2>1, <2>4, <2>5, <2>6, <2>7
<1>3. ASSUME Administer PROVE TypeOK' /\ CallOK'
  <2>1. UNCHANGED <<clock, bookings, pc, call, local>>
    BY <1>3, AdministerFrame
  <2>2. ConfigTypeOK'
    BY <1>3, ConfigTypeStep DEF Administer
  <2>3. inForce' \in [Requests -> SUBSET Ranges]
    BY <1>3 DEF Administer
  <2>4. CallOK'
    BY <2>1 DEF Op, Target
  <2> QED BY <2>1, <2>2, <2>3, <2>4
<1>4. CASE Tick
  BY <1>4 DEF Tick, config, Op, Target
<1>5. CASE UNCHANGED vars
  BY <1>5 DEF vars, Op, Target
<1> QED BY <1>1, <1>2, <1>3, <1>4, <1>5, NextCases

\* The tables hold rows of their declared columns and every handler is at one
\* of its statements, whatever the requests, the failures and the reconfigurations.
THEOREM TypeCorrect == Spec => []TypeOK
<1>1. Spec => [](TypeOK /\ CallOK)
  BY TypeInit, TypeNext, PTL DEF Spec
<1> QED BY <1>1, PTL

-----------------------------------------------------------------------------
(***************************************************************************)
(* One active booking per slot (RF-4.2).                                   *)
(*                                                                         *)
(* The index looks at committed rows and at running transactions, so the   *)
(* invariant has to say what the locks guarantee in between: a row is      *)
(* held by one transaction, and a transaction that has inserted its row    *)
(* is the only one with that key and holds every active row with it.       *)
(***************************************************************************)
PhaseOK ==
  \A r \in Requests :
    /\ pc[r] \in {"read", "update"} => Op(r) # "create"
    /\ pc[r] \in {"window", "grid", "exceptions", "insert"} => Op(r) # "cancel"

FreshRows == \A r \in Requests : bookings[r] # Null => pc[r] \in {"refresh", "ok", "error"}

LockExclusive == \A r, s, b \in Requests : Holds(r, b) /\ Holds(s, b) => r = s

KeyExclusive ==
  \A r \in Requests : Inserted(r) =>
    /\ \A s \in Requests : Inserted(s) /\ SameKey(r, s) => s = r
    /\ \A b \in Requests : Active(b) /\ HasKey(b, r) => Holds(r, b)

SlotInv == PhaseOK /\ FreshRows /\ LockExclusive /\ KeyExclusive /\ OneActivePerSlot

Inv == TypeOK /\ CallOK /\ SlotInv

LEMMA PhaseNext == TypeOK /\ CallOK /\ PhaseOK /\ [Next]_vars => PhaseOK'
<1> SUFFICES ASSUME TypeOK, CallOK, PhaseOK, [Next]_vars PROVE PhaseOK'
  OBVIOUS
<1>1. ASSUME NEW r \in Requests, Arrive(r) PROVE PhaseOK'
  <2>1. PICK c \in CallType :
           /\ call' = [call EXCEPT ![r] = c]
           /\ \/ c.op = "create" /\ Goto(r, "window")
              \/ c.op = "cancel" /\ Goto(r, "read")
              \/ c.op = "reschedule" /\ c.actor \in Admins /\ Goto(r, "read")
              \/ c.op = "reschedule" /\ Goto(r, "forbidden")
    BY <1>1, ArriveFrame
  <2> QED BY <2>1 DEF PhaseOK, TypeOK, Goto, Op
<1>2. ASSUME NEW r \in Requests, Handle(r) \/ Fail(r) PROVE PhaseOK'
  <2>1. PICK step \in Steps \cup Answers : pc' = [pc EXCEPT ![r] = step]
    BY <1>2, HandleFrame
  <2>2. UNCHANGED call
    BY <1>2, HandleFrame
  <2>3. Op(r) \in Ops
    BY <1>2, HandleFrame, CallFacts DEF CallOK, Steps
  <2>4. /\ step \in {"read", "update"} => Op(r) # "create"
        /\ step \in {"window", "grid", "exceptions", "insert"} => Op(r) # "cancel"
    <3>1. pc'[r] = step BY <2>1 DEF TypeOK
    <3>2. CASE ReadBooking(r) BY <2>3, <3>1, <3>2 DEF ReadBooking, Goto, PhaseOK, TypeOK
    <3>3. CASE ReadOrg(r) BY <2>3, <3>1, <3>3 DEF ReadOrg, Goto, PhaseOK, TypeOK
    <3>4. CASE CheckGrid(r) BY <2>3, <3>1, <3>4 DEF CheckGrid, Goto, PhaseOK, TypeOK
    <3>5. CASE CheckExceptions(r) BY <3>1, <3>5 DEF CheckExceptions, Goto, TypeOK
    <3>6. CASE FlushCancel(r) BY <3>1, <3>6 DEF FlushCancel, Goto, TypeOK
    <3>7. CASE FlushInsert(r) BY <3>1, <3>7 DEF FlushInsert, Goto, TypeOK
    <3>8. CASE Commit(r) BY <3>1, <3>8 DEF Commit, Goto, TypeOK
    <3>9. CASE Respond(r) BY <3>1, <3>9 DEF Respond, Goto, TypeOK
    <3>10. CASE DeadlockVictim(r) BY <3>1, <3>10 DEF DeadlockVictim, Goto, TypeOK
    <3>11. CASE Fail(r) BY <3>1, <3>11 DEF Fail, Goto, TypeOK
    <3> QED BY <1>2, <3>2, <3>3, <3>4, <3>5, <3>6, <3>7, <3>8, <3>9, <3>10, <3>11 DEF Handle
  <2> QED BY <2>1, <2>2, <2>4 DEF PhaseOK, TypeOK, Op
<1>3. ASSUME Administer PROVE PhaseOK'
  BY <1>3, AdministerFrame DEF PhaseOK, Op
<1>4. CASE Tick BY <1>4 DEF Tick, PhaseOK, Op
<1>5. CASE UNCHANGED vars BY <1>5 DEF vars, PhaseOK, Op
<1> QED BY <1>1, <1>2, <1>3, <1>4, <1>5, NextCases

\* What a commit does to the table, for each kind of call.
LEMMA CommitRows ==
  ASSUME TypeOK, CallOK, FreshRows, NEW r \in Requests, Commit(r)
  PROVE  /\ bookings[r] = Null /\ call[r] \in CallType /\ Op(r) \in Ops
         /\ Op(r) # "create" => /\ Target(r) \in Requests /\ Target(r) # r
                                /\ bookings[Target(r)] \in BookingRows
         /\ \A b \in Requests :
              bookings'[b] = IF Op(r) # "create" /\ b = Target(r)
                               THEN Cancelled(r, bookings[b])
                             ELSE IF Op(r) # "cancel" /\ b = r
                               THEN NewBooking(r)
                             ELSE bookings[b]
<1>1. pc[r] = "commit" BY DEF Commit
<1>2. call[r] \in CallType /\ bookings[r] = Null
  BY <1>1 DEF CallOK, FreshRows
<1>3. Op(r) \in Ops /\ (Op(r) # "create" => Target(r) \in Requests)
  BY <1>2, CallFacts
<1>4. Op(r) # "create" => bookings[Target(r)] \in BookingRows /\ Target(r) # r
  BY <1>1, <1>2, <1>3 DEF CallOK, Steps, TypeOK
<1>5. \A b \in Requests : Holds(r, b) <=> Op(r) # "create" /\ b = Target(r)
  BY <1>1 DEF Holds
<1>6. Inserted(r) <=> Op(r) # "cancel"
  BY <1>1 DEF Inserted
<1> QED BY <1>2, <1>3, <1>4, <1>5, <1>6 DEF Commit

LEMMA FreshNext == TypeOK /\ CallOK /\ FreshRows /\ [Next]_vars => FreshRows'
<1> SUFFICES ASSUME TypeOK, CallOK, FreshRows, [Next]_vars PROVE FreshRows'
  OBVIOUS
<1>1. ASSUME NEW r \in Requests, Arrive(r) PROVE FreshRows'
  <2>1. pc[r] = "idle" /\ UNCHANGED bookings /\ \E step : Goto(r, step)
    BY <1>1, ArriveFrame
  <2> QED BY <2>1 DEF FreshRows, Goto, TypeOK
<1>2. ASSUME NEW r \in Requests, Handle(r) \/ Fail(r) PROVE FreshRows'
  <2>1. PICK step \in Steps \cup Answers : pc' = [pc EXCEPT ![r] = step]
    BY <1>2, HandleFrame
  <2>2. CASE Commit(r)
    <3>1. pc' = [pc EXCEPT ![r] = "refresh"] BY <2>2 DEF Commit, Goto
    <3>2. ASSUME NEW b \in Requests, bookings'[b] # Null, b # r PROVE bookings[b] # Null
      BY <2>2, <3>2, CommitRows, NullAssumption
    <3> QED BY <3>1, <3>2 DEF FreshRows, TypeOK
  <2>3. CASE UNCHANGED bookings
    <3>1. bookings[r] # Null => pc'[r] \in {"refresh", "ok", "error"}
      <4> SUFFICES ASSUME bookings[r] # Null PROVE pc'[r] \in {"refresh", "ok", "error"}
        OBVIOUS
      <4>1. pc[r] = "refresh"
        BY <1>2, HandleFrame DEF FreshRows, Steps
      <4>2. Respond(r) \/ Fail(r)
        BY <1>2, <4>1 DEF Handle, ReadBooking, ReadOrg, CheckGrid, CheckExceptions,
          FlushCancel, FlushInsert, Commit, DeadlockVictim, Deadlocked, WaitsFor
      <4> QED BY <4>2 DEF Respond, Fail, Goto, TypeOK
    <3> QED BY <2>1, <2>3, <3>1 DEF FreshRows, TypeOK
  <2> QED BY <1>2, <2>2, <2>3, HandleFrame
<1>3. ASSUME Administer PROVE FreshRows'
  BY <1>3, AdministerFrame DEF FreshRows
<1>4. CASE Tick BY <1>4 DEF Tick, FreshRows
<1>5. CASE UNCHANGED vars BY <1>5 DEF vars, FreshRows
<1> QED BY <1>1, <1>2, <1>3, <1>4, <1>5, NextCases

\* A step of r cannot disturb what another request holds, or has inserted.
LEMMA OthersKeep ==
  ASSUME TypeOK, NEW r \in Requests, NEW s \in Requests, s # r,
         UNCHANGED call, NEW step, pc' = [pc EXCEPT ![r] = step]
  PROVE  /\ Inserted(s)' <=> Inserted(s)
         /\ \A b \in Requests : Holds(s, b)' <=> Holds(s, b)
BY DEF TypeOK, Inserted, Holds, Op, Target

\* The lock on a row stays with one request when r only takes free rows.
LEMMA LockStep ==
  ASSUME TypeOK, LockExclusive, NEW r \in Requests, UNCHANGED call,
         NEW step, pc' = [pc EXCEPT ![r] = step],
         \A b \in Requests : Holds(r, b)' => \A s \in Requests : Holds(s, b) => s = r
  PROVE  LockExclusive'
<1> SUFFICES ASSUME NEW s \in Requests, NEW t \in Requests, NEW b \in Requests,
                    Holds(s, b)', Holds(t, b)'
             PROVE  s = t
  BY DEF LockExclusive
<1>1. s # r => Holds(s, b) BY OthersKeep
<1>2. t # r => Holds(t, b) BY OthersKeep
<1> QED BY <1>1, <1>2 DEF LockExclusive

\* A step that changes no row, and from which r emerges with no more than it
\* had, or with no lock at all.
LEMMA LocksShrink ==
  ASSUME TypeOK, LockExclusive, KeyExclusive, OneActivePerSlot,
         NEW r \in Requests, UNCHANGED <<bookings, call>>,
         NEW step, pc' = [pc EXCEPT ![r] = step],
         step \notin {"insert", "commit"} \/ (step = "insert" /\ Op(r) = "create")
  PROVE  LockExclusive' /\ KeyExclusive' /\ OneActivePerSlot'
<1>1. ~ Inserted(r)' /\ \A b \in Requests : ~ Holds(r, b)'
  BY DEF TypeOK, Inserted, Holds, Op
<1>2. LockExclusive'
  BY <1>1, LockStep
<1>3. KeyExclusive'
  <2> SUFFICES ASSUME NEW s \in Requests, Inserted(s)'
               PROVE  /\ \A t \in Requests : Inserted(t)' /\ SameKey(s, t)' => t = s
                      /\ \A b \in Requests : Active(b)' /\ HasKey(b, s)' => Holds(s, b)'
    BY DEF KeyExclusive
  <2>1. s # r /\ Inserted(s) BY <1>1, OthersKeep
  <2>2. ASSUME NEW t \in Requests, Inserted(t)', SameKey(s, t)' PROVE t = s
    <3>1. Inserted(t) BY <1>1, <2>2, OthersKeep
    <3>2. SameKey(s, t) BY <2>2 DEF SameKey, OrgFor
    <3> QED BY <2>1, <3>1, <3>2 DEF KeyExclusive
  <2>3. ASSUME NEW b \in Requests, Active(b)', HasKey(b, s)' PROVE Holds(s, b)'
    <3>1. Active(b) /\ HasKey(b, s) BY <2>3 DEF Active, HasKey, OrgFor
    <3> QED BY <2>1, <3>1, OthersKeep DEF KeyExclusive
  <2> QED BY <2>2, <2>3
<1>4. OneActivePerSlot'
  BY DEF OneActivePerSlot, Active
<1> QED BY <1>2, <1>3, <1>4

LEMMA FlushCancelKeeps ==
  ASSUME TypeOK, CallOK, SlotInv, NEW r \in Requests, FlushCancel(r)
  PROVE  LockExclusive' /\ KeyExclusive' /\ OneActivePerSlot'
<1>1. /\ pc[r] = "update" /\ UNCHANGED <<bookings, call>>
      /\ \A s \in Requests : ~ Holds(s, Target(r))
  BY DEF FlushCancel
<1>2. PICK step \in {"insert", "commit"} : /\ pc' = [pc EXCEPT ![r] = step]
                                           /\ step = "commit" => Op(r) # "reschedule"
  BY DEF FlushCancel, Goto
<1>3. Op(r) \in {"cancel", "reschedule"}
  BY <1>1, CallFacts DEF CallOK, SlotInv, PhaseOK, Ops
<1>4. ~ Inserted(r)' /\ \A b \in Requests : Holds(r, b)' => b = Target(r)
  BY <1>1, <1>2, <1>3 DEF TypeOK, Inserted, Holds, Op, Target
<1>5. LockExclusive'
  BY <1>1, <1>2, <1>4, LockStep DEF SlotInv
<1>6. KeyExclusive'
  <2> SUFFICES ASSUME NEW s \in Requests, Inserted(s)'
               PROVE  /\ \A t \in Requests : Inserted(t)' /\ SameKey(s, t)' => t = s
                      /\ \A b \in Requests : Active(b)' /\ HasKey(b, s)' => Holds(s, b)'
    BY DEF KeyExclusive
  <2>1. s # r /\ Inserted(s) BY <1>1, <1>2, <1>4, OthersKeep
  <2>2. ASSUME NEW t \in Requests, Inserted(t)', SameKey(s, t)' PROVE t = s
    <3>1. Inserted(t) BY <1>1, <1>2, <1>4, <2>2, OthersKeep
    <3>2. SameKey(s, t) BY <1>1, <2>2 DEF SameKey, OrgFor
    <3> QED BY <2>1, <3>1, <3>2 DEF SlotInv, KeyExclusive
  <2>3. ASSUME NEW b \in Requests, Active(b)', HasKey(b, s)' PROVE Holds(s, b)'
    <3>1. Active(b) /\ HasKey(b, s) BY <1>1, <2>3 DEF Active, HasKey, OrgFor
    <3> QED BY <1>1, <1>2, <2>1, <3>1, OthersKeep DEF SlotInv, KeyExclusive
  <2> QED BY <2>2, <2>3
<1>7. OneActivePerSlot'
  BY <1>1 DEF SlotInv, OneActivePerSlot, Active
<1> QED BY <1>5, <1>6, <1>7

\* The index lets r's row in: from here to its commit nobody else has the key.
LEMMA FlushInsertKeeps ==
  ASSUME TypeOK, CallOK, SlotInv, NEW r \in Requests, FlushInsert(r), ~ SlotTaken(r)
  PROVE  LockExclusive' /\ KeyExclusive' /\ OneActivePerSlot'
<1>1. /\ pc[r] = "insert" /\ UNCHANGED <<bookings, call>>
      /\ \A s \in Requests : ~ WaitsFor(r, s)
      /\ pc' = [pc EXCEPT ![r] = "commit"]
  BY DEF FlushInsert, Goto
<1>2. Op(r) \in {"create", "reschedule"}
  BY <1>1, CallFacts DEF CallOK, SlotInv, PhaseOK, Ops
<1>3. \A b \in Requests : Holds(r, b)' <=> Holds(r, b)
  BY <1>1, <1>2 DEF TypeOK, Holds, Op, Target
<1>4. LockExclusive'
  BY <1>1, <1>3, LockStep DEF LockExclusive, SlotInv
<1>5. \A s \in Requests \ {r} : ~ (Inserted(s) /\ SameKey(r, s))
  BY <1>1 DEF WaitsFor
<1>6. \A b \in Requests : Active(b) /\ HasKey(b, r) => Holds(r, b)
  BY DEF SlotTaken
<1>7. KeyExclusive'
  <2> SUFFICES ASSUME NEW s \in Requests, Inserted(s)'
               PROVE  /\ \A t \in Requests : Inserted(t)' /\ SameKey(s, t)' => t = s
                      /\ \A b \in Requests : Active(b)' /\ HasKey(b, s)' => Holds(s, b)'
    BY DEF KeyExclusive
  <2>1. ASSUME NEW t \in Requests, Inserted(t)', SameKey(s, t)' PROVE t = s
    <3>1. SameKey(s, t) /\ SameKey(t, s) BY <1>1, <2>1 DEF SameKey, OrgFor
    <3>2. CASE s = r BY <1>1, <1>5, <2>1, <3>1, <3>2, OthersKeep
    <3>3. CASE t = r BY <1>1, <1>5, <3>1, <3>3, OthersKeep
    <3>4. CASE s # r /\ t # r
      BY <1>1, <2>1, <3>1, <3>4, OthersKeep DEF SlotInv, KeyExclusive
    <3> QED BY <3>2, <3>3, <3>4
  <2>2. ASSUME NEW b \in Requests, Active(b)', HasKey(b, s)' PROVE Holds(s, b)'
    <3>1. Active(b) /\ HasKey(b, s) BY <1>1, <2>2 DEF Active, HasKey, OrgFor
    <3>2. CASE s = r BY <1>3, <1>6, <3>1, <3>2
    <3>3. CASE s # r
      BY <1>1, <3>1, <3>3, OthersKeep DEF SlotInv, KeyExclusive
    <3> QED BY <3>2, <3>3
  <2> QED BY <2>1, <2>2
<1>8. OneActivePerSlot'
  BY <1>1 DEF SlotInv, OneActivePerSlot, Active
<1> QED BY <1>4, <1>7, <1>8

\* r's writes appear: its new row is alone with its key, for the rows that
\* had it were r's own and are cancelled in the same step.
LEMMA CommitKeeps ==
  ASSUME TypeOK, CallOK, SlotInv, NEW r \in Requests, Commit(r)
  PROVE  LockExclusive' /\ KeyExclusive' /\ OneActivePerSlot'
<1> USE DEF SlotInv
<1>1. pc[r] = "commit" /\ UNCHANGED call /\ pc' = [pc EXCEPT ![r] = "refresh"]
  BY DEF Commit, Goto
<1>2. ~ Inserted(r)' /\ \A b \in Requests : ~ Holds(r, b)'
  BY <1>1 DEF TypeOK, Inserted, Holds
<1>3. LockExclusive'
  BY <1>1, <1>2, LockStep
<1>4. ASSUME NEW b \in Requests, Active(b)'
      PROVE  \/ /\ b # r /\ Active(b) /\ bookings'[b] = bookings[b] /\ ~ Holds(r, b)
             \/ b = r /\ Inserted(r) /\ bookings'[b] = NewBooking(r)
  <2>1. bookings'[b] # Null /\ bookings'[b].status = "active"
    BY <1>4 DEF Active
  <2>2. ~ (Op(r) # "create" /\ b = Target(r))
    BY <2>1, CommitRows DEF Cancelled, BookingRows
  <2>3. Holds(r, b) <=> (Op(r) # "create" /\ b = Target(r))
    BY <1>1 DEF Holds
  <2>4. CASE b = r
    BY <1>1, <2>1, <2>2, <2>4, CommitRows DEF Inserted
  <2>5. CASE b # r
    BY <2>1, <2>2, <2>3, <2>5, CommitRows DEF Active
  <2> QED BY <2>4, <2>5
<1>5. NewBooking(r).org = OrgFor(r) /\ NewBooking(r).start = call[r].start
  BY DEF NewBooking, Slot, SlotAt
<1>6. KeyExclusive'
  <2> SUFFICES ASSUME NEW s \in Requests, Inserted(s)'
               PROVE  /\ \A t \in Requests : Inserted(t)' /\ SameKey(s, t)' => t = s
                      /\ \A b \in Requests : Active(b)' /\ HasKey(b, s)' => Holds(s, b)'
    BY DEF KeyExclusive
  <2>1. s # r /\ Inserted(s) BY <1>1, <1>2, OthersKeep
  <2>2. ASSUME NEW t \in Requests, Inserted(t)', SameKey(s, t)' PROVE t = s
    <3>1. Inserted(t) /\ SameKey(s, t)
      BY <1>1, <1>2, <2>2, OthersKeep DEF SameKey, OrgFor
    <3> QED BY <2>1, <3>1 DEF KeyExclusive
  <2>3. ASSUME NEW b \in Requests, Active(b)', HasKey(b, s)' PROVE Holds(s, b)'
    <3>1. bookings'[b].org = OrgFor(s) /\ bookings'[b].start = call[s].start
      BY <1>1, <2>3 DEF HasKey, OrgFor
    <3>2. CASE b = r /\ Inserted(r) /\ bookings'[b] = NewBooking(r)
      <4>1. SameKey(r, s) BY <1>5, <3>1, <3>2 DEF SameKey
      <4> QED BY <2>1, <3>2, <4>1 DEF KeyExclusive
    <3>3. CASE Active(b) /\ bookings'[b] = bookings[b]
      <4>1. HasKey(b, s) BY <3>1, <3>3 DEF HasKey
      <4> QED BY <1>1, <2>1, <3>3, <4>1, OthersKeep DEF KeyExclusive
    <3> QED BY <1>4, <2>3, <3>2, <3>3
  <2> QED BY <2>2, <2>3
<1>7. OneActivePerSlot'
  <2> SUFFICES ASSUME NEW a \in Requests, NEW b \in Requests, Active(a)', Active(b)',
                      bookings'[a].org = bookings'[b].org,
                      bookings'[a].start = bookings'[b].start
               PROVE  a = b
    BY DEF OneActivePerSlot
  <2>1. \A c \in Requests : Active(c) /\ HasKey(c, r) /\ Inserted(r) => Holds(r, c)
    BY DEF KeyExclusive
  <2>2. CASE a = r /\ b # r
    BY <1>4, <1>5, <2>1, <2>2 DEF HasKey
  <2>3. CASE b = r /\ a # r
    BY <1>4, <1>5, <2>1, <2>3 DEF HasKey
  <2>4. CASE a # r /\ b # r
    BY <1>4, <2>4 DEF OneActivePerSlot
  <2> QED BY <2>2, <2>3, <2>4
<1> QED BY <1>3, <1>6, <1>7

LEMMA SlotNext == Inv /\ [Next]_vars => SlotInv'
<1> SUFFICES ASSUME Inv, [Next]_vars PROVE LockExclusive' /\ KeyExclusive' /\ OneActivePerSlot'
  BY PhaseNext, FreshNext DEF Inv, SlotInv
<1> USE DEF Inv, SlotInv
<1>1. ASSUME NEW r \in Requests, Handle(r) \/ Fail(r)
      PROVE  LockExclusive' /\ KeyExclusive' /\ OneActivePerSlot'
  <2>1. PICK step \in Steps \cup Answers : pc' = [pc EXCEPT ![r] = step]
    BY <1>1, HandleFrame
  <2>2. UNCHANGED call /\ (Commit(r) \/ UNCHANGED bookings)
    BY <1>1, HandleFrame
  <2>3. CASE Commit(r) BY <2>3, CommitKeeps
  <2>4. CASE FlushCancel(r) BY <2>4, FlushCancelKeeps
  <2>5. CASE FlushInsert(r) /\ ~ SlotTaken(r) BY <2>5, FlushInsertKeeps
  <2>6. CASE ~ Commit(r) /\ ~ FlushCancel(r) /\ ~ (FlushInsert(r) /\ ~ SlotTaken(r))
    <3>1. step \notin {"insert", "commit"} \/ (step = "insert" /\ Op(r) = "create")
      <4>1. pc'[r] = step BY <2>1 DEF TypeOK
      <4>2. CASE CheckExceptions(r) BY <4>1, <4>2 DEF CheckExceptions, Goto, TypeOK
      <4>3. CASE ReadBooking(r) BY <4>1, <4>3 DEF ReadBooking, Goto, TypeOK
      <4>4. CASE ReadOrg(r) BY <4>1, <4>4 DEF ReadOrg, Goto, TypeOK
      <4>5. CASE CheckGrid(r) BY <4>1, <4>5 DEF CheckGrid, Goto, TypeOK
      <4>6. CASE FlushInsert(r) BY <2>6, <4>1, <4>6 DEF FlushInsert, Goto, TypeOK
      <4>7. CASE Respond(r) BY <4>1, <4>7 DEF Respond, Goto, TypeOK
      <4>8. CASE DeadlockVictim(r) BY <4>1, <4>8 DEF DeadlockVictim, Goto, TypeOK
      <4>9. CASE Fail(r) BY <4>1, <4>9 DEF Fail, Goto, TypeOK
      <4> QED BY <1>1, <2>6, <4>2, <4>3, <4>4, <4>5, <4>6, <4>7, <4>8, <4>9 DEF Handle
    <3> QED BY <2>1, <2>2, <2>6, <3>1, LocksShrink
  <2> QED BY <2>3, <2>4, <2>5, <2>6
<1>2. ASSUME NEW r \in Requests, Arrive(r)
      PROVE  LockExclusive' /\ KeyExclusive' /\ OneActivePerSlot'
  <2>1. PICK c \in CallType : call' = [call EXCEPT ![r] = c]
    BY <1>2, ArriveFrame
  <2>2. /\ UNCHANGED bookings /\ pc[r] = "idle"
        /\ \E step \in {"window", "read", "forbidden"} : pc' = [pc EXCEPT ![r] = step]
    BY <1>2, ArriveFrame DEF Goto
  <2>3. ~ Inserted(r)' /\ \A b \in Requests : ~ Holds(r, b)'
    BY <2>2 DEF TypeOK, Inserted, Holds
  <2>4. ASSUME NEW s \in Requests, s # r
        PROVE  /\ call'[s] = call[s] /\ (Inserted(s)' <=> Inserted(s))
               /\ \A b \in Requests : Holds(s, b)' <=> Holds(s, b)
    BY <2>1, <2>2, <2>4 DEF TypeOK, Inserted, Holds, Op, Target
  <2>5. LockExclusive'
    BY <2>3, <2>4 DEF LockExclusive
  <2>6. KeyExclusive'
    BY <2>2, <2>3, <2>4 DEF KeyExclusive, SameKey, HasKey, OrgFor, Active
  <2>7. OneActivePerSlot'
    BY <2>2 DEF OneActivePerSlot, Active
  <2> QED BY <2>5, <2>6, <2>7
<1>3. CASE UNCHANGED <<bookings, pc, call>>
  BY <1>3 DEF LockExclusive, KeyExclusive, OneActivePerSlot, Holds, Inserted, SameKey,
    HasKey, Active, Op, Target, OrgFor
<1> QED BY <1>1, <1>2, <1>3, NextCases, AdministerFrame DEF Tick, vars

LEMMA InvInit == Init => Inv
<1> SUFFICES ASSUME Init PROVE SlotInv
  BY TypeInit DEF Inv
<1> QED BY DEF Init, SlotInv, PhaseOK, FreshRows, LockExclusive, KeyExclusive,
     OneActivePerSlot, Holds, Inserted, Active

LEMMA Invariance == Spec => []Inv
<1>1. Inv /\ [Next]_vars => Inv'
  BY TypeNext, SlotNext DEF Inv
<1> QED BY <1>1, InvInit, PTL DEF Spec

\* RF-4.2 for every number of racing requests: no two active bookings of an
\* organisation start at the same instant.
THEOREM SlotsAreExclusive == Spec => []OneActivePerSlot
<1>1. Inv => OneActivePerSlot BY DEF Inv, SlotInv
<1> QED BY <1>1, Invariance, PTL

-----------------------------------------------------------------------------
(***************************************************************************)
(* Who cancels what.  A row keeps its organisation, its owner and its      *)
(* start, so what a handler has read of its target still holds when it     *)
(* commits, however many requests came in between.                         *)
(***************************************************************************)
Entitled ==
  \A r \in Requests : pc[r] \in Steps =>
    /\ Op(r) = "create" => local[r].owner = Actor(r)
    /\ Op(r) = "reschedule" => Actor(r) \in Admins
    /\ Op(r) # "create" /\ pc[r] # "read" => bookings[Target(r)].org = OrgFor(r)
    /\ Op(r) = "reschedule" /\ pc[r] # "read" => local[r].owner = bookings[Target(r)].user
    /\ Op(r) = "cancel" /\ pc[r] \in {"update", "commit"} =>
         \/ Actor(r) \in Admins
         \/ /\ Actor(r) = bookings[Target(r)].user
            /\ local[r].now < bookings[Target(r)].start

AuthInv == Entitled /\ TenantIsolation /\ CancelIsAuthorised

LEMMA RowsStable ==
  ASSUME Inv, NEW r \in Requests, Handle(r) \/ Fail(r), NEW b \in Requests, bookings[b] # Null
  PROVE  /\ bookings'[b] # Null
         /\ bookings'[b].org = bookings[b].org /\ bookings'[b].user = bookings[b].user
         /\ bookings'[b].start = bookings[b].start
<1>1. CASE Commit(r)
  <2>1. bookings[b] \in BookingRows BY DEF Inv, TypeOK
  <2>2. b # r BY <1>1, CommitRows DEF Inv, SlotInv
  <2>3. CASE Op(r) # "create" /\ b = Target(r)
    <3>1. bookings'[b] = Cancelled(r, bookings[b])
      BY <1>1, <2>3, CommitRows DEF Inv, SlotInv
    <3>2. Actor(r) \in Users /\ local[r].now \in Int
      BY <1>1, CommitRows, CallFacts DEF Inv, SlotInv, TypeOK
    <3>3. Cancelled(r, bookings[b]) \in BookingRows
      BY <2>1, <3>2 DEF Cancelled, BookingRows
    <3> QED BY <2>1, <3>1, <3>3, NullAssumption DEF Cancelled, BookingRows
  <2>4. CASE ~ (Op(r) # "create" /\ b = Target(r))
    BY <1>1, <2>2, <2>4, CommitRows DEF Inv, SlotInv
  <2> QED BY <2>3, <2>4
<1>2. CASE UNCHANGED bookings BY <1>2
<1> QED BY <1>1, <1>2, HandleFrame

\* No row is deleted, and of a row only the cancellation is ever written.
LEMMA RowsRemain ==
  ASSUME Inv, [Next]_vars, NEW b \in Requests, bookings[b] # Null
  PROVE  /\ bookings'[b] # Null
         /\ bookings'[b].org = bookings[b].org /\ bookings'[b].user = bookings[b].user
         /\ bookings'[b].start = bookings[b].start /\ bookings'[b].end = bookings[b].end
         /\ bookings[b].status # "active" => bookings'[b].status = bookings[b].status
<1>1. ASSUME NEW r \in Requests, Handle(r) \/ Fail(r)
      PROVE  /\ bookings'[b] # Null
             /\ bookings'[b].org = bookings[b].org /\ bookings'[b].user = bookings[b].user
             /\ bookings'[b].start = bookings[b].start /\ bookings'[b].end = bookings[b].end
             /\ bookings[b].status # "active" => bookings'[b].status = bookings[b].status
  <2>1. CASE Commit(r)
    <3>1. bookings[b] \in BookingRows /\ b # r
      BY <2>1, CommitRows DEF Inv, TypeOK, SlotInv
    <3>2. CASE Op(r) # "create" /\ b = Target(r)
      <4>1. bookings'[b] = Cancelled(r, bookings[b])
        BY <2>1, <3>2, CommitRows DEF Inv, SlotInv
      <4>2. /\ bookings'[b].end = bookings[b].end
            /\ bookings[b].status # "active" => bookings'[b].status = bookings[b].status
        BY <3>1, <4>1 DEF Cancelled, BookingRows
      <4> QED BY <1>1, <4>2, RowsStable
    <3>3. CASE ~ (Op(r) # "create" /\ b = Target(r))
      <4>1. bookings'[b] = bookings[b] BY <2>1, <3>1, <3>3, CommitRows DEF Inv, SlotInv
      <4> QED BY <4>1
    <3> QED BY <3>2, <3>3
  <2>2. CASE UNCHANGED bookings BY <2>2
  <2> QED BY <1>1, <2>1, <2>2, HandleFrame
<1>2. CASE UNCHANGED bookings BY <1>2
<1> QED BY <1>1, <1>2, NextCases, ArriveFrame, AdministerFrame DEF Tick, vars

LEMMA LocalOthers ==
  ASSUME TypeOK, NEW r \in Requests, Handle(r) \/ Fail(r), NEW s \in Requests, s # r
  PROVE  local'[s] = local[s]
<1>1. CASE ReadBooking(r) BY <1>1 DEF ReadBooking, TypeOK
<1>2. CASE ReadOrg(r) BY <1>2 DEF ReadOrg, TypeOK
<1>3. CASE CheckExceptions(r) BY <1>3 DEF CheckExceptions, TypeOK
<1> QED BY <1>1, <1>2, <1>3, HandleFrame

LEMMA EntitledNext == Inv /\ Entitled /\ [Next]_vars => Entitled'
<1> SUFFICES ASSUME Inv, Entitled, [Next]_vars PROVE Entitled'
  OBVIOUS
<1> DEFINE E(s) ==
      /\ Op(s) = "create" => local[s].owner = Actor(s)
      /\ Op(s) = "reschedule" => Actor(s) \in Admins
      /\ Op(s) # "create" /\ pc[s] # "read" => bookings[Target(s)].org = OrgFor(s)
      /\ Op(s) = "reschedule" /\ pc[s] # "read"
         => local[s].owner = bookings[Target(s)].user
      /\ Op(s) = "cancel" /\ pc[s] \in {"update", "commit"} =>
           \/ Actor(s) \in Admins
           \/ /\ Actor(s) = bookings[Target(s)].user
              /\ local[s].now < bookings[Target(s)].start
<1>1. ASSUME NEW r \in Requests, Arrive(r) PROVE Entitled'
  <2>1. PICK c \in CallType :
           /\ call' = [call EXCEPT ![r] = c]
           /\ local' = [local EXCEPT ![r].owner = c.actor]
           /\ \/ c.op = "create" /\ Goto(r, "window")
              \/ c.op = "cancel" /\ Goto(r, "read")
              \/ c.op = "reschedule" /\ c.actor \in Admins /\ Goto(r, "read")
              \/ c.op = "reschedule" /\ Goto(r, "forbidden")
    BY <1>1, ArriveFrame
  <2>2. UNCHANGED bookings BY <1>1, ArriveFrame
  <2> SUFFICES ASSUME NEW s \in Requests, pc'[s] \in Steps PROVE E(s)'
    BY DEF Entitled
  <2>3. CASE s = r
    BY <2>1, <2>3 DEF Inv, TypeOK, Goto, Op, Actor, Steps
  <2>4. CASE s # r
    <3>1. pc'[s] = pc[s] /\ call'[s] = call[s] /\ local'[s] = local[s]
      BY <2>1, <2>4 DEF Inv, TypeOK, Goto
    <3> QED BY <2>2, <3>1 DEF Entitled, Op, Actor, Target, OrgFor
  <2> QED BY <2>3, <2>4
<1>2. ASSUME NEW r \in Requests, Handle(r) \/ Fail(r) PROVE Entitled'
  <2>1. PICK step \in Steps \cup Answers : pc' = [pc EXCEPT ![r] = step]
    BY <1>2, HandleFrame
  <2>2. pc[r] \in Steps /\ UNCHANGED call BY <1>2, HandleFrame
  <2> SUFFICES ASSUME NEW s \in Requests, pc'[s] \in Steps PROVE E(s)'
    BY DEF Entitled
  <2>3. pc[s] \in Steps BY <2>1, <2>2 DEF Inv, TypeOK
  <2>4. call[s] \in CallType /\ (Op(s) # "create" => Target(s) \in Requests)
    BY <2>3, CallFacts DEF Inv, CallOK, Steps
  <2>5. E(s) BY <2>3 DEF Entitled
  <2>6. ASSUME Op(s) # "create", bookings[Target(s)] # Null
        PROVE  /\ bookings'[Target(s)].org = bookings[Target(s)].org
               /\ bookings'[Target(s)].user = bookings[Target(s)].user
               /\ bookings'[Target(s)].start = bookings[Target(s)].start
    BY <1>2, <2>4, <2>6, RowsStable
  <2>7. Op(s) # "create" /\ pc[s] # "read" => bookings[Target(s)] # Null
    BY <2>3 DEF Inv, CallOK, Steps
  <2>8. CASE s # r
    <3>1. pc'[s] = pc[s] /\ local'[s] = local[s]
      BY <1>2, <2>1, <2>8, LocalOthers DEF Inv, TypeOK
    <3> QED BY <2>2, <2>5, <2>6, <2>7, <3>1 DEF Op, Actor, Target, OrgFor
  <2>9. CASE s = r /\ ReadBooking(r)
    <3>1. UNCHANGED bookings /\ pc[r] = "read" BY <2>9 DEF ReadBooking
    <3>2. CASE /\ Visible(r) /\ Op(r) = "reschedule" /\ Goto(r, "window")
               /\ local' = [local EXCEPT ![r].owner = bookings[Target(r)].user]
      BY <2>2, <2>5, <2>9, <3>1, <3>2
      DEF Inv, TypeOK, Goto, Op, Actor, Target, OrgFor, Visible
    <3>3. CASE /\ Visible(r) /\ Op(r) = "cancel"
               /\ Goto(r, IF MayCancel(r) THEN "update" ELSE "forbidden")
               /\ local' = [local EXCEPT ![r].now = clock]
      <4>1. MayCancel(r) BY <2>9, <3>3 DEF Inv, TypeOK, Goto, Steps
      <4>2. local'[r].now = clock BY <3>3 DEF Inv, TypeOK
      <4>3. bookings[Target(r)].start > clock => clock < bookings[Target(r)].start
        BY <2>4, <2>9, <3>3 DEF Inv, TypeOK, Visible, BookingRows
      <4> QED BY <2>2, <2>5, <2>9, <3>1, <3>3, <4>1, <4>2, <4>3
            DEF MayCancel, Op, Actor, Target, OrgFor, Visible
    <3>4. CASE pc'[r] \notin Steps BY <2>9, <3>4
    <3> QED BY <2>9, <3>2, <3>3, <3>4 DEF ReadBooking, Goto, Inv, TypeOK, Steps
  <2>10. CASE s = r /\ ~ ReadBooking(r)
    <3>1. pc[r] # "read"
      BY <1>2, <2>3, <2>10 DEF Handle, Fail, ReadOrg, CheckGrid, CheckExceptions, FlushCancel,
        FlushInsert, Commit, Respond, DeadlockVictim, Deadlocked, WaitsFor, Goto, Inv, TypeOK, Steps
    <3>2. local'[r].owner = local[r].owner
      <4>1. CASE ReadOrg(r) BY <4>1 DEF ReadOrg, Inv, TypeOK
      <4>2. CASE CheckExceptions(r) BY <4>2 DEF CheckExceptions, Inv, TypeOK
      <4> QED BY <1>2, <2>10, <4>1, <4>2, HandleFrame
    <3>3. Op(r) = "cancel" /\ pc'[r] \in {"update", "commit"}
          => pc[r] \in {"update", "commit"} /\ local'[r].now = local[r].now
      <4> SUFFICES ASSUME Op(r) = "cancel", pc'[r] \in {"update", "commit"}
                   PROVE  pc[r] \in {"update", "commit"} /\ local'[r].now = local[r].now
        OBVIOUS
      <4>1. pc[r] \notin {"window", "grid", "exceptions", "insert"}
        BY DEF Inv, SlotInv, PhaseOK
      <4>2. FlushCancel(r)
        BY <1>2, <2>10, <4>1 DEF Handle, Fail, ReadOrg, CheckGrid, CheckExceptions,
          FlushInsert, Commit, Respond, DeadlockVictim, Deadlocked, WaitsFor, Goto, Inv, TypeOK
      <4> QED BY <4>2 DEF FlushCancel
    <3> QED BY <2>2, <2>5, <2>6, <2>7, <2>10, <3>1, <3>2, <3>3 DEF Op, Actor, Target, OrgFor
  <2> QED BY <2>8, <2>9, <2>10
<1>3. CASE UNCHANGED <<bookings, pc, call, local>>
  BY <1>3 DEF Entitled, Op, Actor, Target, OrgFor
<1> QED BY <1>1, <1>2, <1>3, NextCases, AdministerFrame DEF Tick, vars

LEMMA AuthNext == Inv /\ AuthInv /\ [Next]_vars => AuthInv'
<1> SUFFICES ASSUME Inv, AuthInv, [Next]_vars PROVE TenantIsolation' /\ CancelIsAuthorised'
  BY EntitledNext DEF AuthInv
<1> USE DEF AuthInv
<1>1. ASSUME NEW r \in Requests, Commit(r) PROVE TenantIsolation' /\ CancelIsAuthorised'
  <2>1. pc[r] = "commit" /\ r \in Requests BY <1>1 DEF Commit
  <2>2. /\ call[r] \in CallType /\ Op(r) \in Ops /\ Actor(r) \in Users /\ Actor(r) # Null
        /\ local[r].owner \in Users
    BY <1>1, <2>1, CommitRows, CallFacts, NullAssumption DEF Inv, SlotInv, CallOK
  <2>3. OrgFor(r) = OrgOf[Actor(r)] BY DEF OrgFor, Actor
  <2>4. /\ Op(r) # "create" => /\ bookings[Target(r)] \in BookingRows
                               /\ bookings[Target(r)].org = OrgFor(r)
        /\ Op(r) = "create" => local[r].owner = Actor(r)
        /\ Op(r) = "reschedule" => /\ local[r].owner = bookings[Target(r)].user
                                   /\ Actor(r) \in Admins
        /\ Op(r) = "cancel" => \/ Actor(r) \in Admins
                               \/ /\ Actor(r) = bookings[Target(r)].user
                                  /\ local[r].now < bookings[Target(r)].start
    BY <1>1, <2>1, CommitRows DEF Inv, SlotInv, Entitled, Steps
  <2> SUFFICES ASSUME NEW b \in Requests, bookings'[b] # Null
               PROVE  /\ OrgOf[bookings'[b].user] = bookings'[b].org
                      /\ bookings'[b].cancelledBy # Null
                         => OrgOf[bookings'[b].cancelledBy] = bookings'[b].org
                      /\ bookings'[b].status = "cancelled"
                         => \/ bookings'[b].cancelledBy \in Admins
                            \/ /\ bookings'[b].cancelledBy = bookings'[b].user
                               /\ bookings'[b].cancelledAt < bookings'[b].start
    BY DEF TenantIsolation, CancelIsAuthorised
  <2>5. CASE Op(r) # "create" /\ b = Target(r)
    <3>1. bookings'[b] = Cancelled(r, bookings[b])
      BY <1>1, <2>5, CommitRows DEF Inv, SlotInv
    <3>2. /\ bookings'[b].org = bookings[b].org /\ bookings'[b].user = bookings[b].user
          /\ bookings'[b].start = bookings[b].start
          /\ bookings'[b].cancelledBy = Actor(r) /\ bookings'[b].cancelledAt = local[r].now
      BY <2>4, <2>5, <3>1 DEF Cancelled, BookingRows
    <3>3. OrgOf[bookings[b].user] = bookings[b].org
      BY <2>4, <2>5, NullAssumption DEF TenantIsolation
    <3> QED BY <2>2, <2>3, <2>4, <2>5, <3>2, <3>3 DEF Ops
  <2>6. CASE ~ (Op(r) # "create" /\ b = Target(r)) /\ Op(r) # "cancel" /\ b = r
    <3>1. bookings'[b] = NewBooking(r)
      BY <1>1, <2>6, CommitRows DEF Inv, SlotInv
    <3>2. OrgOf[local[r].owner] = OrgFor(r)
      <4>1. CASE Op(r) = "create" BY <2>3, <2>4, <4>1
      <4>2. CASE Op(r) = "reschedule"
        <5>1. Target(r) \in Requests BY <1>1, <4>2, CommitRows DEF Inv, SlotInv
        <5> QED BY <2>4, <4>2, <5>1, NullAssumption DEF TenantIsolation
      <4> QED BY <2>2, <2>6, <4>1, <4>2 DEF Ops
    <3> QED BY <3>1, <3>2 DEF NewBooking
  <2>7. CASE /\ ~ (Op(r) # "create" /\ b = Target(r))
             /\ ~ (Op(r) # "cancel" /\ b = r)
    <3>1. bookings'[b] = bookings[b]
      BY <1>1, <2>7, CommitRows DEF Inv, SlotInv
    <3> QED BY <3>1 DEF TenantIsolation, CancelIsAuthorised
  <2> QED BY <2>5, <2>6, <2>7
<1>2. CASE UNCHANGED bookings
  BY <1>2 DEF TenantIsolation, CancelIsAuthorised
<1> QED BY <1>1, <1>2, NextCases, AdministerFrame, ArriveFrame, HandleFrame DEF Tick, vars

LEMMA AuthInvariance == Spec => [](Inv /\ AuthInv)
<1>1. Init => AuthInv
  BY DEF Init, AuthInv, Entitled, TenantIsolation, CancelIsAuthorised, Steps
<1>2. Inv /\ AuthInv /\ [Next]_vars => (Inv /\ AuthInv)'
  BY AuthNext, TypeNext, SlotNext DEF Inv
<1> QED BY <1>1, <1>2, InvInit, PTL DEF Spec

\* No booking, and no cancellation of one, ever crosses organisations.
THEOREM TenantsAreIsolated == Spec => []TenantIsolation
<1>1. AuthInv => TenantIsolation BY DEF AuthInv
<1> QED BY <1>1, AuthInvariance, PTL

\* However cancellations race with each other and with reschedules, the one a
\* row records was made by its owner before the slot began or by an administrator.
THEOREM CancellationsAreAuthorised == Spec => []CancelIsAuthorised
<1>1. AuthInv => CancelIsAuthorised BY DEF AuthInv
<1> QED BY <1>1, AuthInvariance, PTL

-----------------------------------------------------------------------------
(***************************************************************************)
(* Action properties.                                                      *)
(***************************************************************************)
\* A 409 for a taken slot is given only when a committed active booking that
\* no transaction is about to give up has the slot.
THEOREM ConflictsAreJustified == Spec => ConflictIsJustified
<1>1. Inv /\ [Next]_vars =>
        [\A r \in Requests : pc[r] = "insert" /\ pc'[r] = "conflict"
           => \E b \in Requests : /\ bookings[b] # Null /\ bookings[b].status = "active"
                                  /\ HasKey(b, r) /\ \A s \in Requests : ~ Holds(s, b)]_vars
  <2> SUFFICES ASSUME Inv, [Next]_vars, NEW r \in Requests, pc[r] = "insert", pc'[r] = "conflict"
               PROVE  \E b \in Requests : /\ bookings[b] # Null /\ bookings[b].status = "active"
                                          /\ HasKey(b, r) /\ \A s \in Requests : ~ Holds(s, b)
    OBVIOUS
  <2>1. FlushInsert(r)
    <3>1. ASSUME NEW s \in Requests, Arrive(s) PROVE FALSE
      BY <3>1, ArriveFrame DEF Inv, TypeOK, Goto
    <3>2. ASSUME NEW s \in Requests, Handle(s) \/ Fail(s) PROVE s = r
      BY <3>2, HandleFrame DEF Inv, TypeOK
    <3>3. Handle(r) \/ Fail(r)
      BY <3>1, <3>2, NextCases, AdministerFrame DEF Tick, vars
    <3> QED BY <3>3 DEF Handle, Fail, ReadBooking, ReadOrg, CheckGrid, CheckExceptions,
          FlushCancel, Commit, Respond, DeadlockVictim, Goto, Inv, TypeOK
  <2>2. SlotTaken(r) BY <2>1 DEF FlushInsert, Goto, Inv, TypeOK
  <2>3. PICK b \in Requests : Active(b) /\ HasKey(b, r) /\ ~ Holds(r, b)
    BY <2>2 DEF SlotTaken
  <2>4. \A s \in Requests : ~ Holds(s, b)
    BY <2>1, <2>3 DEF FlushInsert, WaitsFor
  <2> QED BY <2>3, <2>4 DEF Active
<1> QED BY <1>1, Invariance, PTL DEF Spec, ConflictIsJustified

\* Rescheduling is atomic for whoever holds the booking: it is never lost on
\* the way to its new slot.
THEOREM BookingsDoNotVanish == Spec => NoBookingVanishes
<1>1. Inv /\ AuthInv /\ [Next]_vars =>
        [\A b \in Requests : Active(b) /\ bookings'[b].status # "active" =>
           \E r \in Requests :
             /\ pc[r] = "commit" /\ Target(r) = b
             /\ \/ Op(r) = "cancel"
                \/ /\ Op(r) = "reschedule" /\ bookings'[r] # Null
                   /\ bookings'[r].status = "active"
                   /\ bookings'[r].user = bookings[b].user]_vars
  <2> SUFFICES ASSUME Inv, AuthInv, [Next]_vars, NEW b \in Requests, Active(b),
                      bookings'[b].status # "active"
               PROVE  \E r \in Requests :
                        /\ pc[r] = "commit" /\ Target(r) = b
                        /\ \/ Op(r) = "cancel"
                           \/ /\ Op(r) = "reschedule" /\ bookings'[r] # Null
                              /\ bookings'[r].status = "active"
                              /\ bookings'[r].user = bookings[b].user
    OBVIOUS
  <2>1. PICK r \in Requests : Commit(r)
    BY NextCases, ArriveFrame, HandleFrame, AdministerFrame DEF Active, Tick, vars
  <2>2. Op(r) # "create" /\ b = Target(r)
    BY <2>1, CommitRows DEF Active, NewBooking, Inv, SlotInv
  <2>3. pc[r] = "commit" BY <2>1 DEF Commit
  <2>4. CASE Op(r) = "cancel" BY <2>2, <2>3, <2>4
  <2>5. CASE Op(r) = "reschedule"
    <3>1. bookings'[r] = NewBooking(r)
      BY <2>1, <2>5, CommitRows DEF Inv, SlotInv
    <3>2. bookings'[r] # Null
      BY <2>3, <3>1, NewRow DEF Inv
    <3>3. local[r].owner = bookings[b].user
      BY <2>2, <2>3, <2>5 DEF AuthInv, Entitled, Steps
    <3> QED BY <2>2, <2>3, <2>5, <3>1, <3>2, <3>3 DEF NewBooking
  <2> QED BY <2>1, <2>2, <2>4, <2>5, CommitRows DEF Ops, Inv, SlotInv
<1> QED BY <1>1, AuthInvariance, PTL DEF Spec, NoBookingVanishes

-----------------------------------------------------------------------------
(***************************************************************************)
(* The service implements the ledger.  Only commits change rows: a create  *)
(* books, a cancel of an active row releases and of a cancelled row        *)
(* stutters, a reschedule moves, or books when another request has         *)
(* cancelled its target meanwhile.                                         *)
(***************************************************************************)
LEMMA EntryFacts ==
  ASSUME TypeOK, NEW b \in Requests, Active(b)
  PROVE  Entry(b) \in Ledger!Entries
<1>1. bookings[b] \in BookingRows BY DEF Active, TypeOK
<1> QED BY <1>1 DEF Entry, Ledger!Entries, BookingRows

\* The slot of r's new row is free but for the row r itself gives up.
LEMMA SlotIsFree ==
  ASSUME Inv, NEW r \in Requests, Commit(r), Op(r) # "cancel",
         NEW b \in Requests, Active(b), ~ (Op(r) # "create" /\ b = Target(r))
  PROVE  Entry(b).org # OrgFor(r) \/ Entry(b).start # call[r].start
<1>1. Inserted(r) BY DEF Commit, Inserted
<1>2. ~ Holds(r, b) BY DEF Commit, Holds
<1>3. ~ HasKey(b, r) BY <1>1, <1>2 DEF Inv, SlotInv, KeyExclusive
<1> QED BY <1>3 DEF HasKey, Entry

LEMMA CommitRefines ==
  ASSUME Inv, AuthInv, TypeOK', NEW r \in Requests, Commit(r)
  PROVE  [Ledger!Next]_<<standing, given>>
<1> DEFINE t == Target(r)
           old == Entry(t)
           new == Entry(r)'
           Cancels == Op(r) # "create"
           Inserts == Op(r) # "cancel"
<1>1. /\ bookings[r] = Null /\ Op(r) \in Ops
      /\ Cancels => t \in Requests /\ t # r /\ bookings[t] \in BookingRows
  BY CommitRows DEF Inv, SlotInv
<1>2. \A b \in Requests :
        bookings'[b] = IF Cancels /\ b = t THEN Cancelled(r, bookings[b])
                       ELSE IF Inserts /\ b = r THEN NewBooking(r)
                       ELSE bookings[b]
  BY CommitRows DEF Inv, SlotInv
<1>3. Inserts => /\ Active(r)' /\ new \in Ledger!Entries /\ new.id = r
                 /\ new.org = OrgFor(r) /\ new.start = call[r].start
                 /\ new.user = local[r].owner
  <2> SUFFICES ASSUME Inserts
               PROVE  /\ Active(r)' /\ new \in Ledger!Entries /\ new.id = r
                      /\ new.org = OrgFor(r) /\ new.start = call[r].start
                      /\ new.user = local[r].owner
    OBVIOUS
  <2>1. bookings'[r] = NewBooking(r) BY <1>1, <1>2
  <2>2. NewBooking(r) \in BookingRows /\ NewBooking(r) # Null
    BY NewRow DEF Inv, Commit
  <2>3. NewBooking(r).org = OrgFor(r) /\ NewBooking(r).start = call[r].start
        /\ NewBooking(r).user = local[r].owner /\ NewBooking(r).status = "active"
    BY DEF NewBooking, Slot, SlotAt
  <2>4. new = [id |-> r, org |-> OrgFor(r), user |-> local[r].owner, start |-> call[r].start]
    BY <2>1, <2>3 DEF Entry
  <2> QED BY <2>1, <2>2, <2>3, <2>4 DEF Active, Ledger!Entries, BookingRows
<1>4. Cancels => bookings'[t].status # "active" /\ bookings'[t] # Null
  <2> SUFFICES ASSUME Cancels PROVE bookings'[t].status # "active" /\ bookings'[t] # Null
    OBVIOUS
  <2>1. bookings'[t] = Cancelled(r, bookings[t]) BY <1>1, <1>2
  <2>2. bookings'[t].status = "cancelled" BY <1>1, <2>1 DEF Cancelled, BookingRows
  <2>3. bookings'[t] # Null
    BY <1>1, NullAssumption, RowsStable DEF Handle
  <2> QED BY <2>2, <2>3
<1>5. \A b \in Requests : ~ (Cancels /\ b = t) /\ ~ (Inserts /\ b = r) =>
        bookings'[b] = bookings[b]
  BY <1>2
<1> DEFINE A == {a \in Requests : Active(a)}
           E == [b \in Requests |-> Entry(b)]
           G == {b \in Requests : bookings[b] # Null}
<1>6. /\ standing = {E[b] : b \in A} /\ standing' = {E'[b] : b \in A'}
      /\ given = G /\ given' = G'
      /\ A \subseteq Requests /\ A' \subseteq Requests /\ A \subseteq G
      /\ r \notin A /\ (Active(t) /\ Cancels => t \in A) /\ (~ Active(t) => t \notin A)
  BY <1>1 DEF standing, given, Active
<1>7. \A a, b \in Requests : E[a] = E[b] => a = b
  <2> SUFFICES ASSUME NEW a \in Requests, NEW b \in Requests, E[a] = E[b] PROVE a = b
    OBVIOUS
  <2>1. E[a].id = a /\ E[b].id = b BY DEF Entry
  <2> QED BY <2>1
<1>8. \A b \in Requests : ~ (Cancels /\ b = t) /\ ~ (Inserts /\ b = r) =>
        (b \in A' <=> b \in A) /\ E'[b] = E[b]
  BY <1>5 DEF Active, Entry
<1>9. /\ Inserts => r \in A' /\ E'[r] = new
      /\ Cancels => t \notin A' /\ E[t] = old
  BY <1>1, <1>3, <1>4 DEF Active, Entry
<1>10. /\ Inserts => r \notin given /\ given' = given \cup {r}
       /\ ~ Inserts => given' = given
  <2>1. r \notin G /\ (Cancels => t \in G /\ t \in G') /\ (Inserts => r \in G')
    BY <1>1, <1>3, <1>4, NullAssumption DEF Active
  <2>2. \A b \in Requests : ~ (Cancels /\ b = t) /\ ~ (Inserts /\ b = r) =>
          (b \in G' <=> b \in G)
    BY <1>5
  <2>3. G \subseteq Requests /\ G' \subseteq Requests
    OBVIOUS
  <2> QED BY <1>1, <1>6, <2>1, <2>2, <2>3
<1>11. ASSUME Inserts PROVE \A f \in standing : \/ f = old /\ Cancels /\ Active(t)
                                                \/ f.org # new.org \/ f.start # new.start
  <2> SUFFICES ASSUME NEW b \in Requests, Active(b), ~ (Cancels /\ b = t)
               PROVE  Entry(b).org # new.org \/ Entry(b).start # new.start
    BY <1>11 DEF standing
  <2> QED BY <1>3, <1>11, SlotIsFree
<1> HIDE DEF A, E, G, new, old, t, Cancels, Inserts
<1>12. ASSUME Inserts, ~ Cancels \/ ~ Active(t) PROVE Ledger!Book(new)
  <2>1. \A b \in Requests \ {r} : (b \in A' <=> b \in A) /\ (b \in A => E'[b] = E[b])
    BY <1>6, <1>8, <1>9, <1>12
  <2>2. standing' = standing \cup {new}
    BY <1>6, <1>9, <1>12, <2>1
  <2>3. Ledger!Free(standing, new)
    BY <1>11, <1>12 DEF Ledger!Free
  <2> QED BY <1>3, <1>10, <1>12, <2>2, <2>3 DEF Ledger!Book
<1>13. ASSUME Cancels, Active(t), ~ Inserts PROVE old \in standing /\ Ledger!Release(old)
  <2>1. old \in standing BY <1>6, <1>9, <1>13
  <2>2. standing' = standing \ {old}
    BY <1>1, <1>6, <1>7, <1>8, <1>9, <1>13
  <2> QED BY <1>10, <1>13, <2>1, <2>2 DEF Ledger!Release
<1>14. ASSUME Cancels, Active(t), Inserts PROVE old \in standing /\ Ledger!Move(old, new)
  <2>1. old \in standing BY <1>6, <1>9, <1>14
  <2>2. standing' = (standing \ {old}) \cup {new}
    BY <1>1, <1>6, <1>7, <1>8, <1>9, <1>14
  <2>3. Ledger!Free(standing \ {old}, new)
    BY <1>11, <1>14 DEF Ledger!Free
  <2>4. Op(r) = "reschedule" /\ pc[r] = "commit"
    BY <1>1, <1>14 DEF Ops, Commit, Cancels, Inserts
  <2>5. old.user = local[r].owner /\ old.org = OrgFor(r)
    BY <2>4 DEF AuthInv, Entitled, Steps, Entry, old, t
  <2> QED BY <1>3, <1>10, <1>14, <2>1, <2>2, <2>3, <2>5 DEF Ledger!Move
<1>15. ASSUME Cancels, ~ Active(t), ~ Inserts PROVE UNCHANGED <<standing, given>>
  <2>1. \A b \in Requests : (b \in A' <=> b \in A) /\ (b \in A => E'[b] = E[b])
    BY <1>6, <1>8, <1>9, <1>15
  <2>2. standing' = standing BY <1>6, <2>1
  <2> QED BY <1>10, <1>15, <2>2
<1>16. Cancels \/ Inserts
  BY DEF Cancels, Inserts
<1> QED BY <1>3, <1>12, <1>13, <1>14, <1>15, <1>16, EntryFacts
      DEF Ledger!Next, Inv, old, t, Cancels

\* Seen from outside, every interleaving of requests, failures and retries is
\* a sequence of single bookings, releases and moves.
THEOREM ServiceImplementsLedger == Spec => LedgerSpec
<1>1. Init => Ledger!Init
  BY DEF Init, Ledger!Init, standing, given, Active
<1>2. Inv /\ AuthInv /\ TypeOK' /\ [Next]_vars => [Ledger!Next]_<<standing, given>>
  <2> SUFFICES ASSUME Inv, AuthInv, TypeOK', [Next]_vars
               PROVE  [Ledger!Next]_<<standing, given>>
    OBVIOUS
  <2>1. CASE \E r \in Requests : Commit(r) BY <2>1, CommitRefines
  <2>2. CASE UNCHANGED bookings
    BY <2>2 DEF standing, given, Active, Entry
  <2> QED BY <2>1, <2>2, NextCases, ArriveFrame, HandleFrame, AdministerFrame DEF Tick, vars
<1>3. Spec => [](Inv /\ AuthInv /\ TypeOK)
  <2>1. Inv /\ AuthInv => Inv /\ AuthInv /\ TypeOK BY DEF Inv
  <2> QED BY <2>1, AuthInvariance, PTL
<1> QED BY <1>1, <1>2, <1>3, PTL DEF Spec, LedgerSpec, Ledger!Spec

-----------------------------------------------------------------------------
(***************************************************************************)
(* Bookings take time: ck_bookings_end_after_start is never what refuses.  *)
(***************************************************************************)
DurationRead ==
  \A r \in Requests :
    pc[r] \in {"grid", "exceptions", "update", "insert", "commit"} /\ Op(r) # "cancel"
    => local[r].duration > 0

BookingsTakeTime == \A b \in Requests : bookings[b] # Null => bookings[b].end > bookings[b].start

LengthInv == DurationRead /\ BookingsTakeTime

LEMMA DurationNext == Inv /\ DurationRead /\ [Next]_vars => DurationRead'
<1> SUFFICES ASSUME Inv, DurationRead, [Next]_vars PROVE DurationRead'
  OBVIOUS
<1> USE DEF DurationRead
<1>1. ASSUME NEW r \in Requests, Arrive(r) PROVE DurationRead'
  <2>1. PICK c \in CallType :
           /\ call' = [call EXCEPT ![r] = c]
           /\ local' = [local EXCEPT ![r].owner = c.actor]
           /\ Goto(r, "window") \/ Goto(r, "read") \/ Goto(r, "forbidden")
    BY <1>1, ArriveFrame
  <2> QED BY <2>1 DEF Goto, Op, Inv, TypeOK
<1>2. ASSUME NEW r \in Requests, Handle(r) \/ Fail(r) PROVE DurationRead'
  <2>1. PICK step \in Steps \cup Answers : pc' = [pc EXCEPT ![r] = step]
    BY <1>2, HandleFrame
  <2>2. UNCHANGED call
    BY <1>2, HandleFrame
  <2>3. ASSUME NEW s \in Requests, s # r
        PROVE  local'[s] = local[s] /\ pc'[s] = pc[s]
    BY <1>2, <2>1, <2>3, LocalOthers DEF Inv, TypeOK
  <2>4. /\ step \in {"grid", "exceptions", "update", "insert", "commit"} /\ Op(r) # "cancel"
        => local'[r].duration > 0
    <3>1. pc'[r] = step /\ pc[r] \in Steps BY <1>2, <2>1, HandleFrame DEF Inv, TypeOK
    <3>2. CASE ReadBooking(r)
      BY <3>1, <3>2 DEF ReadBooking, Goto, Inv, TypeOK
    <3>3. CASE ReadOrg(r)
      <4>1. settings[OrgFor(r)].duration > 0
        BY <3>1, CallFacts DEF Inv, TypeOK, CallOK, ConfigTypeOK, Settings, Steps
      <4> QED BY <4>1, <3>3 DEF ReadOrg, Inv, TypeOK
    <3>4. CASE CheckExceptions(r)
      BY <3>1, <3>4 DEF CheckExceptions, Goto, Inv, TypeOK
    <3>5. CASE UNCHANGED local
      <4>1. CASE CheckGrid(r) BY <3>1, <3>5, <4>1 DEF CheckGrid, Goto, Inv, TypeOK
      <4>2. CASE FlushCancel(r) BY <3>1, <3>5, <4>2 DEF FlushCancel, Goto, Inv, TypeOK
      <4>3. CASE FlushInsert(r) BY <3>1, <3>5, <4>3 DEF FlushInsert, Goto, Inv, TypeOK
      <4>4. CASE Commit(r) BY <3>1, <4>4 DEF Commit, Goto, Inv, TypeOK
      <4>5. CASE Respond(r) BY <3>1, <4>5 DEF Respond, Goto, Inv, TypeOK
      <4>6. CASE DeadlockVictim(r) BY <3>1, <4>6 DEF DeadlockVictim, Goto, Inv, TypeOK
      <4>7. CASE Fail(r) BY <3>1, <4>7 DEF Fail, Goto, Inv, TypeOK
      <4>8. CASE ReadOrg(r) \/ ReadBooking(r) \/ CheckExceptions(r)
        BY <3>2, <3>3, <3>4, <4>8
      <4> QED BY <1>2, <4>1, <4>2, <4>3, <4>4, <4>5, <4>6, <4>7, <4>8 DEF Handle
    <3> QED BY <1>2, <3>2, <3>3, <3>4, <3>5, HandleFrame
  <2> QED BY <2>1, <2>2, <2>3, <2>4 DEF Inv, TypeOK, Op
<1>3. CASE UNCHANGED <<pc, call, local>>
  BY <1>3 DEF Op
<1> QED BY <1>1, <1>2, <1>3, NextCases, AdministerFrame DEF Tick, vars

LEMMA LengthNext == Inv /\ LengthInv /\ [Next]_vars => LengthInv'
<1> SUFFICES ASSUME Inv, LengthInv, [Next]_vars PROVE BookingsTakeTime'
  BY DurationNext DEF LengthInv
<1> USE DEF LengthInv, BookingsTakeTime
<1>1. ASSUME NEW r \in Requests, Commit(r), NEW b \in Requests, bookings'[b] # Null
      PROVE  bookings'[b].end > bookings'[b].start
  <2>1. /\ call[r] \in CallType /\ pc[r] = "commit"
        /\ bookings'[b] = IF Op(r) # "create" /\ b = Target(r)
                            THEN Cancelled(r, bookings[b])
                          ELSE IF Op(r) # "cancel" /\ b = r
                            THEN NewBooking(r)
                          ELSE bookings[b]
    BY <1>1, CommitRows DEF Inv, SlotInv, Commit
  <2>2. CASE Op(r) # "create" /\ b = Target(r)
    <3>1. bookings[b] \in BookingRows /\ bookings[b] # Null
      BY <1>1, <2>2, CommitRows, NullAssumption DEF Inv, SlotInv
    <3> QED BY <2>1, <2>2, <3>1 DEF Cancelled, BookingRows
  <2>3. CASE ~ (Op(r) # "create" /\ b = Target(r)) /\ Op(r) # "cancel" /\ b = r
    <3>1. local[r].duration \in Nat /\ local[r].duration > 0
      BY <2>1, <2>3 DEF DurationRead, Inv, TypeOK
    <3>2. local[r].duration * Minute > 0 /\ local[r].duration * Minute \in Int
      BY <3>1, CalendarAssumption, SMT
    <3>3. call[r].start \in Int BY <2>1, CallFacts
    <3> QED BY <2>1, <2>3, <3>2, <3>3 DEF NewBooking, Slot, SlotAt
  <2>4. CASE ~ (Op(r) # "create" /\ b = Target(r)) /\ ~ (Op(r) # "cancel" /\ b = r)
    BY <1>1, <2>1, <2>4
  <2> QED BY <2>2, <2>3, <2>4
<1>2. CASE UNCHANGED bookings BY <1>2
<1> QED BY <1>1, <1>2, NextCases, ArriveFrame, HandleFrame, AdministerFrame DEF Tick, vars

LEMMA LengthInit == Init => LengthInv
BY DEF Init, LengthInv, DurationRead, BookingsTakeTime

\* Every booking ends after it begins, which ck_bookings_end_after_start
\* demands: no insert is ever refused by that constraint.
THEOREM BookingsAlwaysTakeTime == Spec => []BookingsTakeTime
<1>1. Inv /\ LengthInv /\ [Next]_vars => LengthInv'
  BY LengthNext
<1>2. LengthInv => BookingsTakeTime BY DEF LengthInv
<1> QED BY <1>1, <1>2, LengthInit, Invariance, PTL DEF Spec

-----------------------------------------------------------------------------
(***************************************************************************)
(* Exceptions: a request that passed its check stays clear of every        *)
(* exception that has held since its arrival.                              *)
(***************************************************************************)
InForceHold == \A r \in Requests : call[r] # Null => inForce[r] \subseteq exceptions[OrgFor(r)]

ClearOfForce ==
  \A r \in Requests : pc[r] \in {"update", "insert", "commit"} /\ Op(r) # "cancel"
    => \A e \in inForce[r] : ~ Overlap(e, Slot(r))

ForceInv == InForceHold /\ ClearOfForce

LEMMA InForceNext == Inv /\ InForceHold /\ [Next]_vars => InForceHold'
<1> SUFFICES ASSUME Inv, InForceHold, [Next]_vars PROVE InForceHold'
  OBVIOUS
<1> USE DEF InForceHold, OrgFor
<1>1. ASSUME NEW r \in Requests, Arrive(r) PROVE InForceHold'
  <2>1. PICK c \in CallType :
           /\ call' = [call EXCEPT ![r] = c]
           /\ inForce' = [inForce EXCEPT ![r] = exceptions[OrgOf[c.actor]]]
    BY <1>1, ArriveFrame
  <2>2. UNCHANGED exceptions BY <1>1, ArriveFrame
  <2> QED BY <2>1, <2>2 DEF Inv, TypeOK
<1>2. ASSUME NEW r \in Requests, Handle(r) \/ Fail(r) PROVE InForceHold'
  BY <1>2, HandleFrame
<1>3. CASE Administer
  <2>1. /\ UNCHANGED call
        /\ inForce' = [r \in Requests |-> IF call[r] = Null THEN inForce[r]
                                          ELSE inForce[r] \cap exceptions'[OrgFor(r)]]
    BY <1>3 DEF Administer
  <2> QED BY <2>1
<1>4. CASE UNCHANGED <<exceptions, call, inForce>> BY <1>4
<1> QED BY <1>1, <1>2, <1>3, <1>4, NextCases DEF Tick, vars, config

LEMMA ClearNext == Inv /\ ForceInv /\ [Next]_vars => ClearOfForce'
<1> SUFFICES ASSUME Inv, ForceInv, [Next]_vars PROVE ClearOfForce'
  OBVIOUS
<1> USE DEF ForceInv, ClearOfForce
<1>1. ASSUME NEW r \in Requests, Arrive(r) PROVE ClearOfForce'
  <2>1. PICK c \in CallType :
           /\ call' = [call EXCEPT ![r] = c]
           /\ local' = [local EXCEPT ![r].owner = c.actor]
           /\ inForce' = [inForce EXCEPT ![r] = exceptions[OrgOf[c.actor]]]
           /\ Goto(r, "window") \/ Goto(r, "read") \/ Goto(r, "forbidden")
    BY <1>1, ArriveFrame
  <2> QED BY <2>1 DEF Goto, Op, Slot, Inv, TypeOK
<1>2. ASSUME NEW r \in Requests, Handle(r) \/ Fail(r) PROVE ClearOfForce'
  <2>1. PICK step \in Steps \cup Answers : pc' = [pc EXCEPT ![r] = step]
    BY <1>2, HandleFrame
  <2>2. UNCHANGED <<call, inForce>>
    BY <1>2, HandleFrame
  <2>3. ASSUME NEW s \in Requests, s # r
        PROVE  local'[s] = local[s] /\ pc'[s] = pc[s]
    BY <1>2, <2>1, <2>3, LocalOthers DEF Inv, TypeOK
  <2>4. step \in {"update", "insert", "commit"} /\ Op(r) # "cancel"
        => /\ \A e \in inForce[r] : ~ Overlap(e, Slot(r))
           /\ local'[r].duration = local[r].duration
    <3>1. pc'[r] = step /\ pc[r] \in Steps /\ call[r] # Null
      BY <1>2, <2>1, HandleFrame, NullAssumption DEF Inv, TypeOK, CallOK, Steps
    <3>2. CASE ReadBooking(r)
      <4>1. step # "update" \/ Op(r) = "cancel"
        BY <3>1, <3>2 DEF ReadBooking, Goto, Inv, TypeOK
      <4>2. step \notin {"insert", "commit"}
        BY <3>1, <3>2 DEF ReadBooking, Goto, Inv, TypeOK
      <4> QED BY <4>1, <4>2
    <3>3. CASE ReadOrg(r) BY <3>1, <3>3 DEF ReadOrg, Goto, Inv, TypeOK
    <3>4. CASE CheckGrid(r) BY <3>1, <3>4 DEF CheckGrid, Goto, Inv, TypeOK
    <3>5. CASE CheckExceptions(r)
      <4>1. CASE ~ ClearOfExceptions(exceptions[OrgFor(r)], Slot(r))
        BY <3>1, <3>5, <4>1 DEF CheckExceptions, Goto, Inv, TypeOK
      <4>2. CASE ClearOfExceptions(exceptions[OrgFor(r)], Slot(r))
        <5>1. \A e \in inForce[r] : ~ Overlap(e, Slot(r))
          BY <3>1, <4>2 DEF ClearOfExceptions, InForceHold
        <5>2. local'[r].duration = local[r].duration
          BY <3>5 DEF CheckExceptions, Inv, TypeOK
        <5> QED BY <5>1, <5>2
      <4> QED BY <4>1, <4>2
    <3>6. CASE FlushCancel(r) BY <3>1, <3>6 DEF FlushCancel, Goto, Inv, TypeOK
    <3>7. CASE FlushInsert(r) BY <3>1, <3>7 DEF FlushInsert, Goto, Inv, TypeOK
    <3>8. CASE Commit(r) BY <3>1, <3>8 DEF Commit, Goto, Inv, TypeOK
    <3>9. CASE Respond(r) BY <3>1, <3>9 DEF Respond, Goto, Inv, TypeOK
    <3>10. CASE DeadlockVictim(r) BY <3>1, <3>10 DEF DeadlockVictim, Goto, Inv, TypeOK
    <3>11. CASE Fail(r) BY <3>1, <3>11 DEF Fail, Goto, Inv, TypeOK
    <3> QED BY <1>2, <3>2, <3>3, <3>4, <3>5, <3>6, <3>7, <3>8, <3>9, <3>10, <3>11 DEF Handle
  <2>5. pc'[r] = step BY <1>2, <2>1 DEF Inv, TypeOK
  <2> QED BY <2>2, <2>3, <2>4, <2>5 DEF Op, Slot
<1>3. CASE Administer
  <2>1. /\ UNCHANGED <<pc, call, local>>
        /\ \A r \in Requests : inForce'[r] \subseteq inForce[r]
    BY <1>3 DEF Administer
  <2> QED BY <2>1 DEF Op, Slot
<1>4. CASE UNCHANGED <<pc, call, local, inForce>> BY <1>4 DEF Op, Slot
<1> QED BY <1>1, <1>2, <1>3, <1>4, NextCases DEF Tick, vars

\* An exception that was in force from a request's arrival to its commit keeps
\* it from booking over it, whatever administrators write meanwhile.
THEOREM ExceptionsAreRespected == Spec => ExceptionsRespected
<1>1. Init => ForceInv
  BY DEF Init, ForceInv, InForceHold, ClearOfForce
<1>2. Inv /\ ForceInv /\ [Next]_vars => ForceInv'
  BY InForceNext, ClearNext DEF ForceInv
<1>3. Inv /\ ForceInv /\ [Next]_vars
      => [\A r \in Requests : bookings[r] = Null /\ bookings'[r] # Null
            => \A e \in inForce[r] : ~ Overlap(e, bookings'[r])]_vars
  <2> SUFFICES ASSUME Inv, ForceInv, [Next]_vars, NEW r \in Requests,
                      bookings[r] = Null, bookings'[r] # Null, NEW e \in inForce[r]
               PROVE  ~ Overlap(e, bookings'[r])
    OBVIOUS
  <2>1. ASSUME NEW s \in Requests, Commit(s) PROVE ~ Overlap(e, bookings'[r])
    <3>1. /\ pc[s] = "commit"
          /\ Op(s) # "create" => bookings[Target(s)] # Null
          /\ bookings'[r] = IF Op(s) # "create" /\ r = Target(s)
                              THEN Cancelled(s, bookings[r])
                            ELSE IF Op(s) # "cancel" /\ r = s
                              THEN NewBooking(s)
                            ELSE bookings[r]
      BY <2>1, CommitRows, NullAssumption DEF Inv, SlotInv, Commit
    <3>2. r = s /\ Op(r) # "cancel" /\ bookings'[r] = NewBooking(r)
      BY <3>1
    <3>3. ~ Overlap(e, Slot(r))
      BY <3>1, <3>2 DEF ForceInv, ClearOfForce
    <3> QED BY <3>2, <3>3 DEF NewBooking, Overlap
  <2>2. CASE UNCHANGED bookings BY <2>2
  <2> QED BY <2>1, <2>2, NextCases, ArriveFrame, HandleFrame, AdministerFrame DEF Tick, vars
<1> QED BY <1>1, <1>2, <1>3, Invariance, PTL DEF Spec, ExceptionsRespected

-----------------------------------------------------------------------------
(***************************************************************************)
(* One winner.  While only creators have come, whoever has committed has   *)
(* an active booking and whoever was refused was refused by one; nobody    *)
(* takes it away, since creators cancel nothing.                           *)
(***************************************************************************)
OnlyCreators == \A r \in Requests : pc[r] # "idle" => Op(r) = "create"

Settled(r) ==
  /\ pc[r] \in {"refresh", "ok"} => Active(r) /\ HasKey(r, r)
  /\ pc[r] = "conflict" => \E b \in Requests : Active(b) /\ HasKey(b, r)

WinnerInv == OnlyCreators => \A r \in Requests : Settled(r)

LEMMA CreatorsKeepRows ==
  ASSUME Inv, OnlyCreators, NEW r \in Requests, Handle(r) \/ Fail(r),
         NEW b \in Requests, bookings[b] # Null
  PROVE  bookings'[b] = bookings[b]
<1>1. CASE Commit(r)
  <2>1. Op(r) = "create" /\ b # r
    BY <1>1, CommitRows DEF Inv, SlotInv, OnlyCreators, Commit
  <2> QED BY <1>1, <2>1, CommitRows DEF Inv, SlotInv
<1> QED BY <1>1, HandleFrame

LEMMA WinnerStep ==
  ASSUME Inv, OnlyCreators, NEW r \in Requests, Settled(r), Handle(r) \/ Fail(r)
  PROVE  Settled(r)'
<1>1. PICK step \in Steps \cup Answers : pc' = [pc EXCEPT ![r] = step]
  BY HandleFrame
<1>2. /\ pc'[r] = step /\ pc[r] \in Steps /\ UNCHANGED call
      /\ Op(r) = "create" /\ call[r] \in CallType
  BY <1>1, HandleFrame DEF Inv, TypeOK, CallOK, OnlyCreators, Steps
<1>3. pc[r] # "read" /\ pc[r] # "update"
  BY <1>2 DEF Inv, SlotInv, PhaseOK
<1>4. CASE Commit(r)
  <2>1. step = "refresh" BY <1>2, <1>4 DEF Commit, Goto, Inv, TypeOK
  <2>2. bookings'[r] = NewBooking(r)
    BY <1>2, <1>4, CommitRows DEF Inv, SlotInv
  <2>3. NewBooking(r) # Null BY <1>2, NewRow DEF Inv, Steps
  <2>4. Active(r)' BY <2>2, <2>3 DEF Active, NewBooking
  <2>5. HasKey(r, r)'
    BY <1>2, <2>2 DEF HasKey, NewBooking, OrgFor, Slot, SlotAt
  <2> QED BY <1>2, <2>1, <2>4, <2>5 DEF Settled
<1>5. CASE ~ Commit(r)
  <2>1. UNCHANGED bookings BY <1>5, HandleFrame
  <2>2. step \in {"refresh", "ok"} => Active(r) /\ HasKey(r, r)
    <3>1. CASE ReadOrg(r) BY <1>2, <3>1 DEF ReadOrg, Goto, Inv, TypeOK
    <3>2. CASE CheckGrid(r) BY <1>2, <3>2 DEF CheckGrid, Goto, Inv, TypeOK
    <3>3. CASE CheckExceptions(r) BY <1>2, <3>3 DEF CheckExceptions, Goto, Inv, TypeOK
    <3>4. CASE FlushInsert(r) BY <1>2, <3>4 DEF FlushInsert, Goto, Inv, TypeOK
    <3>5. CASE Respond(r) BY <3>5 DEF Respond, Settled
    <3>6. CASE DeadlockVictim(r) BY <1>2, <3>6 DEF DeadlockVictim, Goto, Inv, TypeOK
    <3>7. CASE Fail(r) BY <1>2, <3>7 DEF Fail, Goto, Inv, TypeOK
    <3>8. ~ ReadBooking(r) /\ ~ FlushCancel(r)
      BY <1>3 DEF ReadBooking, FlushCancel
    <3> QED BY <1>5, <3>1, <3>2, <3>3, <3>4, <3>5, <3>6, <3>7, <3>8 DEF Handle
  <2>3. step = "conflict" => \E b \in Requests : Active(b) /\ HasKey(b, r)
    <3>1. CASE ReadOrg(r) BY <1>2, <3>1 DEF ReadOrg, Goto, Inv, TypeOK
    <3>2. CASE CheckGrid(r) BY <1>2, <3>2 DEF CheckGrid, Goto, Inv, TypeOK
    <3>3. CASE CheckExceptions(r) BY <1>2, <3>3 DEF CheckExceptions, Goto, Inv, TypeOK
    <3>4. CASE FlushInsert(r)
      BY <1>2, <3>4 DEF FlushInsert, SlotTaken, Goto, Inv, TypeOK
    <3>5. CASE Respond(r) BY <1>2, <3>5 DEF Respond, Goto, Inv, TypeOK
    <3>6. CASE DeadlockVictim(r) BY <1>2, <3>6 DEF DeadlockVictim, Goto, Inv, TypeOK
    <3>7. CASE Fail(r) BY <1>2, <3>7 DEF Fail, Goto, Inv, TypeOK
    <3>8. ~ ReadBooking(r) /\ ~ FlushCancel(r)
      BY <1>3 DEF ReadBooking, FlushCancel
    <3> QED BY <1>5, <3>1, <3>2, <3>3, <3>4, <3>5, <3>6, <3>7, <3>8 DEF Handle
  <2> QED BY <1>2, <2>1, <2>2, <2>3 DEF Settled, Active, HasKey, OrgFor
<1> QED BY <1>4, <1>5

LEMMA WinnerNext == Inv /\ WinnerInv /\ [Next]_vars => WinnerInv'
<1> SUFFICES ASSUME Inv, WinnerInv, [Next]_vars, OnlyCreators', NEW s \in Requests
             PROVE  Settled(s)'
  BY DEF WinnerInv
<1>1. ASSUME NEW r \in Requests, Arrive(r) PROVE Settled(s)'
  <2>1. PICK c \in CallType :
          /\ call' = [call EXCEPT ![r] = c]
          /\ Goto(r, "window") \/ Goto(r, "read") \/ Goto(r, "forbidden")
    BY <1>1, ArriveFrame
  <2>2. /\ pc[r] = "idle" /\ UNCHANGED bookings
        /\ pc'[r] \in {"window", "read", "forbidden"}
        /\ \A x \in Requests : x # r => pc'[x] = pc[x] /\ call'[x] = call[x]
    BY <1>1, <2>1, ArriveFrame DEF Goto, Inv, TypeOK
  <2>3. OnlyCreators
    BY <2>2 DEF OnlyCreators, Op
  <2> QED BY <2>2, <2>3 DEF WinnerInv, Settled, Active, HasKey, OrgFor
<1>2. ASSUME NEW r \in Requests, Handle(r) \/ Fail(r) PROVE Settled(s)'
  <2>1. PICK step \in Steps \cup Answers : pc' = [pc EXCEPT ![r] = step]
    BY <1>2, HandleFrame
  <2>2. /\ UNCHANGED call /\ pc[r] \in Steps /\ pc'[r] = step
        /\ \A x \in Requests : x # r => pc'[x] = pc[x]
    BY <1>2, <2>1, HandleFrame DEF Inv, TypeOK
  <2>3. OnlyCreators
    BY <2>1, <2>2 DEF OnlyCreators, Op, Steps, Answers
  <2>4. Settled(s) BY <2>3 DEF WinnerInv
  <2>5. CASE s = r BY <1>2, <2>3, <2>4, <2>5, WinnerStep
  <2>6. CASE s # r
    <3>1. \A b \in Requests : Active(b) => bookings'[b] = bookings[b]
      BY <1>2, <2>3, CreatorsKeepRows DEF Active
    <3>2. \A b \in Requests : Active(b) /\ HasKey(b, s) => Active(b)' /\ HasKey(b, s)'
      BY <2>2, <3>1 DEF Active, HasKey, OrgFor
    <3> QED BY <2>2, <2>4, <2>6, <3>2 DEF Settled
  <2> QED BY <2>5, <2>6
<1>3. CASE UNCHANGED <<bookings, pc, call>>
  BY <1>3 DEF WinnerInv, OnlyCreators, Settled, Active, HasKey, OrgFor, Op
<1> QED BY <1>1, <1>2, <1>3, NextCases, AdministerFrame DEF Tick, vars

\* The concurrency test for any number of creators and slots: when all have
\* been answered and nothing failed, each slot has one booking, of the one
\* that was told so.
THEOREM OneCreatorWins == Spec => []ExactlyOneWinner
<1>1. Init => WinnerInv
  BY DEF Init, WinnerInv, Settled
<1>2. Inv /\ WinnerInv => ExactlyOneWinner
  <2> SUFFICES ASSUME Inv, WinnerInv, NEW r \in Requests,
                      \A s \in Requests : pc[s] \in {"ok", "conflict"} /\ Op(s) = "create"
               PROVE  \E w \in Requests :
                        /\ pc[w] = "ok" /\ SameKey(w, r) /\ Active(w)
                        /\ \A s \in Requests \ {w} : SameKey(s, r) => pc[s] = "conflict"
    BY DEF ExactlyOneWinner
  <2>1. \A s \in Requests : Settled(s) BY DEF WinnerInv, OnlyCreators
  <2>2. PICK w \in Requests : Active(w) /\ HasKey(w, r)
    BY <2>1 DEF Settled
  <2>3. pc[w] = "ok"
    BY <2>2 DEF Active, Inv, SlotInv, FreshRows
  <2>4. HasKey(w, w) BY <2>1, <2>3 DEF Settled
  <2>5. SameKey(w, r) BY <2>2, <2>4 DEF HasKey, SameKey
  <2>6. ASSUME NEW s \in Requests \ {w}, SameKey(s, r), pc[s] = "ok" PROVE FALSE
    <3>1. Active(s) /\ HasKey(s, s) BY <2>1, <2>6 DEF Settled
    <3> QED BY <2>2, <2>6, <3>1 DEF Inv, SlotInv, OneActivePerSlot, HasKey, SameKey
  <2> QED BY <2>2, <2>3, <2>5, <2>6
<1> QED BY <1>1, <1>2, WinnerNext, Invariance, PTL DEF Spec

-----------------------------------------------------------------------------
(***************************************************************************)
(* What becomes of the booking that a reschedule replaces.  The row is     *)
(* read once, and not looked at again when it is updated: it stays active  *)
(* unless another move or cancellation of it commits in between.           *)
(***************************************************************************)
\* r has found its target active, and not replaced it yet.
Moving(r) ==
  /\ Op(r) = "reschedule"
  /\ pc[r] \in {"window", "grid", "exceptions", "update", "insert", "commit"}

\* Somebody else has moved or cancelled the target of r.
Outrun(r) == \E s \in Requests \ {r} : MayHaveEnded(s, Target(r))

\* No two requests that move or cancel one booking are under way at once.
OneAtATime ==
  \A r, s \in Requests :
    /\ r # s /\ pc[r] \in Steps /\ pc[s] \in Steps
    /\ Op(r) # "create" /\ Op(s) # "create"
    => Target(r) # Target(s)

\* Only the commit of r makes its row.
LEMMA NewRowCommits ==
  ASSUME Inv, [Next]_vars, NEW r \in Requests, bookings[r] = Null, bookings'[r] # Null
  PROVE  pc[r] = "commit"
<1>1. PICK s \in Requests : Commit(s)
  BY NextCases, ArriveFrame, HandleFrame, AdministerFrame DEF Tick, vars
<1>2. CASE s = r BY <1>1, <1>2 DEF Commit
<1>3. CASE s # r BY <1>1, <1>3, CommitRows, NullAssumption DEF Inv, SlotInv
<1> QED BY <1>2, <1>3

LEMMA TargetStep ==
  ASSUME Inv, [Next]_vars, NEW r \in Requests, Moving(r)', Moving(r) => Active(Target(r))
  PROVE  /\ UNCHANGED call[r]
         /\ \/ Active(Target(r))'
            \/ \E s \in Requests \ {r} : /\ Commit(s) /\ Moving(r)
                                         /\ Op(s) # "create" /\ Target(s) = Target(r)
<1> USE DEF Moving
<1>1. ASSUME NEW s \in Requests, Arrive(s) PROVE s # r /\ UNCHANGED <<bookings, pc[r], call[r]>>
  <2>1. PICK c \in CallType :
          /\ call' = [call EXCEPT ![s] = c]
          /\ \/ c.op # "reschedule" \/ Goto(s, "read") \/ Goto(s, "forbidden")
    BY <1>1, ArriveFrame
  <2>2. s # r /\ UNCHANGED <<pc[r], call[r]>>
    <3>1. s # r
      BY <2>1 DEF Goto, Inv, TypeOK, Op
    <3>2. \E step : Goto(s, step) BY <1>1, ArriveFrame
    <3> QED BY <2>1, <3>1, <3>2 DEF Goto, Inv, TypeOK
  <2> QED BY <1>1, <2>2, ArriveFrame
<1>2. ASSUME NEW s \in Requests, Handle(s) \/ Fail(s), s # r
      PROVE  /\ UNCHANGED call[r]
             /\ Active(Target(r))' \/ (Commit(s) /\ Moving(r)
                                       /\ Op(s) # "create" /\ Target(s) = Target(r))
  <2>1. UNCHANGED <<pc[r], call[r]>>
    BY <1>2, HandleFrame DEF Inv, TypeOK
  <2>2. Moving(r) /\ Target(r)' = Target(r) BY <2>1 DEF Op, Target
  <2>3. Active(Target(r)) /\ bookings[Target(r)] # Null BY <2>2 DEF Active
  <2>4. CASE UNCHANGED bookings BY <2>1, <2>2, <2>3, <2>4 DEF Active
  <2>5. CASE Commit(s) /\ ~ (Op(s) # "create" /\ Target(s) = Target(r))
    <3>1. Target(r) \in Requests /\ Target(r) # s
      <4>1. call[r] \in CallType BY <2>2 DEF Inv, CallOK
      <4>2. Target(r) \in Requests BY <2>2, <4>1, CallFacts
      <4> QED BY <2>3, <2>5, <4>2, CommitRows DEF Inv, SlotInv
    <3>2. bookings'[Target(r)] = bookings[Target(r)]
      BY <2>5, <3>1, CommitRows DEF Inv, SlotInv
    <3> QED BY <2>1, <2>2, <2>3, <3>2 DEF Active
  <2> QED BY <1>2, <2>1, <2>2, <2>4, <2>5, HandleFrame
<1>3. ASSUME Handle(r) \/ Fail(r)
      PROVE  UNCHANGED call[r] /\ Active(Target(r))'
  <2>1. UNCHANGED call BY <1>3, HandleFrame
  <2>2. Op(r) = "reschedule" /\ Target(r)' = Target(r) BY <2>1 DEF Op, Target
  <2>3. pc[r] = "read" \/ Moving(r)
    <3>1. ~ Fail(r) /\ ~ Respond(r) /\ ~ DeadlockVictim(r) /\ ~ Commit(r)
      BY DEF Fail, Respond, DeadlockVictim, Commit, Goto, Inv, TypeOK
    <3> QED BY <1>3, <2>2, <3>1 DEF Handle, ReadBooking, ReadOrg, CheckGrid,
          CheckExceptions, FlushCancel, FlushInsert
  <2>4. UNCHANGED bookings
    <3>1. ~ Commit(r) BY DEF Commit, Goto, Inv, TypeOK
    <3> QED BY <1>3, <3>1, HandleFrame
  <2>5. Active(Target(r))
    <3>1. CASE pc[r] = "read"
      <4>1. ReadBooking(r)
        <5>1. ~ Fail(r) BY DEF Fail, Goto, Inv, TypeOK
        <5> QED BY <1>3, <3>1, <5>1 DEF Handle, ReadOrg, CheckGrid, CheckExceptions,
              FlushCancel, FlushInsert, Commit, Respond, DeadlockVictim, Deadlocked, WaitsFor
      <4> QED BY <4>1 DEF ReadBooking, Goto, Inv, TypeOK
    <3> QED BY <2>3, <3>1
  <2> QED BY <2>1, <2>2, <2>4, <2>5 DEF Active
<1>4. CASE Administer \/ Tick \/ UNCHANGED vars
  <2>1. UNCHANGED <<bookings, pc, call>> BY <1>4, AdministerFrame DEF Tick, vars
  <2> QED BY <2>1 DEF Active, Target, Op
<1>5. ASSUME UNCHANGED <<bookings, pc[r], call[r]>> PROVE Active(Target(r))'
  BY <1>5 DEF Active, Target, Op
<1> QED BY <1>1, <1>2, <1>3, <1>4, <1>5, NextCases

\* What a reschedule has found active is active, or somebody has outrun it.
MovedInv == \A r \in Requests : Moving(r) => Active(Target(r)) \/ Outrun(r)

LEMMA EndedStays ==
  ASSUME Inv, [Next]_vars, NEW s \in Requests, NEW b, MayHaveEnded(s, b)
  PROVE  MayHaveEnded(s, b)'
<1>1. pc[s] \in {"refresh", "ok", "error"} BY DEF MayHaveEnded
<1>2. UNCHANGED call[s] /\ pc'[s] \in {"refresh", "ok", "error"}
  <2>1. ASSUME NEW q \in Requests, Arrive(q)
        PROVE  UNCHANGED call[s] /\ pc'[s] \in {"refresh", "ok", "error"}
    <3>1. q # s BY <1>1, <2>1, ArriveFrame
    <3>2. (\E c : call' = [call EXCEPT ![q] = c]) /\ (\E step : Goto(q, step))
      BY <2>1, ArriveFrame
    <3> QED BY <1>1, <3>1, <3>2 DEF Goto, Inv, TypeOK
  <2>2. ASSUME NEW q \in Requests, Handle(q) \/ Fail(q)
        PROVE  UNCHANGED call[s] /\ pc'[s] \in {"refresh", "ok", "error"}
    <3>1. UNCHANGED call /\ pc[q] \in Steps /\ \E step : pc' = [pc EXCEPT ![q] = step]
      BY <2>2, HandleFrame
    <3>2. CASE q # s BY <1>1, <3>1, <3>2 DEF Inv, TypeOK
    <3>3. CASE q = s
      <4>1. pc[q] = "refresh" BY <1>1, <3>1, <3>3 DEF Steps
      <4>2. Respond(q) \/ Fail(q)
        BY <2>2, <4>1 DEF Handle, ReadBooking, ReadOrg, CheckGrid, CheckExceptions,
          FlushCancel, FlushInsert, Commit, DeadlockVictim, Deadlocked, WaitsFor
      <4> QED BY <3>1, <3>3, <4>2 DEF Respond, Fail, Goto, Inv, TypeOK
    <3> QED BY <3>2, <3>3
  <2>3. CASE Administer \/ Tick \/ UNCHANGED vars
    BY <1>1, <2>3, AdministerFrame DEF Tick, vars
  <2> QED BY <2>1, <2>2, <2>3, NextCases
<1> QED BY <1>2 DEF MayHaveEnded, Op, Target

LEMMA OutrunStays ==
  ASSUME Inv, [Next]_vars, NEW r \in Requests, UNCHANGED call[r], Outrun(r)
  PROVE  Outrun(r)'
<1>1. PICK s \in Requests \ {r} : MayHaveEnded(s, Target(r))
  BY DEF Outrun
<1>2. MayHaveEnded(s, Target(r))' BY <1>1, EndedStays DEF Target
<1> QED BY <1>2 DEF Outrun

LEMMA MovedNext == Inv /\ MovedInv /\ [Next]_vars => MovedInv'
<1> SUFFICES ASSUME Inv, MovedInv, [Next]_vars, NEW r \in Requests, Moving(r)',
                    ~ Active(Target(r))'
             PROVE  Outrun(r)'
  BY DEF MovedInv
<1>1. CASE Moving(r) => Active(Target(r))
  <2>1. PICK s \in Requests \ {r} : Commit(s) /\ Op(s) # "create" /\ Target(s) = Target(r)
    BY <1>1, TargetStep
  <2>2. UNCHANGED call /\ pc'[s] = "refresh"
    BY <2>1, HandleFrame DEF Handle, Commit, Goto, Inv, TypeOK
  <2> QED BY <2>1, <2>2 DEF Outrun, MayHaveEnded, Op, Target
<1>2. CASE Moving(r) /\ ~ Active(Target(r))
  <2>1. Outrun(r) BY <1>2 DEF MovedInv
  <2>2. UNCHANGED call[r]
    <3>1. pc[r] # "idle" BY <1>2 DEF Moving
    <3> QED BY <3>1, NextCases, ArriveFrame, HandleFrame, AdministerFrame
          DEF Tick, vars, Inv, TypeOK
  <2> QED BY <2>1, <2>2, OutrunStays
<1> QED BY <1>1, <1>2

\* A reschedule that replaces a booking which is active no more has a rival
\* that moved or cancelled this booking, and committed first.
THEOREM ReplacedOrOutrun ==
  Spec => [][\A r \in Requests :
               bookings[r] = Null /\ bookings'[r] # Null /\ Op(r) = "reschedule"
               => Active(Target(r)) \/ Outrun(r)]_vars
<1>1. Init => MovedInv BY DEF Init, MovedInv, Moving
<1>2. Inv /\ MovedInv /\ [Next]_vars =>
        [\A r \in Requests :
           bookings[r] = Null /\ bookings'[r] # Null /\ Op(r) = "reschedule"
           => Active(Target(r)) \/ Outrun(r)]_vars
  BY NewRowCommits DEF MovedInv, Moving
<1> QED BY <1>1, <1>2, MovedNext, Invariance, PTL DEF Spec

\* "only active bookings can be rescheduled" (booking_service) is true as long
\* as no two requests that move or cancel one booking are under way at once.
THEOREM LoneReschedulesMoveActive == Spec /\ []OneAtATime => ReschedulesMoveActive
<1> DEFINE Kept == \A r \in Requests : Moving(r) => Active(Target(r))
<1>1. Init => Kept BY DEF Init, Moving
<1>2. Inv /\ Kept /\ OneAtATime /\ [Next]_vars => Kept'
  <2> SUFFICES ASSUME Inv, Kept, OneAtATime, [Next]_vars, NEW r \in Requests, Moving(r)'
               PROVE  Active(Target(r))'
    OBVIOUS
  <2>1. ASSUME NEW s \in Requests \ {r}, Commit(s), Moving(r), Op(s) # "create",
               Target(s) = Target(r)
        PROVE  FALSE
    BY <2>1 DEF OneAtATime, Moving, Commit, Steps
  <2> QED BY <2>1, TargetStep
<1>3. Inv /\ Kept /\ [Next]_vars =>
        [\A r \in Requests : /\ bookings[r] = Null /\ bookings'[r] # Null
                             /\ Op(r) = "reschedule"
           => Active(Target(r))]_vars
  BY NewRowCommits DEF Moving
<1> HIDE DEF Kept
<1> QED BY <1>1, <1>2, <1>3, Invariance, PTL DEF Spec, ReschedulesMoveActive

-----------------------------------------------------------------------------
(***************************************************************************)
(* Swaps.  The later of two moves finds the booking it moves still active, *)
(* unless a third has ended it, and that booking starts where the other    *)
(* has moved to.                                                           *)
(***************************************************************************)
\* A move that is done has left its booking behind, and the one it replaced.
MovesBooked ==
  \A r \in Requests : Moved(r) => /\ bookings[r] # Null /\ bookings[Target(r)] # Null
                                  /\ HasKey(r, r)

\* No booking ends of itself.
SomebodyEnded ==
  \A b \in Requests : bookings[b] # Null /\ ~ Active(b) =>
    \E q \in Requests : MayHaveEnded(q, b)

SwapInv == MovedInv /\ MovesBooked /\ SomebodyEnded /\ SwapsNeedAThird

LEMMA MovedStep ==
  ASSUME Inv, [Next]_vars, NEW r \in Requests, Moved(r)'
  PROVE  /\ UNCHANGED call[r]
         /\ Moved(r) \/ (Commit(r) /\ Op(r) = "reschedule")
<1>1. ASSUME NEW s \in Requests, Arrive(s) PROVE UNCHANGED <<pc[r], call[r]>>
  <2>1. \E c : call' = [call EXCEPT ![s] = c]
    BY <1>1, ArriveFrame
  <2>2. Goto(s, "window") \/ Goto(s, "read") \/ Goto(s, "forbidden")
    BY <1>1, ArriveFrame
  <2>3. s # r BY <2>2 DEF Goto, Inv, TypeOK, Moved
  <2> QED BY <2>1, <2>2, <2>3 DEF Goto, Inv, TypeOK
<1>2. ASSUME NEW s \in Requests, Handle(s) \/ Fail(s), s # r
      PROVE  UNCHANGED <<pc[r], call[r]>>
  BY <1>2, HandleFrame DEF Inv, TypeOK
<1>3. ASSUME Handle(r) \/ Fail(r)
      PROVE  UNCHANGED call[r] /\ (Moved(r) \/ (Commit(r) /\ Op(r) = "reschedule"))
  <2>1. UNCHANGED call BY <1>3, HandleFrame
  <2>2. Op(r) = "reschedule" /\ pc'[r] \in {"refresh", "ok"}
    BY <2>1 DEF Moved, Op
  <2>3. Commit(r) \/ pc[r] = "refresh"
    BY <1>3, <2>2 DEF Handle, ReadBooking, ReadOrg, CheckGrid, CheckExceptions, FlushCancel,
      FlushInsert, Respond, DeadlockVictim, Fail, Goto, Inv, TypeOK
  <2> QED BY <2>1, <2>2, <2>3 DEF Moved
<1>4. CASE Administer \/ Tick \/ UNCHANGED vars
  BY <1>4, AdministerFrame DEF Tick, vars, Moved, Op
<1> QED BY <1>1, <1>2, <1>3, <1>4, NextCases DEF Moved, Op

LEMMA BookedNext == Inv /\ MovesBooked /\ [Next]_vars => MovesBooked'
<1> SUFFICES ASSUME Inv, MovesBooked, [Next]_vars, NEW r \in Requests, Moved(r)'
             PROVE  /\ bookings'[r] # Null /\ bookings'[Target(r)] # Null
                    /\ HasKey(r, r)' /\ Target(r)' = Target(r)
  BY DEF MovesBooked
<1>1. Target(r)' = Target(r) /\ OrgFor(r)' = OrgFor(r) /\ UNCHANGED call[r]
  BY MovedStep DEF Target, OrgFor
<1>2. CASE Moved(r)
  <2>1. Target(r) \in Requests
    BY <1>2, CallFacts DEF Inv, CallOK, Moved
  <2> QED BY <1>1, <1>2, <2>1, RowsRemain DEF MovesBooked, HasKey
<1>3. CASE Commit(r) /\ Op(r) = "reschedule"
  <2>1. Target(r) \in Requests /\ bookings[Target(r)] # Null /\ Target(r) # r
    BY <1>3, CommitRows, NullAssumption DEF Inv, SlotInv
  <2>2. bookings'[r] = NewBooking(r)
    BY <1>3, <2>1, CommitRows DEF Inv, SlotInv
  <2>3. bookings'[r] # Null
    BY <1>3, <2>2, NewRow DEF Commit, Inv
  <2>4. HasKey(r, r)'
    BY <1>1, <2>2 DEF HasKey, NewBooking, Slot, SlotAt
  <2> QED BY <1>1, <2>1, <2>3, <2>4, RowsRemain
<1> QED BY <1>2, <1>3, MovedStep

LEMMA SomebodyNext == Inv /\ SomebodyEnded /\ [Next]_vars => SomebodyEnded'
<1> SUFFICES ASSUME Inv, SomebodyEnded, [Next]_vars, NEW b \in Requests,
                    bookings'[b] # Null, ~ Active(b)'
             PROVE  \E q \in Requests : MayHaveEnded(q, b)'
  BY DEF SomebodyEnded
<1>1. CASE bookings[b] # Null /\ ~ Active(b)
  BY <1>1, EndedStays DEF SomebodyEnded
<1>2. CASE bookings[b] = Null \/ Active(b)
  <2>1. bookings'[b] # bookings[b] BY <1>2 DEF Active
  <2>2. PICK s \in Requests : Commit(s)
    BY <2>1, NextCases, ArriveFrame, HandleFrame, AdministerFrame DEF Tick, vars
  <2>3. NewBooking(s).status = "active" BY DEF NewBooking
  <2>4. Op(s) # "create" /\ b = Target(s)
    BY <2>1, <2>2, <2>3, CommitRows DEF Inv, SlotInv, Active
  <2>5. UNCHANGED call /\ pc'[s] = "refresh"
    BY <2>2, HandleFrame DEF Handle, Commit, Goto, Inv, TypeOK
  <2> QED BY <2>4, <2>5 DEF MayHaveEnded, Op, Target
<1> QED BY <1>1, <1>2

\* The move that commits last, and the other.
LEMMA LaterOfTwo ==
  ASSUME Inv, SwapInv, [Next]_vars, NEW r \in Requests, NEW s \in Requests, r # s,
         Commit(r), Op(r) = "reschedule", Moved(s),
         {Target(r), Target(s)} \cap {r, s} = {}, Target(r) # Target(s),
         HasKey(Target(r), s)
  PROVE  \E q \in Requests \ {r, s}, b \in {Target(r), s} : MayHaveEnded(q, b)'
<1>1. Active(Target(r)) \/ Outrun(r)
  BY DEF SwapInv, MovedInv, Moving, Commit
<1>2. CASE Outrun(r)
  <2>1. PICK q \in Requests \ {r} : MayHaveEnded(q, Target(r)) BY <1>2 DEF Outrun
  <2>2. q # s BY <2>1 DEF MayHaveEnded
  <2> QED BY <2>1, <2>2, EndedStays
<1>3. CASE Active(Target(r))
  <2>1. Target(r) \in Requests BY CommitRows DEF Inv, SlotInv
  <2>2. bookings[s] # Null /\ HasKey(s, s) BY DEF SwapInv, MovesBooked
  <2>3. ~ Active(s)
    BY <1>3, <2>1, <2>2 DEF Inv, SlotInv, OneActivePerSlot, HasKey
  <2>4. PICK q \in Requests : MayHaveEnded(q, s)
    BY <2>2, <2>3 DEF SwapInv, SomebodyEnded
  <2>5. q \notin {r, s} BY <2>4 DEF MayHaveEnded
  <2> QED BY <2>4, <2>5, EndedStays
<1> QED BY <1>1, <1>2, <1>3

LEMMA SwapNext == Inv /\ SwapInv /\ [Next]_vars => SwapsNeedAThird'
<1> SUFFICES ASSUME Inv, SwapInv, [Next]_vars, NEW r \in Requests, NEW s \in Requests,
                    r # s, Moved(r)', Moved(s)',
                    ({Target(r), Target(s)} \cap {r, s} = {})', (Target(r) # Target(s))',
                    HasKey(Target(r), s)', HasKey(Target(s), r)'
             PROVE  (\E q \in Requests \ {r, s}, b \in {Target(r), Target(s), r, s} :
                       MayHaveEnded(q, b))'
  BY DEF SwapsNeedAThird
<1>1. /\ UNCHANGED <<call[r], call[s]>>
      /\ Moved(r) \/ (Commit(r) /\ Op(r) = "reschedule")
      /\ Moved(s) \/ (Commit(s) /\ Op(s) = "reschedule")
  BY MovedStep
<1>2. /\ Target(r)' = Target(r) /\ Target(s)' = Target(s)
      /\ {Target(r), Target(s)} \cap {r, s} = {} /\ Target(r) # Target(s)
  BY <1>1 DEF Target
<1>3. /\ Target(r) \in Requests /\ bookings[Target(r)] # Null
      /\ Target(s) \in Requests /\ bookings[Target(s)] # Null
  BY <1>1, CommitRows, CallFacts, NullAssumption
     DEF Inv, SlotInv, SwapInv, MovesBooked, Moved, CallOK
<1>4. HasKey(Target(r), s) /\ HasKey(Target(s), r)
  BY <1>1, <1>2, <1>3, RowsRemain DEF HasKey, OrgFor
<1>5. CASE Moved(r) /\ Moved(s)
  <2>1. PICK q \in Requests \ {r, s}, b \in {Target(r), Target(s), r, s} : MayHaveEnded(q, b)
    BY <1>2, <1>4, <1>5 DEF SwapInv, SwapsNeedAThird
  <2> QED BY <1>2, <2>1, EndedStays
<1>6. CASE Commit(r) /\ Op(r) = "reschedule" /\ Moved(s)
  BY <1>2, <1>4, <1>6, LaterOfTwo
<1>7. CASE Commit(s) /\ Op(s) = "reschedule" /\ Moved(r)
  BY <1>2, <1>4, <1>7, LaterOfTwo
<1>8. ~ (Commit(r) /\ Commit(s))
  BY DEF Commit, Goto, Moved, Inv, TypeOK
<1> QED BY <1>1, <1>5, <1>6, <1>7, <1>8

\* Two administrators cannot exchange the slots of two bookings by a reschedule
\* of each, at once or in turn, for any number of requests: the slot that the
\* first of the two needs is taken until the second has committed.
THEOREM SwapsTakeAThird == Spec => []SwapsNeedAThird
<1>1. Init => SwapInv
  BY DEF Init, SwapInv, MovedInv, Moving, MovesBooked, Moved, SomebodyEnded, SwapsNeedAThird
<1>2. Inv /\ SwapInv /\ [Next]_vars => SwapInv'
  BY MovedNext, BookedNext, SomebodyNext, SwapNext DEF SwapInv
<1>3. SwapInv => SwapsNeedAThird BY DEF SwapInv
<1> QED BY <1>1, <1>2, <1>3, Invariance, PTL DEF Spec
==============================================================================
