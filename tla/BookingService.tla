---------------------------- MODULE BookingService ----------------------------
(***************************************************************************)
(* The booking lifecycle (backend/app/services/booking_service.py) over    *)
(* PostgreSQL, together with the administrators' writes it races with,     *)
(* which Configuration describes.                                          *)
(*                                                                         *)
(* Each request runs its handler in one database session.  A step is what  *)
(* the handler does from one await on the database to the next, so pc[r]   *)
(* is the statement request r is about to execute, or the answer it gave.  *)
(* Statements read what is committed when they run (READ COMMITTED), and   *)
(* what a session has written becomes visible to the others at its commit. *)
(* A booking takes the name of the request that inserts it: that is its    *)
(* id, which the database draws from a sequence and never gives twice.     *)
(***************************************************************************)
EXTENDS Configuration

CONSTANTS
  Users,
  OrgOf,             \* the organisation of each user
  Admins,            \* the users with role admin
  Zone,              \* the time zone of each organisation; no operation changes it
  Requests,          \* the requests clients may send, each sent once
  Starts,            \* the slot starts clients ask for
  Calls,             \* the calls each request may make
  MaxClock,          \* the clock stops here
  Null               \* SQL's NULL, and the absence of a row or of a call

Ops == {"create", "cancel", "reschedule"}

\* create ignores the target, which need not name a booking; cancel ignores
\* the start.
CallType ==
  {c \in [op : Ops, actor : Users, target : Requests \cup {Null}, start : Starts] :
     c.op # "create" => c.target \in Requests}

BookingRows ==
  [org : Orgs, user : Users, start : Starts, end : Int, status : {"active", "cancelled"},
   cancelledAt : Int \cup {Null}, cancelledBy : Users \cup {Null}]

ASSUME ServiceAssumption ==
  /\ OrgOf \in [Users -> Orgs] /\ Admins \subseteq Users /\ Zone \in [Orgs -> Zones]
  /\ Starts \subseteq Int /\ Calls \in [Requests -> SUBSET CallType] /\ MaxClock \in Nat

ASSUME NullAssumption == Null \notin BookingRows /\ Null \notin CallType /\ Null \notin Users

VARIABLES
  clock,        \* datetime.now(UTC) of every process
  bookings,     \* bookings, by id
  pc,           \* the statement each request executes next, or its answer
  call,         \* what the request asks for
  local,        \* what the handler remembers: duration, owner, now
  inForce       \* history: the exceptions that have held ever since r arrived

vars == <<clock, settings, rules, exceptions, bookings, pc, call, local, inForce>>

Steps == {"read", "window", "grid", "exceptions", "update", "insert", "commit", "refresh"}
Answers == {"ok", "notfound", "conflict", "forbidden", "invalid", "error"}

-----------------------------------------------------------------------------
(***************************************************************************)
(* What the database knows of the running transactions.                    *)
(***************************************************************************)
Op(r) == call[r].op
Actor(r) == call[r].actor
Target(r) == call[r].target
OrgFor(r) == OrgOf[call[r].actor]
Slot(r) == SlotAt(call[r].start, local[r].duration)

Active(b) == bookings[b] # Null /\ bookings[b].status = "active"

\* The key of uniq_active_booking_slot that r inserts, and that a row b has.
SameKey(r, s) == OrgFor(r) = OrgFor(s) /\ call[r].start = call[s].start
HasKey(b, r) == bookings[b].org = OrgFor(r) /\ bookings[b].start = call[r].start

\* r has updated the row of b and not committed yet: it holds the row's lock.
Holds(r, b) ==
  /\ \/ pc[r] = "commit" /\ Op(r) # "create"
     \/ pc[r] = "insert" /\ Op(r) = "reschedule"
  /\ Target(r) = b

\* r has inserted its booking and not committed yet.
Inserted(r) == pc[r] = "commit" /\ Op(r) # "cancel"

\* Mutant: an index that does not see the rows of running transactions.
WaitsForNoInsert(r, s) ==
  /\ r # s /\ pc[r] = "insert"
  /\ \E b \in Requests : Active(b) /\ HasKey(b, r) /\ Holds(s, b)

\* An insert has to know how these transactions end before it can go on.
WaitsFor(r, s) ==
  /\ r # s /\ pc[r] = "insert"
  /\ \/ Inserted(s) /\ SameKey(r, s)
     \/ \E b \in Requests : Active(b) /\ HasKey(b, r) /\ Holds(s, b)

\* Mutant: a unique index on (organization_id, user_id, start_at_utc).
SlotTakenPerUser(r) ==
  \E b \in Requests : /\ Active(b) /\ HasKey(b, r) /\ ~ Holds(r, b)
                      /\ bookings[b].user = local[r].owner

\* The unique index refuses r's row: an active booking has the key, and r has
\* not cancelled it itself.
SlotTaken(r) == \E b \in Requests : Active(b) /\ HasKey(b, r) /\ ~ Holds(r, b)

-----------------------------------------------------------------------------
Init ==
  /\ ConfigInit
  /\ clock = 0
  /\ bookings = [r \in Requests |-> Null]
  /\ pc = [r \in Requests |-> "idle"]
  /\ call = [r \in Requests |-> Null]
  /\ local = [r \in Requests |-> [duration |-> 0, owner |-> Null, now |-> 0]]
  /\ inForce = [r \in Requests |-> {}]

Goto(r, step) == pc' = [pc EXCEPT ![r] = step]

(***************************************************************************)
(* The handlers, statement by statement.                                   *)
(***************************************************************************)
\* The router hands the call to its handler; require_admin guards reschedule.
Arrive(r) ==
  /\ pc[r] = "idle"
  /\ \E c \in Calls[r] :
       /\ call' = [call EXCEPT ![r] = c]
       /\ local' = [local EXCEPT ![r].owner = c.actor]
       /\ inForce' = [inForce EXCEPT ![r] = exceptions[OrgOf[c.actor]]]
       /\ Goto(r, CASE c.op = "create" -> "window"
                    [] c.op = "cancel" -> "read"
                    [] c.op = "reschedule" ->
                         IF c.actor \in Admins THEN "read" ELSE "forbidden")
  /\ UNCHANGED <<clock, config, bookings>>

\* Mutant: _get_booking_in_org that looks the id up in every organisation.
VisibleEverywhere(r) == bookings[Target(r)] # Null

\* _get_booking_in_org and the tests on the booking it returned.
Visible(r) == /\ bookings[Target(r)] # Null
              /\ bookings[Target(r)].org = OrgFor(r)

\* Mutant: owners may cancel what has begun.
MayCancelAnyTime(r) == Actor(r) \in Admins \/ bookings[Target(r)].user = Actor(r)

MayCancel(r) ==
  \/ Actor(r) \in Admins
  \/ bookings[Target(r)].user = Actor(r) /\ bookings[Target(r)].start > clock

ReadBooking(r) ==
  /\ pc[r] = "read"
  /\ \/ /\ ~ Visible(r)
        /\ Goto(r, "notfound") /\ UNCHANGED local
     \/ /\ Visible(r) /\ ~ Active(Target(r))
        /\ Goto(r, "conflict") /\ UNCHANGED local
     \/ /\ Visible(r) /\ Active(Target(r)) /\ Op(r) = "reschedule"
        /\ Goto(r, "window")
        /\ local' = [local EXCEPT ![r].owner = bookings[Target(r)].user]
     \/ /\ Visible(r) /\ Active(Target(r)) /\ Op(r) = "cancel"
        /\ Goto(r, IF MayCancel(r) THEN "update" ELSE "forbidden")
        /\ local' = [local EXCEPT ![r].now = clock]
  /\ UNCHANGED <<clock, config, bookings, call, inForce>>

\* _get_org and _validate_slot_window.
ReadOrg(r) ==
  /\ pc[r] = "window"
  /\ local' = [local EXCEPT ![r].duration = settings[OrgFor(r)].duration]
  /\ Goto(r, IF WithinWindow(settings[OrgFor(r)], clock, call[r].start)
             THEN "grid" ELSE "invalid")
  /\ UNCHANGED <<clock, config, bookings, call, inForce>>

CheckGrid(r) ==
  /\ pc[r] = "grid"
  /\ Goto(r, IF OnGrid(Zone[OrgFor(r)], local[r].duration, rules[OrgFor(r)], Slot(r))
             THEN "exceptions" ELSE "invalid")
  /\ UNCHANGED <<clock, config, bookings, call, local, inForce>>

CheckExceptions(r) ==
  /\ pc[r] = "exceptions"
  /\ \/ /\ ~ ClearOfExceptions(exceptions[OrgFor(r)], Slot(r))
        /\ Goto(r, "invalid") /\ UNCHANGED local
     \/ /\ ClearOfExceptions(exceptions[OrgFor(r)], Slot(r)) /\ Op(r) = "create"
        /\ Goto(r, "insert") /\ UNCHANGED local
     \/ /\ ClearOfExceptions(exceptions[OrgFor(r)], Slot(r)) /\ Op(r) = "reschedule"
        /\ Goto(r, "update") /\ local' = [local EXCEPT ![r].now = clock]
  /\ UNCHANGED <<clock, config, bookings, call, inForce>>

\* UPDATE bookings ... WHERE id = target: waits for the row's lock, then
\* writes whatever the row has become meanwhile.
FlushCancel(r) ==
  /\ pc[r] = "update"
  /\ \A s \in Requests : ~ Holds(s, Target(r))
  /\ Goto(r, IF Op(r) = "reschedule" THEN "insert" ELSE "commit")
  /\ UNCHANGED <<clock, config, bookings, call, local, inForce>>

Cancelled(r, row) ==
  [row EXCEPT !.status = "cancelled", !.cancelledAt = local[r].now, !.cancelledBy = Actor(r)]

\* Mutant: the 409 without its rollback, so that the cancellation is kept.
FlushInsertNoRollback(r) ==
  /\ pc[r] = "insert"
  /\ \A s \in Requests : ~ WaitsFor(r, s)
  /\ Goto(r, IF SlotTaken(r) THEN "conflict" ELSE "commit")
  /\ bookings' = [b \in Requests |-> IF SlotTaken(r) /\ Holds(r, b)
                                     THEN Cancelled(r, bookings[b]) ELSE bookings[b]]
  /\ UNCHANGED <<clock, config, call, local, inForce>>

\* Mutant: an insert that does not wait, but reads a running rival as taken.
FlushInsertNoWait(r) ==
  /\ pc[r] = "insert"
  /\ Goto(r, IF SlotTaken(r) \/ \E s \in Requests : WaitsFor(r, s)
             THEN "conflict" ELSE "commit")
  /\ UNCHANGED <<clock, config, bookings, call, local, inForce>>

\* Mutant: an insert that does not wait for a cancellation under way.
FlushInsertDirty(r) ==
  /\ pc[r] = "insert"
  /\ \A s \in Requests : ~ (WaitsFor(r, s) /\ Inserted(s) /\ SameKey(r, s))
  /\ Goto(r, IF \E b \in Requests : /\ Active(b) /\ HasKey(b, r)
                                    /\ \A s \in Requests : ~ Holds(s, b)
             THEN "conflict" ELSE "commit")
  /\ UNCHANGED <<clock, config, bookings, call, local, inForce>>

\* INSERT INTO bookings: waits for the transactions the index entry depends
\* on; IntegrityError becomes a rollback and the 409.
FlushInsert(r) ==
  /\ pc[r] = "insert"
  /\ \A s \in Requests : ~ WaitsFor(r, s)
  /\ Goto(r, IF SlotTaken(r) THEN "conflict" ELSE "commit")
  /\ UNCHANGED <<clock, config, bookings, call, local, inForce>>

\* Mutant: the row has no user_id.
NewBookingUnowned(r) ==
  [org |-> OrgFor(r), user |-> Null, start |-> Slot(r).start, end |-> Slot(r).end,
   status |-> "active", cancelledAt |-> Null, cancelledBy |-> Null]

\* Mutant: a rescheduled booking goes to the administrator.
NewBookingForActor(r) ==
  [org |-> OrgFor(r), user |-> Actor(r), start |-> Slot(r).start, end |-> Slot(r).end,
   status |-> "active", cancelledAt |-> Null, cancelledBy |-> Null]

NewBooking(r) ==
  [org |-> OrgFor(r), user |-> local[r].owner, start |-> Slot(r).start, end |-> Slot(r).end,
   status |-> "active", cancelledAt |-> Null, cancelledBy |-> Null]

\* Everything r wrote appears at once.
Commit(r) ==
  /\ pc[r] = "commit"
  /\ bookings' = [b \in Requests |->
       CASE Holds(r, b) -> Cancelled(r, bookings[b])
         [] ~ Holds(r, b) /\ b = r /\ Inserted(r) -> NewBooking(r)
         [] OTHER -> bookings[b]]
  /\ Goto(r, "refresh")
  /\ UNCHANGED <<clock, config, call, local, inForce>>

Respond(r) ==
  /\ pc[r] = "refresh"
  /\ Goto(r, "ok")
  /\ UNCHANGED <<clock, config, bookings, call, local, inForce>>

\* Connection lost, process killed, timeout: get_db rolls back.  From
\* "refresh" the booking is committed, only the answer is lost.
Fail(r) ==
  /\ pc[r] \in Steps
  /\ Goto(r, "error")
  /\ UNCHANGED <<clock, config, bookings, call, local, inForce>>

\* Mutant: a database that never looks for deadlocks.
NeverDeadlocked(r) == FALSE

\* r is in a cycle of transactions that wait for each other: a transaction
\* waits for at most one other, so a set in which everyone waits and is
\* waited for consists of cycles.
Deadlocked(r) ==
  \E C \in SUBSET {s \in Requests : pc[s] = "insert"} :
    /\ r \in C
    /\ \A s \in C : (\E t \in C : WaitsFor(s, t)) /\ (\E t \in C : WaitsFor(t, s))

\* After deadlock_timeout the database aborts a transaction of a cycle.
\* DBAPIError is no IntegrityError: 500.
DeadlockVictim(r) ==
  /\ Deadlocked(r)
  /\ Goto(r, "error")
  /\ UNCHANGED <<clock, config, bookings, call, local, inForce>>

-----------------------------------------------------------------------------
(***************************************************************************)
(* The world around the handlers.                                          *)
(***************************************************************************)
Tick ==
  /\ clock < MaxClock
  /\ clock' = clock + 1
  /\ UNCHANGED <<config, bookings, pc, call, local, inForce>>

\* An administrator's write, as the handlers see it.
Administer ==
  /\ Configure
  /\ inForce' = [r \in Requests |-> IF call[r] = Null THEN inForce[r]
                                    ELSE inForce[r] \cap exceptions'[OrgFor(r)]]
  /\ UNCHANGED <<clock, bookings, pc, call, local>>

\* Not a step of the program: lets TLC tell the end of a run from a deadlock.
AllAnswered == (\A r \in Requests : pc[r] \in Answers) /\ UNCHANGED vars

Handle(r) ==
  \/ ReadBooking(r) \/ ReadOrg(r) \/ CheckGrid(r) \/ CheckExceptions(r)
  \/ FlushCancel(r) \/ FlushInsert(r) \/ Commit(r) \/ Respond(r) \/ DeadlockVictim(r)

Next ==
  \/ \E r \in Requests : Arrive(r) \/ Handle(r) \/ Fail(r)
  \/ Administer \/ Tick \/ AllAnswered

Spec == Init /\ [][Next]_vars

\* The server runs a handler it has begun, and the database serves it.
FairSpec == Spec /\ \A r \in Requests : WF_vars(Handle(r))

-----------------------------------------------------------------------------
(***************************************************************************)
(* Properties.                                                             *)
(***************************************************************************)
\* The tables hold rows of their declared columns, and a request is at a
\* statement of its handler or has its answer.
TypeOK ==
  /\ clock \in Nat
  /\ ConfigTypeOK
  /\ bookings \in [Requests -> BookingRows \cup {Null}]
  /\ pc \in [Requests -> {"idle"} \cup Steps \cup Answers]
  /\ call \in [Requests -> CallType \cup {Null}]
  /\ local \in [Requests -> [duration : Nat, owner : Users \cup {Null}, now : Nat]]
  /\ inForce \in [Requests -> SUBSET Ranges]

\* RF-4.2: whatever requests race, no two active bookings of an organisation
\* start at the same instant.
OneActivePerSlot ==
  \A a, b \in Requests :
    /\ Active(a) /\ Active(b)
    /\ bookings[a].org = bookings[b].org /\ bookings[a].start = bookings[b].start
    => a = b

\* The concurrency test's claim: when creators of one slot have all been
\* answered and nothing failed, one of them has it and the others got a 409.
ExactlyOneWinner ==
  (\A r \in Requests : pc[r] \in {"ok", "conflict"} /\ Op(r) = "create")
  => \A r \in Requests :
       \E w \in Requests : /\ pc[w] = "ok" /\ SameKey(w, r) /\ Active(w)
                           /\ \A s \in Requests \ {w} : SameKey(s, r) => pc[s] = "conflict"

\* "slot is no longer available" is never said of a free slot: not because of
\* an insert or a cancellation that was still to commit or to be rolled back.
ConflictIsJustified ==
  [][\A r \in Requests : pc[r] = "insert" /\ pc'[r] = "conflict"
       => \E b \in Requests : /\ bookings[b] # Null /\ bookings[b].status = "active"
                              /\ HasKey(b, r) /\ \A s \in Requests : ~ Holds(s, b)]_vars

\* A booking and whoever cancels it belong to the organisation of the
\* booking, through reschedules by an administrator too.
TenantIsolation ==
  \A b \in Requests : bookings[b] # Null =>
    /\ OrgOf[bookings[b].user] = bookings[b].org
    /\ bookings[b].cancelledBy # Null => OrgOf[bookings[b].cancelledBy] = bookings[b].org

\* However cancellations and reschedules race, the one recorded for a row was
\* made by its owner before the slot began, or by an administrator.
CancelIsAuthorised ==
  \A b \in Requests : bookings[b] # Null /\ bookings[b].status = "cancelled" =>
    \/ bookings[b].cancelledBy \in Admins
    \/ /\ bookings[b].cancelledBy = bookings[b].user
       /\ bookings[b].cancelledAt < bookings[b].start

\* A booking stops being active only by a committed cancel of it, or by a
\* reschedule that in the same step gives its owner another active booking.
NoBookingVanishes ==
  [][\A b \in Requests : Active(b) /\ bookings'[b].status # "active" =>
       \E r \in Requests :
         /\ pc[r] = "commit" /\ Target(r) = b
         /\ \/ Op(r) = "cancel"
            \/ /\ Op(r) = "reschedule" /\ bookings'[r] # Null
               /\ bookings'[r].status = "active"
               /\ bookings'[r].user = bookings[b].user]_vars

\* An exception that was in force from the arrival of a request to its commit
\* keeps the request from booking over it.
ExceptionsRespected ==
  [][\A r \in Requests : bookings[r] = Null /\ bookings'[r] # Null
       => \A e \in inForce[r] : ~ Overlap(e, bookings'[r])]_vars

\* Two active bookings of an organisation share no instant, if their starts
\* have no seconds and their clock is not changed while they last.  The check of
\* the grid compares whole minutes of the clock, so that the same slot with and
\* without seconds, or two that a change has moved together, are two slots to it.
OnTheMinute(b) == bookings[b].start % Minute = 0
OnOneOffset(b) == KeepsOffset(Zone[bookings[b].org], bookings[b])

NoOverlap ==
  \A a, b \in Requests :
    /\ Active(a) /\ Active(b) /\ a # b /\ bookings[a].org = bookings[b].org
    /\ OnTheMinute(a) /\ OnTheMinute(b) /\ OnOneOffset(a) /\ OnOneOffset(b)
    => ~ Overlap(bookings[a], bookings[b])

\* "only active bookings can be rescheduled": the booking a reschedule
\* replaces was active until the reschedule's commit.
ReschedulesMoveActive ==
  [][\A r \in Requests : /\ bookings[r] = Null /\ bookings'[r] # Null
                         /\ Op(r) = "reschedule"
       => Active(Target(r))]_vars

\* Two reschedules cannot exchange the slots of two bookings: whoever commits
\* first finds the other's slot still taken.  If both were done, somebody else
\* has cancelled or moved one of the bookings that they took and gave.
Moved(r) == pc[r] \in {"refresh", "ok"} /\ Op(r) = "reschedule"

\* q may have cancelled or moved the booking b.
MayHaveEnded(q, b) ==
  pc[q] \in {"refresh", "ok", "error"} /\ Op(q) # "create" /\ Target(q) = b

SwapsNeedAThird ==
  \A r, s \in Requests :
    /\ r # s /\ Moved(r) /\ Moved(s)
    /\ {Target(r), Target(s)} \cap {r, s} = {} /\ Target(r) # Target(s)
    /\ HasKey(Target(r), s) /\ HasKey(Target(s), r)
    => \E q \in Requests \ {r, s}, b \in {Target(r), Target(s), r, s} : MayHaveEnded(q, b)

\* Nothing but an abort ends a deadlock: neither a commit nor a failure of
\* somebody else lets one of a cycle go on.
OnlyAbortsEndDeadlock ==
  [][\A r \in Requests : Deadlocked(r) /\ ~ Deadlocked(r)'
       => \E s \in Requests : Deadlocked(s) /\ pc'[s] = "error"]_vars

\* Every request that arrives is answered: no set of handlers waits for each
\* other's rows for ever.
EveryCallAnswered == \A r \in Requests : pc[r] # "idle" ~> pc[r] \in Answers

\* The service implements the ledger: an active row is a standing booking.
Entry(b) == [id |-> b, org |-> bookings[b].org, user |-> bookings[b].user,
             start |-> bookings[b].start]
standing == {Entry(b) : b \in {a \in Requests : Active(a)}}
given == {b \in Requests : bookings[b] # Null}

Ledger == INSTANCE BookingLedger
  WITH Ids <- Requests, Instants <- Starts, ledger <- standing, issued <- given

LedgerSpec == Ledger!Spec
==============================================================================
