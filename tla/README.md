# A TLA+ model of the appointment backend

The repository is the backend of a multi-tenant appointment system: FastAPI handlers
(`backend/app/api/v1`), services (`backend/app/services`) and a PostgreSQL database
(`backend/app/models`, `backend/alembic`). Each organisation keeps a weekly grid of opening
hours, exceptions to it and its settings; its users book slots, cancel them, and its
administrators move and cancel any booking. Slots are not stored: a slot exists when grid,
exceptions and bookings leave room for it. All state lives in the database; the processes that
serve requests share nothing else, so everything hard about this system happens between the
statements of concurrent transactions.

## The system

| component | state | operations | interacts with |
|---|---|---|---|
| booking_service | `bookings` | create, cancel, reschedule; get, list | reads organizations, availability_rules, exceptions; the partial unique index decides races |
| slot_service | none (pure) | compute_available_slots | fed by availability_query |
| availability_query | none | list_available_slots, admin_calendar | reads every table in four statements |
| availability_service | `availability_rules`, `exceptions` | replace_grid; create, update, delete exception | the checks of booking_service read what it writes |
| organization_service | `organizations` | update_org (never the time zone) | as above |
| auth_service, core/security | `users`, `refresh_tokens`, `organizations` | register_admin, register_user, login, refresh, logout | issues the principal of every other call |
| core/deps | none | get_current_principal, require_admin | takes user, organisation and role from the token, never from the call |
| core/time | none (pure) | local_to_utc_or_none | used by slot_service and booking_service |
| db/session | engine, session factory | get_db: a session per request, rolled back on any exception | every handler |
| models, migration | table definitions | CHECK constraints, foreign keys, `uniq_active_booking_slot` | every service |

What makes each part correct:

* **booking_service**: one active booking per organisation and start, whatever races; a refusal
  is justified by what is committed; a reschedule is all or nothing and keeps the owner;
  cancellations are allowed to whoever they record; tenants stay apart; nothing is booked over
  an exception; every call is answered although transactions wait for each other.
* **slot_service, availability_query**: what is offered can be booked, and what can be booked
  is offered; offered slots do not overlap. Where an office is open while its clock is changed,
  none of the three is quite true (see below).
* **availability_service, organization_service**: a PUT replaces the whole grid; partial
  updates that race lose nothing, leave no empty range and bring nothing back.
* **auth_service**: an organisation never exists without its administrator; who is refused a
  name meets somebody who has it; a revoked token stays revoked, and no other is lost; rotation
  leaves one live token unless refreshes of one token overlap.

## Modules

| module | models | state and actions |
|---|---|---|
| `LocalTime` | core/time.py and the part of zoneinfo it uses | operators only; a zone has one clock change, forward or backward, or none |
| `Slots` | the checks of booking_service on a slot; the domains of the settings, rules and exceptions tables | operators only |
| `SlotService` | slot_service | operators only: `Cursors`, `GridStarts`, `AvailableSlots` |
| `Configuration` | what administrators' writes look like to a transaction that only reads them | `settings`, `rules`, `exceptions`; one action per operation |
| `AvailabilityService` | availability_service and update_org, statement by statement | below; implements `Configuration` |
| `BookingService` | booking_service over PostgreSQL, racing with the writes of `Configuration` | below; implements `BookingLedger` |
| `BookingLedger` | nothing in the code: what the booking service promises | the standing bookings and the ids ever given; `Book`, `Release`, `Move` |
| `AvailabilityQuery` | availability_query, asked while all of `BookingService` goes on | below; composes `BookingService` and `SlotService` |
| `BookingListing` | the lists of bookings, page by page, and `get_booking_for_actor`, beside queries and bookings | below; extends `AvailabilityQuery` |
| `AuthService` | auth_service, statement by statement | below; implements `SessionLedger` |
| `SessionLedger` | nothing in the code: what login, refresh and logout promise | the renewable tokens and all that were ever given; `Open`, `Renew`, `Close` |
| `AvailabilityProofs`, `BookingProofs`, `SlotProofs`, `QueryProofs`, `ListingProofs`, `AuthProofs` | the theorems about the modules they are named for; what `BookingProofs` needs of `Configuration` is in it | |
| `OverlapProofs`, `ProgressProofs` | more theorems about `BookingService`: what bookings share, and how requests wait | |
| `MCBooking`, `MCAvailability`, `MCQuery`, `MCListing`, `MCAuth` | the values TLC gives the constants | |

Every operation is a sequence of statements, and a step is what the handler does from one
`await` on the database to the next. A request is sent once; `pc` (or `stage`) names the
statement it executes next, or the answer it got.

**BookingService**, where `pc[r]` belongs to request `r`:

| `pc[r]` | action | code |
|---|---|---|
| `idle` | `Arrive` | the router, `require_admin` for reschedule |
| `read` | `ReadBooking` | `_get_booking_in_org` and the tests on the row |
| `window` | `ReadOrg` | `_get_org`, `_validate_slot_window` |
| `grid` | `CheckGrid` | `_validate_against_grid` |
| `exceptions` | `CheckExceptions` | `_validate_against_exceptions` |
| `update` | `FlushCancel` | the UPDATE that cancels; it waits for the row's lock |
| `insert` | `FlushInsert`, `DeadlockVictim` | the INSERT; it waits for the transactions the index entry depends on, and loses to a committed active row |
| `commit` | `Commit` | everything the transaction wrote appears |
| `refresh` | `Respond` | the SELECT after the commit, then the answer |

`local[r]` holds what the handler remembers between statements (the duration it read, the
owner, its `now`), and `inForce` is a history variable: the exceptions that have held ever
since `r` arrived.

**AvailabilityService**, for PUT of a grid, POST, PATCH and DELETE of an exception, and PATCH
of the settings:

| `pc[r]` | action | code |
|---|---|---|
| `idle` | `Arrive` | the router and what is refused before any statement: overlapping rules, an empty exception |
| `find`, `lock` | `FindRules`, `LockRules` | the DELETE of `replace_grid`: the rows of its snapshot, then their locks |
| `read` | `ReadRow` | `get_org` or `get_exception`, the test on the merged range; nothing is written if nothing changes |
| `update` | `UpdateRow` | the UPDATE or DELETE by id: the row's lock, the row's absence, the CHECK |
| `commit` | `Commit` | the write appears; an UPDATE sets only the columns whose value differs from the one read |
| `refresh` | `Refresh` | `db.refresh`, an error if the row is gone |

`seen[r]` is what the DELETE found and `read[r]` the row a PATCH read.

**AvailabilityQuery**: queries write nothing, so one query at a time, asked again without end,
shows all that many can see.

| `stage` | action | code |
|---|---|---|
| `idle` | `Ask` | the routers; `require_admin` guards the calendar |
| `org` | `ReadSettings` | `_get_org`, `_validate_range` |
| `rules`, `bookings` | `ReadRules`, `ReadBookings` | the statements of `list_available_slots` |
| `exceptions` | `ReadExceptions` | its last statement, and `compute_available_slots` on all it has read |
| `calendar` | `ListBookings` | the bookings of `admin_calendar` |

`Elsewhere` is a step of `BookingService`. Three history variables say what an answer may be
held to: `steady` (nothing has been written since the query arrived), `kept` (the bookings
active ever since) and `stood` (the exceptions in force ever since).

**BookingListing**: a client asks for the pages of `/bookings/me` or `/bookings` one after the
other until one is not full.

| `place` | action | code |
|---|---|---|
| `idle` | `AskFirst` | the routers; `require_admin` guards the list of the organisation |
| `count` | `Count` | `SELECT count(*)` |
| `rows` | `ReadPage` | ORDER BY, OFFSET and LIMIT; rows of one start come in any order |
| `turn` | `AskNext` | the request for the next page, or none |

A query or a list is read at a time (`AQuery`, `AskFirst`), since neither meets the other;
`Meanwhile` is a step of `BookingService`. `shown` is what the pages have shown, and `before`,
`still` and `repeated` are histories: the bookings of the list when the walk began, whether
nothing has been written since, and whether a booking was on two pages.

**AuthService**, for the registration of an organisation or a user, login, refresh, logout and
`GET /auth/me`:

| `pc[r]` | action | code |
|---|---|---|
| `idle` | `Arrive` | the router; whether an access token has expired is left open |
| `org`, `user` | `FlushOrg`, `FlushUser` | the flushes of `register_admin` and the one of `register_user`; each waits for the transactions its unique index depends on |
| `find` | `FindOrg`, `FindUser`, `FindToken` | the first SELECT of `register_user`; of `login`, with the password; of `refresh` and `logout`, with the tests on the token |
| `issue` | `InsertToken` | the flush of the first token of a session |
| `owner` | `ReadOwner` | `refresh` reads the user of the token |
| `rotate`, `revoke` | `UpdateToken` | the UPDATE of the presented token by its id, which does not look at `revoked_at` again |
| `scan`, `lock` | `Scan`, `LockRow`, `CloseFamily` | the UPDATE of a family: the rows of its snapshot, their locks one by one, and the commit before the 401 |
| `commit` | `Commit` | everything the transaction wrote appears |
| `me` | `ReadMe` | `get_user_with_org` |

`DeadlockVictim` may end any wait that is part of a cycle. `local[r]` holds the organisation,
the user and the end of the token that the handler remembers, the rows its UPDATE of a family
found (`seen`) and those it has locked (`held`). `before` is a history variable: the logins,
refreshes and logouts answered before `r` arrived.

In all five, `Fail` (`QueryFails`, `ListingFails`) may strike at any statement: the connection
is lost or the process is killed, and `get_db` rolls back. At `refresh` the write is committed
and only the answer is lost. `clock` is the `datetime.now(UTC)` of every process.

**The database** is modelled from how the code uses it: READ COMMITTED, PostgreSQL's default,
which `db/session.py` does not change. Uncommitted work is not stored: `Holds`, `Inserted`,
`HoldsRow` and `HoldsRules` tell it from `pc`, because a transaction here writes one row of
each kind, or one grid. Ids come from a sequence and are never given twice, so the request that
inserts a row names it. Where `Configuration` stands for the administrators, their writes are
single steps, since no reader can see them sooner, and `ReplaceGrid` may leave whole grids over
that were put at the same time: `AvailabilityService` is checked to do no more than that. Two
exceptions with one range are one there, which no reader can tell apart. The UPDATE of a family
has no ORDER BY, so it locks its rows in any order, keeps those it has while it waits for the
next, and two such UPDATEs of two live tokens can deadlock. The DELETE of a grid gets its locks
together in the model (`LockRules`), when the last of them is free: a PUT that has some of them
and waits for others has changed nothing anybody reads, only PUTs wait for it, and if it is the
victim of a deadlock it ends as with `Fail`; that it is answered is then PostgreSQL's doing and
not `EveryWriteAnswered`'s. Passwords and tokens are values and hashing them is left out;
e-mail addresses are compared after `Lower`, as `auth_service` lowers them. A client presents a
token somebody was given, or one that never was. The time zone of an organisation is constant:
`OrgPatch` has no such field.

## Runs

A minute is two ticks, so that a start can be off by seconds; a day is six minutes and a week
two days, enough for starts inside, outside and across the opening hours, on an open and on a
closed day. The zone of the `MCBooking` runs is a minute behind UTC, so that UTC and local
minutes differ; in `Lifecycle` its clock goes back three minutes, one after closing time. In
`Offers` and `Calendar` it is five minutes of the six-minute day ahead, further than any on
Earth, so that UTC and local dates differ for most of the day. Slots last two minutes; the
office opens from minute 0 to 4 and has the starts 2 and 6. Start 4, between slots, is refused;
start 3 has seconds, which the check of the grid drops, and is booked, over 2 if that is booked
as well; start 10 is closing time, accepted because the clock goes back in it; start 12 is 6 on
the second pass. `Lifecycle` has all of them, `Offers`, `Calendar`, `ClosingTime` and `Resize`
those up to 6.

| run | asks | instance | states |
|---|---|---|---|
| `Lifecycle` | does the service implement the ledger, and do bookings overlap | 3 requests that create, cancel, move, in every order; 6 starts; a clock that goes back; time reaches the first start | 196 845 |
| `Tenants` | do tenants stay apart, is everyone answered, and can two bookings change places | 2 organisations; 2 bookings, then 2 crossing moves of them, some by the other organisation's administrator | 27 390 |
| `Offers` | are offers apart, and the same as bookings, exceptions respected, and lists complete | 5 questions of 2 days or 4 lists in pages of one; a create, then another or a move, also to the start it has; 2 grids, 1 exception, a lead time, 2 instants | 1 309 611 |
| `Writes` | what do racing writes of administrators leave, and is what was deleted gone | 3 PUTs of 3 grids, one of them refused, or 4 requests that post, patch and delete one exception or patch the settings | 333 860 |
| `Accounts` | what do racing registrations leave, and does every wait for a name end | 2 founders who may want one name; a user and a login; an address in two spellings; a session that is used, and expires | 111 496 |
| `Sessions` | who can still renew a session, and who deadlocks | an account, a login and 4 requests that refresh, log out or log in, with the first two tokens; no time passes | 177 473 |

Three requests reach every race of two with a third that undoes or competes, and `Tenants`
needs two bookings before two moves. Two starts are enough for a move to have a target, and two
for two moves to cross. Three PUTs are what it takes for one to delete what two others left
together; in the same run one post, two patches and a delete of one row meet. `Offers` needs
one question at a time (queries do not meet) and one booking that comes and one that goes; two
rows and pages of one are what it takes for a row to move to another page. In `Accounts` each
unique index has two rivals and one who comes before or after them. In `Sessions` two refreshes
fork a family and two more revoke it at once, which is what a deadlock takes; or one revokes it
while another rotates, or a token of a fork is presented again. What expiry does to a refresh
is in `Accounts`: it only adds a refusal.

Six runs find what a doc, an error message or a comment says to be untrue of the code:

| run | property | what happens |
|---|---|---|
| `DoubleMove` | `ReschedulesMoveActive` | a cancellation commits between a reschedule's read and its update; the user gets an active booking again |
| `Resize` | `NoOverlap` | after the slot duration changes, a booking is made over another |
| `TwoGrids` | `NoDuplicateSlots` | two PUTs at once leave both grids in force |
| `ClosingTime` | `OffersAreBookable` | the clock skips the minute after closing: the last slot is offered, and refused whoever asks for it |
| `Calendar` | `CalendarIsGlobal` | far from UTC the calendar misses bookings of the day it shows |
| `Reuse` | `ReuseRevokesFamily` | a refresh is under way while the reuse of its token is detected: the UPDATE of the family does not see the token it is about to insert, which stays live |

For each of the six a theorem gives a condition under which it holds:

| property | theorem | holds as long as |
|---|---|---|
| `ReschedulesMoveActive` | `LoneReschedulesMoveActive` | no two requests that move or cancel one booking are under way at once |
| `NoOverlap` | `BookingsDoNotOverlap` | the duration never changes, grids fit together and zones are whole minutes from UTC |
| `NoDuplicateSlots` | `PutsInTurnLeaveNoDuplicates` | no two PUTs of an organisation are between snapshot and commit at once |
| `OffersAreBookable` | `OffersCanBeBooked` | the office is closed when its clock is changed |
| `CalendarIsGlobal` | `CalendarIsGlobalInUtc` | the clock shows UTC |
| `ReuseRevokesFamily` | `ReuseRevokesWhatIsNotRotated` | no token of the family is rotated while the family is revoked |

`NoOverlap` is also checked in `Lifecycle`, where nothing is reconfigured, and
`OffersAreBookable` in `Offers`, where the clock does not change. `NoOverlap` itself speaks of
bookings whose starts have no seconds and during which the clock is not changed: without either
condition `Lifecycle` breaks it, 3 being booked over 2 and 10 over 12. What is left where the
property fails is proved as well: a reschedule that replaces a cancelled booking lost a race
(`ReplacedOrOutrun`); an offer is refused only if the clock changes in the slot
(`UnchangedOffersCanBeBooked`); a calendar lists exactly the bookings of its UTC days
(`CalendarsShowUtcDays`); whoever comes after a detected reuse renews nothing that was given
out before it (`EndedSessionsStayEnded`).

What the models contain without a run that says so: of two cancellations of one booking the
later overwrites who cancelled and when; a start with seconds is accepted, stored with them and
booked over the same start without, in an office where nothing was ever reconfigured; both
passes through a repeated hour can be booked, the first only is offered; slots beyond the
horizon are offered; where the clock goes back while a slot lasts, its end may read earlier
than it is, and a slot that passes closing time is accepted, though it is not listed; where it
goes forward, two listed slots may overlap if the minutes skipped are no multiple of their
length (of 45 minutes, those of 1:30 and 3:00, when 3:00 follows 1:59); a cancellation between
two pages of active bookings hides the next one from who turns the pages, and `total` may be
one less than the rows. The documents promise nothing that these break, or nothing that the
runs above do not show broken already.

**Fairness.** `FairSpec` of `BookingService`, of `AvailabilityService` and of `AuthService` is
weakly fair to the next statement of every request that has arrived: the event loop runs every
handler and PostgreSQL executes what it is sent. `DeadlockVictim` belongs to it, since
PostgreSQL looks for deadlocks after `deadlock_timeout`. Which row the UPDATE of a family locks
next is left open, and `WaitsOn` lets it wait for each of those it lacks, so it meets every
order that a plan may have. Clients, administrators, failures and the clock have no fairness,
and `QuerySpec` has none: a query waits for nothing.

## Proofs

The theorems hold for every value of the constants that satisfies the modules' assumptions:
`CalendarAssumption` (ticks, days and weeks are positive, minutes divide a day),
`ConfigurationAssumption`, `ServiceAssumption`, `AvailabilityAssumption`, `AuthAssumption`,
`QueryAssumption`, `ListAssumption` (the choices are well typed, a page has a row and the
bookings of a run are finitely many), the three `NullAssumption`s (the value that stands for
NULL is no row) and, for the queries, `OffsetAssumption` (a zone is less than a day from UTC,
which Python enforces). A theorem that needs more states it.

**Bookings** (`BookingProofs`): `TypeCorrect`, `SlotsAreExclusive`, `TenantsAreIsolated`,
`CancellationsAreAuthorised`, `ConflictsAreJustified`, `BookingsDoNotVanish`,
`ExceptionsAreRespected`, `BookingsAlwaysTakeTime`, `OneCreatorWins`, `ReplacedOrOutrun`,
`LoneReschedulesMoveActive`, `SwapsTakeAThird` and `ServiceImplementsLedger`.

`OneActivePerSlot` is not inductive: a commit makes a row active, and nothing in the property
says that its key is still free. The inductive `Inv` adds where each request can be
(`PhaseOK`), that the row a running request will insert does not exist yet (`FreshRows`), that
a row is updated by one running transaction at most (`LockExclusive`), and the fact everything
rests on, `KeyExclusive`: whoever has inserted and not committed has a key no other running
transaction has inserted, and that no active row holds but one it cancels itself. `FlushInsert`
establishes it by waiting, `Commit` preserves it because nobody can have passed the wait
meanwhile. `AuthInv` adds what a handler learned when it read the row, which is still true when
it writes: a booking never changes owner, organisation or start. `ForceInv` adds what the check
of the exceptions left behind: a request past it is clear of every exception of `inForce`, a
set that only shrinks. `LengthInv` adds that the duration a handler has read is positive.
`WinnerInv`, for runs in which all requests create, says that a request that has been refused,
or has booked, leaves an active booking of its key behind, which nobody takes away. `MovedInv`
says of a reschedule past its read that the booking it moves is active, or that a rival has
moved or cancelled it and committed (`Outrun`): nothing else makes it inactive (`TargetStep`).
`SwapInv` is that with two facts about moves that were answered: what one made is there
(`MovesBooked`), and whatever is no longer active somebody has ended (`SomebodyEnded`). Two
bookings that have changed places were each in the way of the other's move; the move that
committed first found its slot taken by the other's booking, which its own writer had not ended
yet, so a third had (`LaterOfTwo`).

**Progress** (`ProgressProofs`): `NobodyStandsStill`, `DeadlocksNeedAborts`,
`DeadlocksAreCyclesOfMoves`, `WaitsAreForOne` and `RequestsAdvance`. Creates wait for the
holder of their key, cancellations for whoever updates their row, and only moves, which have
updated a row before they insert, are waited for while they wait. A request waits for one
transaction at most (`WaitsAreForOne`, from `KeyExclusive` and `LockExclusive`), so who waits
for whom is a function, and a finite set in which everyone waits for one of the set contains a
cycle. A cycle has moves only, and on it the function is a permutation: hence `Deadlocked` is
what PostgreSQL's detector looks for, nobody leaves a deadlock before one of its members is
aborted, and of finitely many requests that wait one can step or is aborted
(`NobodyStandsStill`; finitely many is its one assumption). `RequestsAdvance` says that every
step of a request takes it to a later statement or to its answer. The two together, with the
fairness above, are why `EveryCallAnswered` holds: that last inference is temporal, is left to
TLC, and is an argument on paper for every instance but the one checked. `AvailabilityService`
needs no such theorem, for whoever holds a row there has only to commit (`HoldsRow`,
`HoldsRules`).

**Overlap** (`OverlapProofs`): `BookingsDoNotOverlap` and `NoBookingsOverlap`, under
`Undisturbed`: one duration, grids whose rules overlap neither within a grid nor with
another's, and zones whole minutes from UTC. The unique index compares starts only, so this is
where the grid earns its keep: an accepted slot is a multiple of the duration into a rule
(`InRule`), two of one rule are therefore apart by a whole duration (`MultiplesApart`), and two
of different rules are as far apart as the rules; what reads apart on the clock is apart
(`ReadingsApart`, `SlotsApart`). `FitInv` carries that from the check to the row: what was
accepted by the grid of the moment is accepted by the union of all grids (`MoreRules`), which
does not change. The assumptions are needed: `Resize` drops the first and `TwoGrids` leaves
grids in force that do not fit. `NoBookingsOverlap` says when no two bookings at all overlap:
if besides offices are closed when their clocks change, and clients ask for no seconds, as
nothing makes them.

**Administrators** (`AvailabilityProofs`): `AvailabilityTypeCorrect`, `ExceptionsAreRanges`,
`GridsStayWhole`, `NoUpdateIsLost`, `DeletedExceptionsStayDeleted`,
`PutsInTurnLeaveNoDuplicates` and `ServiceImplementsConfiguration`. What a PATCH tested is what
it overwrites only because the row lock is taken before the CHECK and kept until the commit
(`LockOf`); rules in force always come from whole PUTs (`MadeOfGrids`), since a DELETE removes
what its snapshot showed and that was whole; if PUTs take turns the snapshot still shows all
there is when the DELETE runs (`SnapshotInv`), and what is left is one grid, which the schema
has found free of overlaps; a field of the settings or of an exception is the one last answered
(`ReadInv`, `WrittenInv`) because an UPDATE names only the columns it changes. With the
refinement, what is proved of bookings and queries beside `Configuration` holds beside the real
handlers, PUTs that race included.

**Accounts and sessions** (`AuthProofs`): `AuthTypeCorrect`, `OrganisationsHaveAdmins`,
`NamesStayUnique`, `RefusedForGood`, `EndedSessionsStayEnded`, `TokensAreRenewedOnce`,
`OneLiveTokenPerSession`, `TokensAreNotLost`, `ForksAloneDeadlock`, `FoundersMeetNobody`,
`ReuseRevokesWhatIsNotRotated` and `ServiceImplementsSessions`. `Base` is the type invariant
with where each request can be and what it remembers there. `FoundedInv` says that an
organisation and its founder appear together; `NamesInv` that a name inserted and not committed
is nobody else's, as `KeyExclusive` does for slots. `SessionInv` follows a revocation from the
rows its UPDATE found to the commit: all live tokens of the family that its seniors gave out
are among them (`FamilyInv`), so that none is left afterwards (`EndInv`) and nobody who comes
later finds one (`LaterInv`); a renewed token has an heir of its family and is live no more
(`RenewedInv`). `FamiliesDie` is the same for a whole family when its rotations are done before
or begin after. `FoundersMeetNobody` shows a dead branch: the organisation is new, so no user
of it can have the founder's address, and the second `ConflictError` of `register_admin` is
unreachable. `TreeInv` counts: two tokens without heirs in one family have a common ancestor
that was renewed twice, which `RenewedInv` leaves to overlapping refreshes.
`ForksAloneDeadlock` follows from it: a cycle needs somebody who holds a row or a name and
waits for another. A founder holds its slug and meets nobody at its second insert; what remains
is an UPDATE of a family that has locked one live token and lacks another, so the family has
forked. `RefusedForGood` and `TokensAreNotLost` are properties of steps: names never go, and
the one step that ends a token without a word to its owner is the commit of its renewal, which
puts another in its place.

**Slots** (`SlotProofs`): `EveryInstantHasALocalTime`, `LocalToUtcIsTheFirst`,
`ListedIsAccepted`, `ListedOnFirstPass` and `AcceptedIsListed`. slot_service walks the minutes
of a local day and converts them to UTC; booking_service converts a start to local time and
divides. In every zone, with a clock change or without, the two agree for every grid, duration
and date range on the slots whose two ends have one offset (`KeepsOffset`) and which are not on
the second pass through a repeated hour; `ClosingTime` is a slot whose ends differ. Reading an
instant on the clock and back gives the instant, so the test of `_validate_against_grid` for
local times that do not exist never refuses anything: only in slot_service does
`local_to_utc_or_none` return None. A rule is `ClosedAtChange` if on every date it is over
before the readings that the change skips or repeats, or begins after them; then no slot of it,
listed or accepted, loses its offset (`ListedWhenClosed`, `AcceptedWhenClosed`). The other
lemmas are arithmetic of days, minutes and remainders (`DivMod`, `WallOnMinute`).

**Queries** (`QueryProofs`): `OffersAreAlwaysFree`, in every zone and whatever is written
between the statements. The day of pad is what the proof needs (`OffersWithinPad`): a slot of a
local date lies within a day of the UTC date, so a booking that overlaps it is among those
read. `SeenInv` says what a query has seen: a booking in `kept` is active, is the row it was
(`ActiveRowsStay`) and, once bookings are read, is among them. `SteadyInv` says that an
undisturbed query has read what is there. With `SlotProofs`, `UnchangedOffersCanBeBooked` and
`FirstBookablesCanBeFound` follow in every zone, slot by slot, and the three properties of
`Offers` where organisations are closed when their clocks change, as all are whose clocks do
not: `OffersCanBeBooked`, `OffersDoNotOverlap` and, for offsets of whole minutes,
`BookablesCanBeFound` (a minute of the clock is then a minute of UTC;
`FirstBookablesCanBeFound` asks for that of the start alone). `CalendarsShowUtcDays` says what
the calendar does show (`CalendarInv`), and `CalendarIsGlobalInUtc` that in UTC this is what it
should. Every theorem about `BookingService` carries over, since a step of `QuerySpec` is a
step of `Next` or changes nothing of it (`QueryCases`). `QueryTypeCorrect` adds the types of
what is read and computed.

**Lists** (`ListingProofs`): `WalksMissNothing`, `ActivePagesShowEachOnce`, `ListedAreVisible`,
`ListingTypeCorrect` and `ListsDisturbNothing`. ORDER BY gives a booking that is alone at its
start one place, the one after those that start later (`PlaceOfAlone`). `Unseen` says that a
booking not shown yet has as many before it as the pages so far have passed; this only grows,
because rows are never deleted and never change their start (`RowsRemain`), so the place of the
booking is still to come. `ShownAreFirst` says that undisturbed pages have shown the first
ones: no two active bookings of an organisation start together, which is `OneActivePerSlot`
again.

Only model-checked are `EveryCallAnswered` and `EveryWriteAnswered`: liveness under fairness is
out of the prover's reach. Every other property of a run is the subject of a theorem.
`NoStandstill` and `ListedCanBeGot`, which hold in all instances by a short proof, are stated
beside their theorems and have no run.

## Not modelled

A composition of `BookingService` with `AvailabilityService` itself would check nothing new:
`ServiceImplementsConfiguration` proves that `Configuration` may stand for it.

Left out for good: configuration loading, health checks and the application object (no state);
response bodies and the lists of rules and exceptions (they copy rows, and are read by one
statement each); password hashing and token signatures (cryptography); the engine and its
connection pool (a library's); the kind and reason of an exception and the name of an
organisation, which no other code reads; the order of the list of slots. Deletion of
organisations and users is no operation of the backend, so the cascades of the schema never
run.
