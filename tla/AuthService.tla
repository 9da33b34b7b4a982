----------------------------- MODULE AuthService -----------------------------
(***************************************************************************)
(* Registration, login, rotation of refresh tokens and logout              *)
(* (backend/app/services/auth_service.py) over PostgreSQL.                 *)
(*                                                                         *)
(* As in BookingService, pc[r] is the statement request r executes next,   *)
(* or the answer it gave; statements read what is committed, and what a    *)
(* session has written appears at its commit.  Organisations, users and    *)
(* tokens take the name of the request that inserts them, and so does a    *)
(* family of tokens, uuid4() being drawn once by each login.               *)
(***************************************************************************)
EXTENDS Integers

CONSTANTS
  Requests,      \* the requests clients may send, each sent once
  Slugs, Emails, Passwords,
  Lower,         \* str.lower on e-mail addresses
  Calls,         \* the calls each request may make
  Ttl,           \* jwt_refresh_ttl_days
  MaxClock,      \* the clock stops here
  Null           \* SQL's NULL, the absence of a row, a token nobody was given

AccountOps == {"admin", "user", "login"}
SessionOps == {"login", "refresh", "logout"}

CallType ==
  [op : AccountOps, slug : Slugs, email : Emails, password : Passwords]
  \cup [op : {"refresh", "logout"}, token : Requests \cup {Null}]
  \cup [op : {"me"}, token : Requests]

OrgRows == [slug : Slugs]
UserRows == [org : Requests, email : Emails, password : Passwords, role : {"admin", "user"}]
TokenRows == [user : Requests, family : Requests, expires : Nat, revoked : BOOLEAN]

ASSUME AuthAssumption ==
  /\ Lower \in [Emails -> Emails] /\ \A e \in Emails : Lower[Lower[e]] = Lower[e]
  /\ Calls \in [Requests -> SUBSET CallType]
  /\ Ttl \in Nat \ {0} /\ MaxClock \in Nat

ASSUME NullAssumption ==
  /\ Null \notin Requests /\ Null \notin CallType
  /\ Null \notin OrgRows /\ Null \notin UserRows /\ Null \notin TokenRows

VARIABLES
  clock,     \* datetime.now(UTC) of every process
  orgs, users, tokens,      \* the tables, by id
  pc,        \* the statement each request executes next, or its answer
  call,      \* what the request asks for
  local,     \* what the handler remembers: an organisation, a user, the end
             \* of the new token, the rows its UPDATE of a family found, and
             \* those of them it holds
  before     \* history: the logins, refreshes and logouts answered when r arrived

vars == <<clock, orgs, users, tokens, pc, call, local, before>>

Steps == {"org", "user", "find", "issue", "owner", "rotate", "revoke", "scan", "lock",
          "commit", "me"}
Answers == {"ok", "conflict", "notfound", "unauthorized", "reused", "error"}

-----------------------------------------------------------------------------
(***************************************************************************)
(* What the database knows of the running transactions.                    *)
(***************************************************************************)
Op(r) == call[r].op
Target(r) == call[r].token
EmailFor(r) == Lower[call[r].email]

\* Mutant: a session that is not rolled back when its request fails.
InsertedOrgForever(r) == pc[r] \in {"user", "commit", "error"} /\ Op(r) = "admin"

\* r has inserted its organisation, or its user, and not committed yet.
InsertedOrg(r) == pc[r] \in {"user", "commit"} /\ Op(r) = "admin"
InsertedUser(r) == pc[r] = "commit" /\ Op(r) \in {"admin", "user"}

\* An insert has to know how these transactions end before it can go on.
OrgWaitsFor(r, s) == r # s /\ InsertedOrg(s) /\ call[r].slug = call[s].slug

\* Mutant: uq_users_org_email tells Ann@ from ann@.
UserWaitsForSpelling(r, s) ==
  /\ r # s /\ InsertedUser(s) /\ local[r].org = local[s].org
  /\ call[r].email = call[s].email

UserWaitsFor(r, s) ==
  r # s /\ InsertedUser(s) /\ local[r].org = local[s].org /\ EmailFor(r) = EmailFor(s)

SlugTaken(r) == \E o \in Requests : orgs[o] # Null /\ orgs[o].slug = call[r].slug
EmailTaken(r) ==
  \E u \in Requests : /\ users[u] # Null
                      /\ users[u].org = local[r].org /\ users[u].email = EmailFor(r)

Live(t) == tokens[t] # Null /\ ~ tokens[t].revoked

\* Mutant: a session that keeps its locks when its request fails.
UpdatedForever(s) ==
  CASE pc[s] = "lock" -> {t \in local[s].held : Live(t)}
    [] pc[s] \in {"commit", "error"} /\ Op(s) \in {"refresh", "logout"} -> {Target(s)}
    [] OTHER -> {}

\* The rows of refresh_tokens s has updated without committing yet: their
\* locks are its own.
Updated(s) ==
  CASE pc[s] = "lock" -> {t \in local[s].held : Live(t)}
    [] pc[s] = "commit" /\ Op(s) \in {"refresh", "logout"} -> {Target(s)}
    [] OTHER -> {}

-----------------------------------------------------------------------------
Memory == [org : Requests \cup {Null}, user : Requests \cup {Null}, expires : Nat,
           seen : SUBSET Requests, held : SUBSET Requests]
Nothing == [org |-> Null, user |-> Null, expires |-> 0, seen |-> {}, held |-> {}]

Init ==
  /\ clock = 0
  /\ orgs = [r \in Requests |-> Null]
  /\ users = [r \in Requests |-> Null]
  /\ tokens = [r \in Requests |-> Null]
  /\ pc = [r \in Requests |-> "idle"]
  /\ call = [r \in Requests |-> Null]
  /\ local = [r \in Requests |-> Nothing]
  /\ before = [r \in Requests |-> {}]

tables == <<orgs, users, tokens>>
Goto(r, step) == pc' = [pc EXCEPT ![r] = step]

\* Clients have the tokens of the answers they got, and some that never were.
Presentable(r) ==
  {c \in Calls[r] : c.op \in AccountOps \/ c.token = Null \/ tokens[c.token] # Null}

\* The router; an access token may have expired, which needs no statement.
FirstSteps(op) == CASE op = "admin" -> {"org"}
                    [] op = "me" -> {"me", "unauthorized"}
                    [] OTHER -> {"find"}

Arrive(r) ==
  /\ pc[r] = "idle"
  /\ \E c \in Presentable(r) :
       /\ call' = [call EXCEPT ![r] = c]
       /\ \E step \in FirstSteps(c.op) : Goto(r, step)
  /\ before' = [before EXCEPT ![r] = {s \in Requests : pc[s] \in Answers /\ Op(s) \in SessionOps}]
  /\ UNCHANGED <<clock, tables, local>>

(***************************************************************************)
(* register_admin and register_user.                                       *)
(***************************************************************************)
\* Mutant: a commit between the two inserts.
FlushOrgAndCommit(r) ==
  /\ pc[r] = "org"
  /\ \A s \in Requests : ~ OrgWaitsFor(r, s)
  /\ Goto(r, IF SlugTaken(r) THEN "conflict" ELSE "user")
  /\ local' = [local EXCEPT ![r].org = r]
  /\ orgs' = IF SlugTaken(r) THEN orgs ELSE [orgs EXCEPT ![r] = [slug |-> call[r].slug]]
  /\ UNCHANGED <<clock, users, tokens, call, before>>

FlushOrg(r) ==
  /\ pc[r] = "org"
  /\ \A s \in Requests : ~ OrgWaitsFor(r, s)
  /\ Goto(r, IF SlugTaken(r) THEN "conflict" ELSE "user")
  /\ local' = [local EXCEPT ![r].org = r]
  /\ UNCHANGED <<clock, tables, call, before>>

FindOrg(r) ==
  /\ pc[r] = "find" /\ Op(r) = "user"
  /\ \/ /\ ~ SlugTaken(r)
        /\ Goto(r, "notfound") /\ UNCHANGED local
     \/ \E o \in Requests :
          /\ orgs[o] # Null /\ orgs[o].slug = call[r].slug
          /\ local' = [local EXCEPT ![r].org = o]
          /\ Goto(r, "user")
  /\ UNCHANGED <<clock, tables, call, before>>

\* Mutant: an insert that does not wait, but takes a running rival's word.
FlushUserNoWait(r) ==
  /\ pc[r] = "user"
  /\ Goto(r, IF EmailTaken(r) \/ \E s \in Requests : UserWaitsFor(r, s)
             THEN "conflict" ELSE "commit")
  /\ UNCHANGED <<clock, tables, call, local, before>>

FlushUser(r) ==
  /\ pc[r] = "user"
  /\ \A s \in Requests : ~ UserWaitsFor(r, s)
  /\ Goto(r, IF EmailTaken(r) THEN "conflict" ELSE "commit")
  /\ UNCHANGED <<clock, tables, call, local, before>>

NewUser(r) == [org |-> local[r].org, email |-> EmailFor(r),
               password |-> call[r].password, role |-> Op(r)]

(***************************************************************************)
(* login, refresh and logout.                                              *)
(***************************************************************************)
\* _find_user and verify_password.
Matches(r, u) ==
  /\ users[u] # Null /\ users[u].email = EmailFor(r)
  /\ orgs[users[u].org].slug = call[r].slug /\ users[u].password = call[r].password

FindUser(r) ==
  /\ pc[r] = "find" /\ Op(r) = "login"
  /\ \/ /\ \A u \in Requests : ~ Matches(r, u)
        /\ Goto(r, "unauthorized") /\ UNCHANGED local
     \/ \E u \in Requests :
          /\ Matches(r, u)
          /\ local' = [local EXCEPT ![r].user = u, ![r].expires = clock + Ttl]
          /\ Goto(r, "issue")
  /\ UNCHANGED <<clock, tables, call, before>>

\* Mutant: a refresh that does not look at revoked_at.
AfterFindIgnoringRevoked(r) ==
  CASE Target(r) = Null -> IF Op(r) = "logout" THEN "ok" ELSE "unauthorized"
    [] Target(r) # Null /\ Op(r) = "logout" -> IF Live(Target(r)) THEN "revoke" ELSE "ok"
    [] Target(r) # Null /\ Op(r) = "refresh" ->
         IF tokens[Target(r)].expires <= clock THEN "unauthorized" ELSE "owner"

AfterFind(r) ==
  CASE Target(r) = Null -> IF Op(r) = "logout" THEN "ok" ELSE "unauthorized"
    [] Target(r) # Null /\ Op(r) = "logout" -> IF Live(Target(r)) THEN "revoke" ELSE "ok"
    [] Target(r) # Null /\ Op(r) = "refresh" ->
         IF ~ Live(Target(r)) THEN "scan"
         ELSE IF tokens[Target(r)].expires <= clock THEN "unauthorized" ELSE "owner"

FindToken(r) ==
  /\ pc[r] = "find" /\ Op(r) \in {"refresh", "logout"}
  /\ Goto(r, AfterFind(r))
  /\ UNCHANGED <<clock, tables, call, local, before>>

ReadOwner(r) ==
  /\ pc[r] = "owner"
  /\ LET u == tokens[Target(r)].user
     IN  /\ Goto(r, IF users[u] = Null THEN "unauthorized" ELSE "rotate")
         /\ local' = [local EXCEPT ![r].user = u, ![r].expires = clock + Ttl]
  /\ UNCHANGED <<clock, tables, call, before>>

\* Mutant: a rotation that commits its UPDATE before it inserts.
UpdateTokenAndCommit(r) ==
  /\ pc[r] \in {"rotate", "revoke"}
  /\ \A s \in Requests : Target(r) \notin Updated(s)
  /\ Goto(r, "commit")
  /\ tokens' = IF Op(r) = "refresh" THEN [tokens EXCEPT ![Target(r)].revoked = TRUE] ELSE tokens
  /\ UNCHANGED <<clock, orgs, users, call, local, before>>

\* The UPDATE of one token by its id, and in a rotation the INSERT of the
\* next: it waits for the row's lock and does not look at revoked_at again.
UpdateToken(r) ==
  /\ pc[r] \in {"rotate", "revoke"}
  /\ \A s \in Requests : Target(r) \notin Updated(s)
  /\ Goto(r, "commit")
  /\ UNCHANGED <<clock, tables, call, local, before>>

InsertToken(r) ==
  /\ pc[r] = "issue"
  /\ Goto(r, "commit")
  /\ UNCHANGED <<clock, tables, call, local, before>>

\* Mutant: an UPDATE whose WHERE has the user, not the family.
ScanOfUser(r) ==
  /\ pc[r] = "scan"
  /\ local' = [local EXCEPT ![r].held = {}, ![r].seen =
                 {t \in Requests : Live(t) /\ tokens[t].user = tokens[Target(r)].user}]
  /\ Goto(r, "lock")
  /\ UNCHANGED <<clock, tables, call, before>>

\* UPDATE refresh_tokens ... WHERE token_family_id: its snapshot, then the
\* locks of what it found, one by one and each kept while it waits for the
\* next.  No ORDER BY gives the rows an order.  A row revoked meanwhile is
\* passed by.
Scan(r) ==
  /\ pc[r] = "scan"
  /\ local' = [local EXCEPT ![r].held = {}, ![r].seen =
                 {t \in Requests : Live(t) /\ tokens[t].family = tokens[Target(r)].family}]
  /\ Goto(r, "lock")
  /\ UNCHANGED <<clock, tables, call, before>>

\* Mutant: an UPDATE that passes locked rows by (SKIP LOCKED).
LockRowSkipping(r) ==
  /\ pc[r] = "lock"
  /\ \E t \in local[r].seen \ local[r].held :
       local' = IF \E s \in Requests : t \in Updated(s)
                THEN [local EXCEPT ![r].seen = @ \ {t}]
                ELSE [local EXCEPT ![r].held = @ \cup {t}]
  /\ Goto(r, "lock")
  /\ UNCHANGED <<clock, tables, call, before>>

LockRow(r) ==
  /\ pc[r] = "lock"
  /\ \E t \in local[r].seen \ local[r].held :
       /\ \A s \in Requests : t \notin Updated(s)
       /\ local' = [local EXCEPT ![r].held = @ \cup {t}]
  /\ Goto(r, "lock")
  /\ UNCHANGED <<clock, tables, call, before>>

\* Mutant: a row without user_id.
NewTokenOwnerless(r) ==
  [user |-> Null, family |-> IF Op(r) = "login" THEN r ELSE tokens[Target(r)].family,
   expires |-> local[r].expires, revoked |-> FALSE]

\* Mutant: a rotation that starts a family of its own.
NewTokenOwnFamily(r) ==
  [user |-> local[r].user, family |-> r, expires |-> local[r].expires, revoked |-> FALSE]

NewToken(r) ==
  [user |-> local[r].user, family |-> IF Op(r) = "login" THEN r ELSE tokens[Target(r)].family,
   expires |-> local[r].expires, revoked |-> FALSE]

\* Mutant: a rotation that leaves the old token as it is.
TokensKeptBy(r) ==
  [t \in Requests |->
     CASE t \in Updated(r) /\ Op(r) # "refresh" -> [tokens[t] EXCEPT !.revoked = TRUE]
       [] t = r /\ pc[r] = "commit" /\ Op(r) \in {"login", "refresh"} -> NewToken(r)
       [] OTHER -> tokens[t]]

\* refresh_tokens after the commit of r.
TokensAfter(r) ==
  [t \in Requests |->
     CASE t \in Updated(r) -> [tokens[t] EXCEPT !.revoked = TRUE]
       [] t \notin Updated(r) /\ t = r /\ pc[r] = "commit" /\ Op(r) \in {"login", "refresh"}
            -> NewToken(r)
       [] OTHER -> tokens[t]]

\* Everything r wrote appears at once.
Commit(r) ==
  /\ pc[r] = "commit"
  /\ orgs' = IF Op(r) = "admin" THEN [orgs EXCEPT ![r] = [slug |-> call[r].slug]] ELSE orgs
  /\ users' = IF Op(r) \in {"admin", "user"} THEN [users EXCEPT ![r] = NewUser(r)] ELSE users
  /\ tokens' = TokensAfter(r)
  /\ Goto(r, "ok")
  /\ UNCHANGED <<clock, call, local, before>>

\* The revocation of the family is committed; then the answer is a 401.
CloseFamily(r) ==
  /\ pc[r] = "lock" /\ local[r].held = local[r].seen
  /\ tokens' = TokensAfter(r)
  /\ Goto(r, "reused")
  /\ UNCHANGED <<clock, orgs, users, call, local, before>>

\* get_user_with_org, for the principal of an access token.
ReadMe(r) ==
  /\ pc[r] = "me"
  /\ Goto(r, IF users[tokens[Target(r)].user] = Null THEN "notfound" ELSE "ok")
  /\ UNCHANGED <<clock, tables, call, local, before>>

\* s stands between r and the end of its statement.  Which row a revocation
\* asks for next is open: whoever holds one it lacks may be in its way.
WaitsOn(r, s) ==
  \/ pc[r] = "org" /\ OrgWaitsFor(r, s)
  \/ pc[r] = "user" /\ UserWaitsFor(r, s)
  \/ pc[r] \in {"rotate", "revoke"} /\ Target(r) \in Updated(s)
  \/ pc[r] = "lock" /\ (local[r].seen \ local[r].held) \cap Updated(s) # {}

Waits(r) == \E s \in Requests : WaitsOn(r, s)

\* r is in a cycle of waits: in a set of requests of which every part waits for
\* one of the rest.
Deadlocked(r) ==
  /\ Waits(r)
  /\ \E C \in SUBSET {s \in Requests : Waits(s)} :
       /\ r \in C /\ C # {r}
       /\ \A D \in (SUBSET C) \ {{}, C} : \E s \in D : \E t \in C \ D : WaitsOn(s, t)

\* After deadlock_timeout the database aborts a transaction of a cycle: 500.
DeadlockVictim(r) ==
  /\ Deadlocked(r)
  /\ Goto(r, "error")
  /\ local' = [local EXCEPT ![r] = Nothing]
  /\ UNCHANGED <<clock, tables, call, before>>

\* Connection lost, process killed: get_db rolls back,
\* and what the handler remembers is gone.
Fail(r) ==
  /\ pc[r] \in Steps
  /\ Goto(r, "error")
  /\ local' = [local EXCEPT ![r] = Nothing]
  /\ UNCHANGED <<clock, tables, call, before>>

Tick ==
  /\ clock < MaxClock
  /\ clock' = clock + 1
  /\ UNCHANGED <<tables, pc, call, local, before>>

\* Not a step of the program: lets TLC tell the end of a run from a deadlock.
AllAnswered ==
  /\ \A r \in Requests : pc[r] \in Answers \/ (pc[r] = "idle" /\ Presentable(r) = {})
  /\ UNCHANGED vars

Register(r) == FlushOrg(r) \/ FindOrg(r) \/ FlushUser(r)

Authenticate(r) ==
  \/ FindUser(r) \/ FindToken(r) \/ ReadOwner(r) \/ InsertToken(r) \/ UpdateToken(r)
  \/ Scan(r) \/ LockRow(r) \/ CloseFamily(r)

Handle(r) == Register(r) \/ Authenticate(r) \/ Commit(r) \/ ReadMe(r) \/ DeadlockVictim(r)

Next ==
  \/ \E r \in Requests : Arrive(r) \/ Handle(r) \/ Fail(r)
  \/ Tick \/ AllAnswered

Spec == Init /\ [][Next]_vars

\* The server runs a handler it has begun, and the database serves it.
FairSpec == Spec /\ \A r \in Requests : WF_vars(Handle(r))

-----------------------------------------------------------------------------
(***************************************************************************)
(* Properties.                                                             *)
(***************************************************************************)
\* The tables hold rows of their declared columns, and a request is at a
\* statement of its handler or has its answer.
TypeOK ==
  /\ clock \in Nat
  /\ orgs \in [Requests -> OrgRows \cup {Null}]
  /\ users \in [Requests -> UserRows \cup {Null}]
  /\ tokens \in [Requests -> TokenRows \cup {Null}]
  /\ pc \in [Requests -> {"idle"} \cup Steps \cup Answers]
  /\ call \in [Requests -> CallType \cup {Null}]
  /\ local \in [Requests -> Memory]
  /\ before \in [Requests -> SUBSET Requests]

\* register_admin is all or nothing: whatever fails between its statements,
\* an organisation has an administrator, the one who founded it and no other,
\* and every user belongs to an organisation.
FoundedWithAdmin ==
  /\ \A o \in Requests : orgs[o] # Null =>
       {u \in Requests : users[u] # Null /\ users[u].org = o /\ users[u].role = "admin"} = {o}
  /\ \A u \in Requests : users[u] # Null => orgs[users[u].org] # Null

\* However registrations race, a slug names one organisation, and an e-mail
\* address, in any spelling, one user of it.
NamesAreUnique ==
  /\ \A o, p \in Requests :
       orgs[o] # Null /\ orgs[p] # Null /\ orgs[o].slug = orgs[p].slug => o = p
  /\ \A u, v \in Requests :
       /\ users[u] # Null /\ users[v] # Null
       /\ users[u].org = users[v].org /\ Lower[users[u].email] = Lower[users[v].email]
       => u = v

\* "already taken" and "already registered" are for good: who was refused will
\* always find the organisation, or the user, that has the name.  A founder is
\* refused for the slug alone, its organisation being new.
RefusalsStand ==
  \A r \in Requests : pc[r] = "conflict" =>
    IF Op(r) = "admin" THEN SlugTaken(r) ELSE EmailTaken(r)

Refreshed(r) == tokens[r] # Null /\ Op(r) = "refresh"

\* The sessions e has ended: the token it logged out, or whatever the family
\* of the reused token had been given by then.
Ended(e) ==
  CASE pc[e] = "ok" /\ Op(e) = "logout" -> {Target(e)} \ {Null}
    [] pc[e] = "reused" -> {t \in before[e] : /\ tokens[t] # Null
                                              /\ tokens[t].family = tokens[Target(e)].family}
    [] OTHER -> {}

\* What a logout or the detection of a reuse ended before a refresh arrived is
\* not renewed by it, and /refresh never renews it later.
SessionEnds ==
  \A e, r \in Requests :
    /\ \A t \in Ended(e) : ~ Live(t)
    /\ Refreshed(r) /\ e \in before[r] => Target(r) \notin Ended(e)

\* A token is renewed once, unless its refreshes overlap: then they may both
\* have read it unrevoked.
RenewedOnce ==
  \A a, b \in Requests :
    Refreshed(a) /\ Refreshed(b) /\ a # b /\ Target(a) = Target(b)
    => a \notin before[b] /\ b \notin before[a]

RenewedTwice(family) ==
  \E c, d \in Requests : /\ Refreshed(c) /\ Refreshed(d) /\ c # d /\ Target(c) = Target(d)
                         /\ tokens[c].family = family

\* A session in which no token was renewed twice has one live token at most.
OneLivePerSession ==
  \A a, b \in Requests :
    Live(a) /\ Live(b) /\ a # b /\ tokens[a].family = tokens[b].family
    => RenewedTwice(tokens[a].family)

\* Nobody is logged out by accident: a token stops being live with the answer
\* to its logout or to a reuse in its family, or as its successor, of the same
\* user and family, becomes live.  A rotation that fails leaves it usable.
NoSessionLost ==
  [][\A t \in Requests : Live(t) /\ ~ Live(t)' =>
       \E r \in Requests :
         \/ pc'[r] = "ok" /\ pc[r] # "ok" /\ Op(r) = "logout" /\ Target(r) = t
         \/ /\ pc'[r] = "reused" /\ pc[r] # "reused"
            /\ tokens[t].family = tokens[Target(r)].family
         \/ /\ ~ Live(r) /\ Live(r)' /\ Op(r) = "refresh" /\ Target(r) = t
            /\ tokens'[r].family = tokens[t].family
            /\ tokens'[r].user = tokens[t].user]_vars

\* "If a previously revoked refresh token is presented to /refresh, we revoke
\* every token in its family": no token of it is live after that answer.
ReuseRevokesFamily ==
  \A e, t \in Requests :
    pc[e] = "reused" /\ Live(t) => tokens[t].family # tokens[Target(e)].family

\* Deadlocks are between revocations of one session, and of no session in which
\* each token was renewed once: a founder, whose slug others wait for before its
\* second insert, meets nobody there, and of one live token there is one lock.
DeadlocksAreOfForks ==
  \A r \in Requests : Deadlocked(r) =>
    pc[r] = "lock" /\ RenewedTwice(tokens[Target(r)].family)

\* Every request that arrives is answered: each being sent once, there comes a
\* time when none waits for a slug, an address or the rows of a family.
EveryCallAnswered == <>[] \A r \in Requests : pc[r] \in {"idle"} \cup Answers

\* The service implements the ledger of sessions.
Entry(t) == [id |-> t, session |-> tokens[t].family, user |-> tokens[t].user]
renewable == {Entry(t) : t \in {s \in Requests : Live(s)}}
given == {Entry(t) : t \in {s \in Requests : tokens[s] # Null}}

Sessions == INSTANCE SessionLedger
  WITH Ids <- Requests, Users <- Requests, live <- renewable, issued <- given

SessionSpec == Sessions!Spec
==============================================================================
