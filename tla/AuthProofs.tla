------------------------------ MODULE AuthProofs ------------------------------
(***************************************************************************)
(* Proofs about AuthService, for every set of requests, names and          *)
(* passwords and every behaviour of the clients.                           *)
(***************************************************************************)
EXTENDS AuthService, TLAPS

-----------------------------------------------------------------------------
(***************************************************************************)
(* What the steps leave alone.                                             *)
(***************************************************************************)
LEMMA CallFacts ==
  ASSUME NEW c \in CallType
  PROVE  /\ c # Null
         /\ c.op \in {"admin", "user", "login", "refresh", "logout", "me"}
         /\ c.op \in AccountOps =>
              c.slug \in Slugs /\ c.email \in Emails /\ c.password \in Passwords
         /\ c.op \in {"refresh", "logout"} => c.token \in Requests \cup {Null}
         /\ c.op = "me" => c.token \in Requests
BY NullAssumption DEF CallType, AccountOps

\* The steps that only move the request, and perhaps what it remembers.
Moves(r) ==
  \/ FlushOrg(r) \/ FindOrg(r) \/ FlushUser(r) \/ FindUser(r) \/ FindToken(r)
  \/ ReadOwner(r) \/ InsertToken(r) \/ UpdateToken(r) \/ Scan(r) \/ LockRow(r)
  \/ ReadMe(r) \/ DeadlockVictim(r) \/ Fail(r)

LEMMA NextCases ==
  ASSUME [Next]_vars
  PROVE  \/ \E r \in Requests : Arrive(r) \/ Moves(r) \/ Commit(r) \/ CloseFamily(r)
         \/ Tick
         \/ UNCHANGED vars
BY DEF Next, Handle, Register, Authenticate, AllAnswered, Moves

LEMMA ArriveFrame ==
  ASSUME NEW r \in Requests, Arrive(r)
  PROVE  /\ pc[r] = "idle"
         /\ UNCHANGED <<clock, orgs, users, tokens, local>>
         /\ \E c \in CallType :
              /\ call' = [call EXCEPT ![r] = c]
              /\ c.op \in AccountOps \/ c.token = Null \/ tokens[c.token] # Null
              /\ \/ c.op = "admin" /\ Goto(r, "org")
                 \/ c.op = "me" /\ (Goto(r, "me") \/ Goto(r, "unauthorized"))
                 \/ /\ c.op \in {"user", "login", "refresh", "logout"}
                    /\ Goto(r, "find")
         /\ before' = [before EXCEPT ![r] =
              {s \in Requests : pc[s] \in Answers /\ Op(s) \in SessionOps}]
<1>1. PICK c \in Presentable(r) :
        /\ call' = [call EXCEPT ![r] = c]
        /\ \E step \in FirstSteps(c.op) : Goto(r, step)
  BY DEF Arrive
<1>2. c \in CallType /\ (c.op \in AccountOps \/ c.token = Null \/ tokens[c.token] # Null)
  BY <1>1, AuthAssumption DEF Presentable
<1>3. \/ c.op = "admin" /\ Goto(r, "org")
      \/ c.op = "me" /\ (Goto(r, "me") \/ Goto(r, "unauthorized"))
      \/ c.op \in {"user", "login", "refresh", "logout"} /\ Goto(r, "find")
  BY <1>1, <1>2, CallFacts DEF FirstSteps
<1> QED BY <1>1, <1>2, <1>3 DEF Arrive, tables

LEMMA AfterFindCases ==
  ASSUME NEW r \in Requests, FindToken(r)
  PROVE  \/ Goto(r, "unauthorized")
         \/ Goto(r, "ok") /\ Op(r) = "logout" /\ (Target(r) = Null \/ ~ Live(Target(r)))
         \/ Goto(r, "revoke") /\ Op(r) = "logout" /\ Target(r) # Null
         \/ Goto(r, "scan") /\ Op(r) = "refresh" /\ Target(r) # Null
         \/ Goto(r, "owner") /\ Op(r) = "refresh" /\ Target(r) # Null /\ Live(Target(r))
BY DEF FindToken, AfterFind

LEMMA MoveFrame ==
  ASSUME NEW r \in Requests, Moves(r)
  PROVE  /\ pc[r] \in Steps
         /\ UNCHANGED <<clock, orgs, users, tokens, call, before>>
         /\ \E step \in Steps \cup Answers : pc' = [pc EXCEPT ![r] = step]
<1> USE DEF Goto, tables, Steps, Answers
<1>1. CASE FlushOrg(r) BY <1>1 DEF FlushOrg
<1>2. CASE FindOrg(r) BY <1>2 DEF FindOrg
<1>3. CASE FlushUser(r) BY <1>3 DEF FlushUser
<1>4. CASE FindUser(r) BY <1>4 DEF FindUser
<1>5. CASE FindToken(r) BY <1>5, AfterFindCases DEF FindToken
<1>6. CASE ReadOwner(r) BY <1>6 DEF ReadOwner
<1>7. CASE InsertToken(r) BY <1>7 DEF InsertToken
<1>8. CASE UpdateToken(r) BY <1>8 DEF UpdateToken
<1>9. CASE Scan(r) BY <1>9 DEF Scan
<1>10. CASE LockRow(r) BY <1>10 DEF LockRow
<1>11. CASE ReadMe(r) BY <1>11 DEF ReadMe
<1>12. CASE Fail(r) BY <1>12 DEF Fail
<1>13. CASE DeadlockVictim(r)
  BY <1>13 DEF DeadlockVictim, Deadlocked, Waits, WaitsOn
<1> QED
  BY <1>1, <1>2, <1>3, <1>4, <1>5, <1>6, <1>7, <1>8, <1>9, <1>10, <1>11, <1>12, <1>13 DEF Moves

LEMMA VictimWaits ==
  ASSUME NEW r \in Requests, DeadlockVictim(r)
  PROVE  /\ pc[r] \in {"org", "user", "rotate", "revoke", "lock"}
         /\ Goto(r, "error")
         /\ local' = [local EXCEPT ![r] = Nothing]
BY DEF DeadlockVictim, Deadlocked, Waits, WaitsOn

\* What a statement may add to what the handler remembers.
LEMMA MoveLocal ==
  ASSUME TypeOK, NEW r \in Requests, Moves(r)
  PROVE  \/ UNCHANGED local
         \/ \E o \in Requests : local' = [local EXCEPT ![r].org = o]
         \/ FindUser(r) \/ ReadOwner(r)
         \/ \E T, U \in SUBSET Requests : local' = [local EXCEPT ![r].held = U, ![r].seen = T]
         \/ \E U \in SUBSET Requests : local' = [local EXCEPT ![r].held = U]
         \/ local' = [local EXCEPT ![r] = Nothing]
<1>1. CASE Scan(r)
  <2>1. PICK T \in SUBSET Requests : local' = [local EXCEPT ![r].held = {}, ![r].seen = T]
    BY <1>1 DEF Scan
  <2> QED BY <2>1
<1>2. CASE LockRow(r)
  <2>1. PICK t \in local[r].seen : local' = [local EXCEPT ![r].held = @ \cup {t}]
    BY <1>2 DEF LockRow
  <2>2. local' = [local EXCEPT ![r].held = local[r].held \cup {t}]
    BY <2>1 DEF TypeOK
  <2>3. local[r].held \cup {t} \in SUBSET Requests
    BY DEF TypeOK, Memory
  <2> QED BY <2>2, <2>3
<1>3. CASE FlushOrg(r) \/ FindOrg(r) \/ FlushUser(r) \/ FindToken(r) \/ InsertToken(r)
           \/ UpdateToken(r) \/ ReadMe(r) \/ Fail(r)
  BY <1>3 DEF FlushOrg, FindOrg, FlushUser, FindToken, InsertToken, UpdateToken, ReadMe, Fail
<1> QED BY <1>1, <1>2, <1>3, VictimWaits DEF Moves

-----------------------------------------------------------------------------
(***************************************************************************)
(* Type correctness.                                                       *)
(***************************************************************************)
\* A request is at a statement of the handler it called.
ControlOf(r) ==
  /\ pc[r] # "idle" => call[r] \in CallType
  /\ pc[r] = "org" => Op(r) = "admin"
  /\ pc[r] = "user" => Op(r) \in {"admin", "user"}
  /\ pc[r] = "find" => Op(r) \in {"user", "login", "refresh", "logout"}
  /\ pc[r] = "issue" => Op(r) = "login"
  /\ pc[r] \in {"owner", "rotate", "scan", "lock", "reused"} => Op(r) = "refresh"
  /\ pc[r] = "revoke" => Op(r) = "logout"
  /\ pc[r] = "me" => Op(r) = "me"
  /\ pc[r] = "commit" => Op(r) # "me"

\* The statements of a request that has found its token.
PastFind == {"owner", "rotate", "revoke", "scan", "lock", "commit", "reused"}

\* A request has no row of its own before its commit; what it has read stays.
DataOf(r) ==
  /\ pc[r] # "ok" => orgs[r] = Null /\ users[r] = Null /\ tokens[r] = Null
  /\ pc[r] \in {"user", "commit"} /\ Op(r) = "admin" => local[r].org = r
  /\ pc[r] \in {"user", "commit"} /\ Op(r) = "user" =>
       local[r].org \in Requests /\ orgs[local[r].org] # Null
  /\ pc[r] \in {"issue", "commit"} /\ Op(r) = "login" => local[r].user \in Requests
  /\ pc[r] # "idle" /\ Op(r) \in {"refresh", "logout"} /\ (pc[r] \in PastFind \/ Target(r) # Null)
       => Target(r) \in Requests /\ tokens[Target(r)] # Null
  /\ pc[r] \in {"rotate", "commit"} /\ Op(r) = "refresh" =>
       local[r].user = tokens[Target(r)].user
  /\ pc[r] = "lock" => local[r].held \subseteq local[r].seen

Base == TypeOK /\ \A r \in Requests : ControlOf(r) /\ DataOf(r)

\* What each statement leaves behind for its own request.
LEMMA MoveOwn ==
  ASSUME Base, NEW r \in Requests, Moves(r)
  PROVE  ControlOf(r)' /\ DataOf(r)'
<1> USE DEF Base, TypeOK, Goto, tables
<1>0. /\ pc[r] \in Steps /\ call[r] \in CallType
      /\ UNCHANGED <<orgs, users, tokens, call>>
  BY MoveFrame DEF ControlOf, Steps
<1>1. TypeOK /\ ControlOf(r) /\ DataOf(r) OBVIOUS
<1> HIDE DEF Base
<1>2. CASE FlushOrg(r)
  <2>1. local'[r].org = r
    <3>1. local' = [local EXCEPT ![r].org = r] BY <1>2 DEF FlushOrg
    <3> QED BY <1>1, <3>1 DEF Memory
  <2>2. pc[r] = "org" /\ pc'[r] \in {"conflict", "user"}
    BY <1>1, <1>2 DEF FlushOrg
  <2>3. Op(r) = "admin" /\ orgs[r] = Null /\ users[r] = Null /\ tokens[r] = Null
    BY <1>1, <2>2 DEF ControlOf, DataOf
  <2>4. /\ call'[r] = call[r] /\ call[r] \in CallType
        /\ orgs'[r] = Null /\ users'[r] = Null /\ tokens'[r] = Null
    BY <1>0, <2>3
  <2>5. ControlOf(r)' BY <2>2, <2>3, <2>4 DEF ControlOf, Op
  <2>6. pc'[r] \notin {"ok", "commit", "issue", "rotate", "lock"} /\ Op(r)' = "admin"
    BY <2>2, <2>3, <2>4 DEF Op
  <2>7. DataOf(r)' BY <2>1, <2>4, <2>6 DEF DataOf
  <2> QED BY <2>5, <2>7
<1>3. CASE FindOrg(r)
  <2>1. /\ pc[r] = "find" /\ Op(r) = "user"
        /\ \/ pc'[r] = "notfound"
           \/ \E o \in Requests : /\ orgs[o] # Null /\ local'[r].org = o
                                 /\ pc'[r] = "user"
    BY <1>1, <1>3 DEF FindOrg, Memory
  <2> QED BY <1>0, <1>1, <2>1 DEF ControlOf, DataOf, PastFind, Op
<1>4. CASE FlushUser(r)
  BY <1>0, <1>1, <1>4 DEF FlushUser, ControlOf, DataOf, PastFind, Op, Target
<1>5. CASE FindUser(r)
  <2>1. \/ Goto(r, "unauthorized")
        \/ Goto(r, "issue") /\ local'[r].user \in Requests
    <3>1. CASE Goto(r, "unauthorized") BY <3>1
    <3>2. CASE \E u \in Requests :
            /\ local' = [local EXCEPT ![r].user = u, ![r].expires = clock + Ttl]
            /\ Goto(r, "issue")
      <4>1. PICK u \in Requests :
              /\ local' = [local EXCEPT ![r].user = u, ![r].expires = clock + Ttl]
              /\ Goto(r, "issue")
        BY <3>2
      <4>2. local'[r].user = u BY <1>1, <4>1
      <4> QED BY <4>1, <4>2
    <3> QED BY <1>5, <3>1, <3>2 DEF FindUser
  <2>2. pc[r] = "find" /\ Op(r) = "login" BY <1>5 DEF FindUser
  <2> QED BY <1>0, <1>1, <2>1, <2>2 DEF ControlOf, DataOf, PastFind, Op, Target
<1>6. CASE FindToken(r)
  <2>1. pc[r] = "find" BY <1>6 DEF FindToken
  <2> QED BY <1>0, <1>1, <1>6, <2>1, AfterFindCases DEF ControlOf, DataOf, PastFind, Op, Target
<1>7. CASE ReadOwner(r)
  BY <1>0, <1>1, <1>7 DEF ReadOwner, ControlOf, DataOf, PastFind, Op, Target
<1>8. CASE InsertToken(r)
  BY <1>0, <1>1, <1>8 DEF InsertToken, ControlOf, DataOf, PastFind, Op, Target
<1>9. CASE UpdateToken(r)
  BY <1>0, <1>1, <1>9 DEF UpdateToken, ControlOf, DataOf, PastFind, Op, Target
<1>10. CASE Scan(r)
  BY <1>0, <1>1, <1>10 DEF Scan, ControlOf, DataOf, PastFind, Op, Target
<1>11. CASE LockRow(r)
  BY <1>0, <1>1, <1>11 DEF LockRow, ControlOf, DataOf, PastFind, Op, Target
<1>12. CASE ReadMe(r)
  BY <1>0, <1>1, <1>12 DEF ReadMe, ControlOf, DataOf, PastFind, Op, Target
<1>13. CASE Fail(r)
  BY <1>0, <1>1, <1>13 DEF Fail, ControlOf, DataOf, PastFind, Op, Target, Steps
<1>14. CASE DeadlockVictim(r)
  BY <1>0, <1>1, <1>14, VictimWaits DEF ControlOf, DataOf, PastFind, Op, Target
<1> QED
  BY <1>2, <1>3, <1>4, <1>5, <1>6, <1>7, <1>8, <1>9, <1>10, <1>11, <1>12, <1>13,
     <1>14 DEF Moves

Revoked(t) == [tokens[t] EXCEPT !.revoked = TRUE]

LEMMA RevokedFacts ==
  ASSUME NEW t \in Requests, tokens[t] \in TokenRows
  PROVE  /\ Revoked(t) \in TokenRows /\ Revoked(t).revoked
         /\ Revoked(t).user = tokens[t].user /\ Revoked(t).family = tokens[t].family
BY DEF Revoked, TokenRows

\* What a commit does to the tables.
LEMMA CommitTables ==
  ASSUME Base, NEW r \in Requests, Commit(r)
  PROVE  /\ pc[r] = "commit" /\ call[r] \in CallType
         /\ orgs[r] = Null /\ users[r] = Null /\ tokens[r] = Null
         /\ pc' = [pc EXCEPT ![r] = "ok"] /\ UNCHANGED <<clock, call, local, before>>
         /\ Op(r) \in {"admin", "user", "login", "refresh", "logout"}
         /\ Op(r) = "admin" => /\ orgs' = [orgs EXCEPT ![r] = [slug |-> call[r].slug]]
                               /\ local[r].org = r
         /\ Op(r) # "admin" => orgs' = orgs
         /\ Op(r) \in {"admin", "user"} => /\ users' = [users EXCEPT ![r] = NewUser(r)]
                                           /\ NewUser(r) \in UserRows
         /\ Op(r) \notin {"admin", "user"} => users' = users
         /\ Op(r) = "user" => orgs[local[r].org] # Null
         /\ Op(r) \in {"refresh", "logout"} => /\ Target(r) \in Requests /\ Target(r) # r
                                               /\ tokens[Target(r)] \in TokenRows
         /\ Op(r) \in {"login", "refresh"} => NewToken(r) \in TokenRows
         /\ \A t \in Requests : tokens'[t] =
              IF Op(r) \in {"refresh", "logout"} /\ t = Target(r) THEN Revoked(t)
              ELSE IF Op(r) \in {"login", "refresh"} /\ t = r THEN NewToken(r)
              ELSE tokens[t]
<1>1. /\ pc[r] = "commit" /\ pc' = [pc EXCEPT ![r] = "ok"]
      /\ UNCHANGED <<clock, call, local, before>>
  BY DEF Commit, Goto
<1>2. ControlOf(r) /\ DataOf(r) /\ TypeOK BY DEF Base
<1>3. /\ call[r] \in CallType /\ orgs[r] = Null /\ users[r] = Null /\ tokens[r] = Null
      /\ Op(r) \in {"admin", "user", "login", "refresh", "logout"}
  BY <1>1, <1>2, CallFacts DEF ControlOf, DataOf, Op
<1>4. Op(r) \in {"refresh", "logout"} => /\ Target(r) \in Requests /\ Target(r) # r
                                        /\ tokens[Target(r)] \in TokenRows
  BY <1>1, <1>2, <1>3 DEF DataOf, PastFind, TypeOK
<1>5. ASSUME Op(r) \in {"admin", "user"} PROVE NewUser(r) \in UserRows
  <2>1. EmailFor(r) \in Emails /\ call[r].password \in Passwords
    BY <1>3, <1>5, CallFacts, AuthAssumption DEF EmailFor, Op, AccountOps
  <2>2. local[r].org \in Requests
    BY <1>1, <1>2, <1>5 DEF DataOf
  <2> QED BY <1>5, <2>1, <2>2 DEF NewUser, UserRows
<1>6. ASSUME Op(r) \in {"login", "refresh"} PROVE NewToken(r) \in TokenRows
  <2>1. local[r].expires \in Nat BY <1>2 DEF TypeOK, Memory
  <2>2. local[r].user \in Requests
    BY <1>1, <1>2, <1>4, <1>6 DEF DataOf, TokenRows
  <2>3. Op(r) = "refresh" => tokens[Target(r)].family \in Requests
    BY <1>4 DEF TokenRows
  <2> QED BY <1>6, <2>1, <2>2, <2>3 DEF NewToken, TokenRows
<1>7. Updated(r) = IF Op(r) \in {"refresh", "logout"} THEN {Target(r)} ELSE {}
  BY <1>1 DEF Updated
<1>8. ASSUME NEW t \in Requests
      PROVE  tokens'[t] = IF Op(r) \in {"refresh", "logout"} /\ t = Target(r) THEN Revoked(t)
                          ELSE IF Op(r) \in {"login", "refresh"} /\ t = r THEN NewToken(r)
                          ELSE tokens[t]
  <2>1. tokens' = TokensAfter(r) BY DEF Commit
  <2> QED BY <2>1, <1>1, <1>4, <1>7 DEF TokensAfter, Revoked
<1>9. /\ Op(r) = "admin" => local[r].org = r
      /\ Op(r) = "user" => orgs[local[r].org] # Null
  BY <1>1, <1>2 DEF DataOf
<1> QED BY <1>1, <1>3, <1>4, <1>5, <1>6, <1>8, <1>9 DEF Commit

LEMMA CloseTables ==
  ASSUME Base, NEW r \in Requests, CloseFamily(r)
  PROVE  /\ pc[r] = "lock" /\ Op(r) = "refresh" /\ call[r] \in CallType
         /\ orgs[r] = Null /\ users[r] = Null /\ tokens[r] = Null
         /\ pc' = [pc EXCEPT ![r] = "reused"]
         /\ UNCHANGED <<clock, orgs, users, call, local, before>>
         /\ \A t \in Requests : tokens'[t] =
              IF t \in local[r].seen /\ Live(t) THEN Revoked(t) ELSE tokens[t]
<1>1. pc[r] = "lock" /\ local[r].held = local[r].seen BY DEF CloseFamily
<1>2. Updated(r) = {t \in local[r].seen : Live(t)}
  BY <1>1 DEF Updated
<1>3. tokens' = TokensAfter(r) BY DEF CloseFamily
<1>4. ASSUME NEW t \in Requests
      PROVE  tokens'[t] = IF t \in local[r].seen /\ Live(t) THEN Revoked(t) ELSE tokens[t]
  BY <1>1, <1>2, <1>3 DEF TokensAfter, Revoked
<1> QED BY <1>1, <1>4 DEF CloseFamily, Goto, Base, ControlOf, DataOf

\* Rows stay, and a token changes in nothing but its revocation.
LEMMA TablesGrow ==
  ASSUME Base, [Next]_vars
  PROVE  /\ orgs' \in [Requests -> OrgRows \cup {Null}]
         /\ users' \in [Requests -> UserRows \cup {Null}]
         /\ tokens' \in [Requests -> TokenRows \cup {Null}]
         /\ \A o \in Requests : orgs[o] # Null => orgs'[o] = orgs[o]
         /\ \A u \in Requests : users[u] # Null => users'[u] = users[u]
         /\ \A t \in Requests : tokens[t] # Null =>
              /\ tokens'[t] # Null
              /\ tokens'[t].user = tokens[t].user /\ tokens'[t].family = tokens[t].family
              /\ tokens[t].revoked => tokens'[t].revoked
         /\ \A t \in Requests : pc[t] # "commit" /\ tokens[t] = Null => tokens'[t] = Null
<1> USE DEF Base, TypeOK
<1>1. ASSUME NEW r \in Requests, Arrive(r) PROVE UNCHANGED <<orgs, users, tokens>>
  BY <1>1, ArriveFrame
<1>2. ASSUME NEW r \in Requests, Moves(r) PROVE UNCHANGED <<orgs, users, tokens>>
  BY <1>2, MoveFrame
<1>3. CASE UNCHANGED <<orgs, users, tokens>>
  BY <1>3
<1>4. ASSUME NEW r \in Requests, Commit(r)
      PROVE  /\ orgs' \in [Requests -> OrgRows \cup {Null}]
             /\ users' \in [Requests -> UserRows \cup {Null}]
             /\ \A o \in Requests : orgs[o] # Null => orgs'[o] = orgs[o]
             /\ \A u \in Requests : users[u] # Null => users'[u] = users[u]
  <2>1. Op(r) = "admin" => [slug |-> call[r].slug] \in OrgRows
    BY <1>4, CommitTables, CallFacts DEF OrgRows, Op, AccountOps
  <2>2. TypeOK OBVIOUS
  <2> HIDE DEF Base
  <2> QED BY <1>4, <2>1, <2>2, CommitTables
<1>5. ASSUME NEW r \in Requests, Commit(r) \/ CloseFamily(r), NEW t \in Requests
      PROVE  /\ tokens'[t] \in TokenRows \cup {Null}
             /\ tokens[t] # Null =>
                  /\ tokens'[t] # Null
                  /\ tokens'[t].user = tokens[t].user /\ tokens'[t].family = tokens[t].family
                  /\ tokens[t].revoked => tokens'[t].revoked
             /\ pc[t] # "commit" /\ tokens[t] = Null => tokens'[t] = Null
  <2>1. tokens[t] \in TokenRows \cup {Null} OBVIOUS
  <2>2. tokens[t] \in TokenRows =>
          /\ Revoked(t) \in TokenRows /\ Revoked(t).revoked
          /\ Revoked(t).user = tokens[t].user /\ Revoked(t).family = tokens[t].family
    BY RevokedFacts
  <2>3. Null \notin TokenRows BY NullAssumption
  <2> HIDE DEF Base, TypeOK
  <2>4. CASE tokens'[t] = Revoked(t) /\ tokens[t] \in TokenRows
    <3>1. tokens'[t].user = tokens[t].user /\ tokens'[t].family = tokens[t].family
      BY <2>2, <2>4
    <3>2. tokens'[t].revoked BY <2>2, <2>4, Zenon
    <3>3. tokens'[t] \in TokenRows /\ tokens'[t] # Null BY <2>2, <2>3, <2>4
    <3>4. tokens[t] # Null BY <2>3, <2>4
    <3> QED BY <3>1, <3>2, <3>3, <3>4
  <2>5. CASE tokens'[t] = tokens[t] BY <2>1, <2>5
  <2>6. CASE Commit(r)
    <3>1. /\ tokens[r] = Null /\ pc[r] = "commit"
          /\ Op(r) \in {"login", "refresh"} => NewToken(r) \in TokenRows
          /\ Op(r) \in {"refresh", "logout"} => tokens[Target(r)] \in TokenRows
      BY <2>6, CommitTables
    <3>2. \/ tokens'[t] = tokens[t]
          \/ tokens'[t] = Revoked(t) /\ tokens[t] \in TokenRows
          \/ tokens'[t] \in TokenRows /\ t = r
      <4>1. tokens'[t] = IF Op(r) \in {"refresh", "logout"} /\ t = Target(r) THEN Revoked(t)
                         ELSE IF Op(r) \in {"login", "refresh"} /\ t = r THEN NewToken(r)
                         ELSE tokens[t]
        BY <2>6, CommitTables
      <4> QED BY <3>1, <4>1
    <3>3. CASE tokens'[t] \in TokenRows /\ t = r BY <3>1, <3>3
    <3> QED BY <2>4, <2>5, <3>2, <3>3
  <2>7. CASE CloseFamily(r)
    <3>1. tokens'[t] = tokens[t] \/ (tokens'[t] = Revoked(t) /\ tokens[t] # Null)
      BY <2>7, CloseTables DEF Live
    <3> QED BY <2>1, <2>4, <2>5, <3>1
  <2> QED BY <1>5, <2>6, <2>7
<1>6. ASSUME NEW r \in Requests, Commit(r) \/ CloseFamily(r)
      PROVE  tokens' \in [Requests -> TokenRows \cup {Null}]
  <2>1. \E f : tokens' = [t \in Requests |-> f[t]]
    BY <1>6 DEF Commit, CloseFamily, TokensAfter
  <2> QED BY <1>6, <1>5, <2>1
<1>7. ASSUME NEW r \in Requests, CloseFamily(r) PROVE UNCHANGED <<orgs, users>>
  BY <1>7, CloseTables
<1>8. CASE Tick BY <1>8, <1>3 DEF Tick, tables
<1>9. CASE UNCHANGED vars BY <1>9, <1>3 DEF vars
<1> HIDE DEF Base
<1>10. CASE \E r \in Requests : Commit(r)
  BY <1>4, <1>5, <1>6, <1>10
<1>11. CASE \E r \in Requests : CloseFamily(r)
  BY <1>5, <1>6, <1>7, <1>11 DEF Base
<1> QED BY <1>1, <1>2, <1>3, <1>8, <1>9, <1>10, <1>11, NextCases

LEMMA OthersStay ==
  ASSUME Base, [Next]_vars, NEW s \in Requests,
         pc'[s] = pc[s], call'[s] = call[s], local'[s] = local[s],
         pc[s] # "ok" => orgs'[s] = Null /\ users'[s] = Null /\ tokens'[s] = Null
  PROVE  ControlOf(s)' /\ DataOf(s)'
<1>1. ControlOf(s) /\ DataOf(s) BY DEF Base
<1>2. ControlOf(s)' BY <1>1 DEF ControlOf, Op
<1>3. \A o \in Requests : orgs[o] # Null => orgs'[o] # Null
  BY TablesGrow
<1>4. \A t \in Requests : tokens[t] # Null =>
         tokens'[t] # Null /\ tokens'[t].user = tokens[t].user
  BY TablesGrow
<1> QED BY <1>1, <1>2, <1>3, <1>4 DEF DataOf, Op, Target, PastFind

LEMMA BaseInit == Init => Base
BY AuthAssumption DEF Init, Base, TypeOK, ControlOf, DataOf, PastFind, Memory, Nothing

\* Whatever a statement remembers, it remembers of its own request.
LEMMA MemoryStep ==
  ASSUME TypeOK, NEW r \in Requests, Moves(r), ControlOf(r), DataOf(r)
  PROVE  /\ local' \in [Requests -> Memory]
         /\ \A s \in Requests \ {r} : local'[s] = local[s]
<1>1. local \in [Requests -> Memory] /\ clock \in Nat BY DEF TypeOK
<1>2. ASSUME NEW m \in Memory, local' = [local EXCEPT ![r] = m]
      PROVE  /\ local' \in [Requests -> Memory]
             /\ \A s \in Requests \ {r} : local'[s] = local[s]
  BY <1>1, <1>2
<1>3. CASE UNCHANGED local BY <1>1, <1>3
<1>4. CASE \E o \in Requests : local' = [local EXCEPT ![r].org = o]
  <2>1. PICK o \in Requests : local' = [local EXCEPT ![r].org = o] BY <1>4
  <2>2. [local[r] EXCEPT !.org = o] \in Memory BY <1>1 DEF Memory
  <2>3. local' = [local EXCEPT ![r] = [local[r] EXCEPT !.org = o]] BY <2>1
  <2> QED BY <1>2, <2>2, <2>3
<1>5. CASE FindUser(r) \/ ReadOwner(r)
  <2>1. PICK u \in Requests :
          \/ UNCHANGED local
          \/ local' = [local EXCEPT ![r].user = u, ![r].expires = clock + Ttl]
    <3>1. CASE FindUser(r) BY <3>1 DEF FindUser
    <3>2. CASE ReadOwner(r)
      <4>1. tokens[Target(r)] \in TokenRows
        BY <3>2 DEF ReadOwner, TypeOK, ControlOf, DataOf, PastFind
      <4> QED BY <3>2, <4>1 DEF ReadOwner, TokenRows
    <3> QED BY <1>5, <3>1, <3>2
  <2>2. clock + Ttl \in Nat BY <1>1, AuthAssumption
  <2>3. [local[r] EXCEPT !.user = u, !.expires = clock + Ttl] \in Memory
    <3> DEFINE m == [local[r] EXCEPT !.user = u]
    <3>1. m \in Memory BY <1>1 DEF Memory
    <3> HIDE DEF m
    <3>2. [m EXCEPT !.expires = clock + Ttl] \in Memory BY <2>2, <3>1 DEF Memory
    <3> QED BY <3>2 DEF m
  <2>4. CASE local' = [local EXCEPT ![r].user = u, ![r].expires = clock + Ttl]
    <3>1. local' = [local EXCEPT ![r] = [local[r] EXCEPT !.user = u, !.expires = clock + Ttl]]
      BY <1>1, <2>4
    <3> QED BY <1>2, <2>3, <3>1
  <2> QED BY <1>3, <2>1, <2>4
<1>6. CASE \E T, U \in SUBSET Requests : local' = [local EXCEPT ![r].held = U, ![r].seen = T]
  <2>1. PICK T \in SUBSET Requests, U \in SUBSET Requests :
          local' = [local EXCEPT ![r].held = U, ![r].seen = T]
    BY <1>6
  <2>2. [local[r] EXCEPT !.held = U, !.seen = T] \in Memory
    <3> DEFINE m == [local[r] EXCEPT !.held = U]
    <3>1. m \in Memory BY <1>1 DEF Memory
    <3> HIDE DEF m
    <3>2. [m EXCEPT !.seen = T] \in Memory BY <3>1 DEF Memory
    <3> QED BY <3>2 DEF m
  <2>3. local' = [local EXCEPT ![r] = [local[r] EXCEPT !.held = U, !.seen = T]]
    BY <1>1, <2>1
  <2> QED BY <1>2, <2>2, <2>3
<1>7. CASE \E U \in SUBSET Requests : local' = [local EXCEPT ![r].held = U]
  <2>1. PICK U \in SUBSET Requests : local' = [local EXCEPT ![r].held = U] BY <1>7
  <2>2. [local[r] EXCEPT !.held = U] \in Memory BY <1>1 DEF Memory
  <2>3. local' = [local EXCEPT ![r] = [local[r] EXCEPT !.held = U]] BY <2>1
  <2> QED BY <1>2, <2>2, <2>3
<1>8. CASE local' = [local EXCEPT ![r] = Nothing]
  <2>1. Nothing \in Memory BY DEF Nothing, Memory
  <2> QED BY <1>2, <1>8, <2>1
<1> QED BY <1>3, <1>4, <1>5, <1>6, <1>7, <1>8, MoveLocal

LEMMA BaseNext == Base /\ [Next]_vars => Base'
<1> SUFFICES ASSUME Base, [Next]_vars PROVE Base'
  OBVIOUS
<1>1. /\ clock \in Nat /\ pc \in [Requests -> {"idle"} \cup Steps \cup Answers]
      /\ call \in [Requests -> CallType \cup {Null}]
      /\ local \in [Requests -> Memory]
      /\ before \in [Requests -> SUBSET Requests]
  BY DEF Base, TypeOK
<1>2. /\ orgs' \in [Requests -> OrgRows \cup {Null}]
      /\ users' \in [Requests -> UserRows \cup {Null}]
      /\ tokens' \in [Requests -> TokenRows \cup {Null}]
  BY TablesGrow
<1>3. ASSUME NEW r \in Requests, Arrive(r) PROVE Base'
  <2>1. PICK c \in CallType :
           /\ call' = [call EXCEPT ![r] = c]
           /\ c.op \in AccountOps \/ c.token = Null \/ tokens[c.token] # Null
           /\ \/ c.op = "admin" /\ Goto(r, "org")
              \/ c.op = "me" /\ (Goto(r, "me") \/ Goto(r, "unauthorized"))
              \/ c.op \in {"user", "login", "refresh", "logout"} /\ Goto(r, "find")
    BY <1>3, ArriveFrame
  <2>2. /\ pc[r] = "idle" /\ UNCHANGED <<clock, orgs, users, tokens, local>>
        /\ before' = [before EXCEPT ![r] =
             {s \in Requests : pc[s] \in Answers /\ Op(s) \in SessionOps}]
    BY <1>3, ArriveFrame
  <2>3. call'[r] = c BY <1>1, <2>1
  <2>4. ControlOf(r)'
    BY <1>1, <2>1, <2>3 DEF ControlOf, Op, Goto
  <2>5. DataOf(r)'
    <3>1. orgs[r] = Null /\ users[r] = Null /\ tokens[r] = Null
      BY <2>2 DEF Base, DataOf
    <3>2. c.op \in {"refresh", "logout"} /\ c.token # Null =>
             c.token \in Requests /\ tokens[c.token] # Null
      BY <2>1, CallFacts DEF AccountOps
    <3>3. pc'[r] \in {"org", "me", "unauthorized", "find"} BY <1>1, <2>1 DEF Goto
    <3> QED BY <2>2, <2>3, <3>1, <3>2, <3>3 DEF DataOf, Op, Target, PastFind
  <2>6. ASSUME NEW s \in Requests, s # r PROVE ControlOf(s)' /\ DataOf(s)'
    <3>1. pc'[s] = pc[s] /\ call'[s] = call[s] /\ local'[s] = local[s]
      BY <1>1, <2>1, <2>2, <2>6 DEF Goto
    <3>2. pc[s] # "ok" => orgs'[s] = Null /\ users'[s] = Null /\ tokens'[s] = Null
      BY <2>2 DEF Base, DataOf
    <3> QED BY <3>1, <3>2, OthersStay
  <2>7. TypeOK'
    <3>1. call' \in [Requests -> CallType \cup {Null}] BY <1>1, <2>1
    <3>2. pc' \in [Requests -> {"idle"} \cup Steps \cup Answers]
      BY <1>1, <2>1 DEF Goto, Steps, Answers
    <3>3. before' \in [Requests -> SUBSET Requests] BY <1>1, <2>2
    <3> QED BY <1>1, <1>2, <2>2, <3>1, <3>2, <3>3 DEF TypeOK
  <2> QED BY <2>4, <2>5, <2>6, <2>7 DEF Base
<1>4. ASSUME NEW r \in Requests, Moves(r) PROVE Base'
  <2>1. UNCHANGED <<clock, orgs, users, tokens, call, before>>
    BY <1>4, MoveFrame
  <2>2. PICK step \in Steps \cup Answers : pc' = [pc EXCEPT ![r] = step]
    BY <1>4, MoveFrame
  <2>3. pc[r] \in Steps BY <1>4, MoveFrame
  <2>4. /\ local' \in [Requests -> Memory]
        /\ \A s \in Requests \ {r} : local'[s] = local[s]
    BY <1>1, <1>4, MemoryStep DEF Base
  <2>5. ControlOf(r)' /\ DataOf(r)' BY <1>4, MoveOwn
  <2>6. ASSUME NEW s \in Requests, s # r PROVE ControlOf(s)' /\ DataOf(s)'
    <3>1. pc'[s] = pc[s] /\ call'[s] = call[s] /\ local'[s] = local[s]
      BY <1>1, <2>1, <2>2, <2>4, <2>6
    <3>2. pc[s] # "ok" => orgs'[s] = Null /\ users'[s] = Null /\ tokens'[s] = Null
      BY <2>1 DEF Base, DataOf
    <3> QED BY <3>1, <3>2, OthersStay
  <2>7. TypeOK'
    BY <1>1, <1>2, <2>1, <2>2, <2>4 DEF TypeOK
  <2> QED BY <2>5, <2>6, <2>7 DEF Base
<1>5. ASSUME NEW r \in Requests, Commit(r) \/ CloseFamily(r) PROVE Base'
  <2>1. UNCHANGED <<clock, call, local, before>> /\ orgs[r] = Null /\ pc[r] # "ok"
    BY <1>5, CommitTables, CloseTables
  <2>2. PICK step \in {"ok", "reused"} : /\ pc' = [pc EXCEPT ![r] = step]
                                         /\ step = "ok" => Commit(r)
                                         /\ step = "reused" => CloseFamily(r)
    BY <1>5, CommitTables, CloseTables
  <2>3. ASSUME NEW s \in Requests, pc'[s] # "ok"
        PROVE  orgs'[s] = Null /\ users'[s] = Null /\ tokens'[s] = Null
    <3>1. orgs[s] = Null /\ users[s] = Null /\ tokens[s] = Null
      <4>1. pc[s] # "ok" BY <1>1, <2>1, <2>2, <2>3
      <4> QED BY <4>1 DEF Base, DataOf
    <3>2. CASE Commit(r)
      <4>1. s # r BY <1>1, <2>3, <3>2, CommitTables
      <4>2. tokens'[s] = tokens[s]
        <5>1. Op(r) \in {"refresh", "logout"} => tokens[Target(r)] \in TokenRows
          BY <3>2, CommitTables
        <5>2. ~ (Op(r) \in {"refresh", "logout"} /\ s = Target(r))
          BY <3>1, <5>1, NullAssumption
        <5> QED BY <3>2, <4>1, <5>2, CommitTables
      <4>3. orgs'[s] = orgs[s] /\ users'[s] = users[s]
        BY <1>1, <3>2, <4>1, CommitTables DEF Base, TypeOK
      <4> QED BY <3>1, <4>2, <4>3
    <3>3. CASE CloseFamily(r)
      BY <3>1, <3>3, CloseTables DEF Live
    <3> QED BY <1>5, <3>2, <3>3
  <2>4. ControlOf(r)' /\ DataOf(r)'
    <3>1. ControlOf(r) /\ DataOf(r) BY DEF Base
    <3>2. pc'[r] = step BY <1>1, <2>2
    <3>3. CASE step = "ok"
      <4>1. /\ pc[r] = "commit" /\ call[r] \in CallType
            /\ Op(r) \in {"refresh", "logout"} =>
                 Target(r) \in Requests /\ tokens[Target(r)] \in TokenRows
        BY <2>2, <3>3, CommitTables
      <4>2. Op(r) \in {"refresh", "logout"} => tokens'[Target(r)] # Null
        BY <4>1, TablesGrow, NullAssumption
      <4> QED BY <2>1, <3>2, <3>3, <4>1, <4>2 DEF ControlOf, DataOf, PastFind, Op, Target
    <3>4. CASE step = "reused"
      <4>1. pc[r] = "lock" /\ call[r] \in CallType /\ Op(r) = "refresh"
        BY <2>2, <3>4, CloseTables
      <4>2. Target(r) \in Requests /\ tokens[Target(r)] # Null
        BY <3>1, <4>1 DEF DataOf, PastFind
      <4>3. tokens'[Target(r)] # Null BY <4>2, TablesGrow
      <4> QED BY <2>1, <2>3, <3>2, <3>4, <4>1, <4>2, <4>3 DEF ControlOf, DataOf, PastFind, Op, Target
    <3> QED BY <3>3, <3>4
  <2>5. ASSUME NEW s \in Requests, s # r PROVE ControlOf(s)' /\ DataOf(s)'
    <3>1. pc'[s] = pc[s] /\ call'[s] = call[s] /\ local'[s] = local[s]
      BY <1>1, <2>1, <2>2, <2>5
    <3> QED BY <2>3, <3>1, OthersStay
  <2>6. TypeOK'
    BY <1>1, <1>2, <2>1, <2>2 DEF TypeOK, Answers
  <2> QED BY <2>4, <2>5, <2>6 DEF Base
<1>6. CASE Tick
  <2>1. clock' \in Nat BY <1>1, <1>6 DEF Tick
  <2> QED BY <1>6, <2>1 DEF Tick, tables, Base, TypeOK, ControlOf, DataOf, Op, Target
<1>7. CASE UNCHANGED vars
  BY <1>7 DEF vars, Base, TypeOK, ControlOf, DataOf, Op, Target
<1> QED BY <1>3, <1>4, <1>5, <1>6, <1>7, NextCases

\* The tables hold rows of their declared columns and every handler is at one
\* of its statements, whoever registers, logs in, refreshes and logs out.
THEOREM AuthTypeCorrect == Spec => []TypeOK
<1>1. Base => TypeOK BY DEF Base
<1> QED BY <1>1, BaseInit, BaseNext, PTL DEF Spec

\* A step that is not a request's own leaves what belongs to it.
LEMMA StepOf ==
  ASSUME Base, [Next]_vars, NEW s \in Requests
  PROVE  \/ Arrive(s) \/ Moves(s) \/ Commit(s) \/ CloseFamily(s)
         \/ pc'[s] = pc[s] /\ call'[s] = call[s] /\ before'[s] = before[s] /\ local'[s] = local[s]
<1>1. TypeOK BY DEF Base
<1>2. ASSUME NEW r \in Requests, r # s, Arrive(r)
      PROVE  pc'[s] = pc[s] /\ call'[s] = call[s] /\ before'[s] = before[s] /\ local'[s] = local[s]
  BY <1>1, <1>2, ArriveFrame DEF Goto, TypeOK
<1>3. ASSUME NEW r \in Requests, r # s, Moves(r)
      PROVE  pc'[s] = pc[s] /\ call'[s] = call[s] /\ before'[s] = before[s] /\ local'[s] = local[s]
  <2>1. pc'[s] = pc[s] /\ call'[s] = call[s] /\ before'[s] = before[s]
    BY <1>1, <1>3, MoveFrame DEF TypeOK
  <2>2. local'[s] = local[s]
    BY <1>1, <1>3, MoveLocal DEF TypeOK, FindUser, ReadOwner
  <2> QED BY <2>1, <2>2
<1>4. ASSUME NEW r \in Requests, r # s, Commit(r) \/ CloseFamily(r)
      PROVE  pc'[s] = pc[s] /\ call'[s] = call[s] /\ before'[s] = before[s] /\ local'[s] = local[s]
  BY <1>1, <1>4, CommitTables, CloseTables DEF TypeOK
<1> QED BY <1>2, <1>3, <1>4, NextCases DEF Tick, vars, tables

-----------------------------------------------------------------------------
(***************************************************************************)
(* Organisations have administrators.  The founder of an organisation is   *)
(* the user its request inserts, and nobody else becomes an administrator. *)
(***************************************************************************)
FoundedInv ==
  /\ \A o \in Requests : orgs[o] # Null =>
       users[o] # Null /\ users[o].org = o /\ users[o].role = "admin"
  /\ \A u \in Requests : users[u] # Null =>
       /\ users[u].org \in Requests /\ orgs[users[u].org] # Null
       /\ users[u].role = "admin" => users[u].org = u

LEMMA FoundedNext == Base /\ FoundedInv /\ [Next]_vars => FoundedInv'
<1> SUFFICES ASSUME Base, FoundedInv, [Next]_vars PROVE FoundedInv'
  OBVIOUS
<1>1. CASE UNCHANGED <<orgs, users>> BY <1>1 DEF FoundedInv
<1>2. ASSUME NEW r \in Requests, Commit(r) PROVE FoundedInv'
  <2>1. CASE Op(r) \notin {"admin", "user"}
    BY <1>1, <1>2, <2>1, CommitTables
  <2>2. CASE Op(r) \in {"admin", "user"}
    <3>1. /\ users' = [users EXCEPT ![r] = NewUser(r)] /\ NewUser(r) \in UserRows
          /\ orgs[r] = Null /\ users[r] = Null
          /\ Op(r) = "admin" => /\ orgs' = [orgs EXCEPT ![r] = [slug |-> call[r].slug]]
                                /\ local[r].org = r
          /\ Op(r) = "user" => orgs' = orgs /\ orgs[local[r].org] # Null
      BY <1>2, <2>2, CommitTables
    <3>2. /\ orgs \in [Requests -> OrgRows \cup {Null}]
          /\ users \in [Requests -> UserRows \cup {Null}]
      BY DEF Base, TypeOK
    <3>3. NewUser(r) # Null BY <3>1, NullAssumption
    <3>4. /\ NewUser(r).org = local[r].org /\ NewUser(r).role = Op(r)
          /\ NewUser(r).org \in Requests
      BY <3>1 DEF NewUser, UserRows
    <3>5. Op(r) = "admin" => orgs'[r] # Null
      <4>1. Op(r) = "admin" => call[r].slug \in Slugs
        BY <1>2, CommitTables, CallFacts DEF Op, AccountOps
      <4>2. Op(r) = "admin" => [slug |-> call[r].slug] \in OrgRows BY <4>1 DEF OrgRows
      <4> QED BY <3>1, <3>2, <4>2, NullAssumption
    <3>6. \A o \in Requests : orgs[o] # Null => orgs'[o] # Null
      BY TablesGrow
    <3>7. ASSUME NEW o \in Requests, orgs'[o] # Null
          PROVE  users'[o] # Null /\ users'[o].org = o /\ users'[o].role = "admin"
      <4>1. CASE orgs[o] # Null
        BY <3>1, <3>2, <4>1 DEF FoundedInv
      <4>2. CASE orgs[o] = Null
        <5>1. Op(r) = "admin" /\ o = r BY <2>2, <3>1, <3>2, <3>7, <4>2
        <5> QED BY <3>1, <3>2, <3>3, <3>4, <5>1
      <4> QED BY <4>1, <4>2
    <3>8. ASSUME NEW u \in Requests, users'[u] # Null
          PROVE  /\ users'[u].org \in Requests /\ orgs'[users'[u].org] # Null
                 /\ users'[u].role = "admin" => users'[u].org = u
      <4>1. CASE u # r
        BY <3>1, <3>2, <3>6, <3>8, <4>1 DEF FoundedInv
      <4>2. CASE u = r
        BY <2>2, <3>1, <3>2, <3>4, <3>5, <4>2
      <4> QED BY <4>1, <4>2
    <3> QED BY <3>7, <3>8 DEF FoundedInv
  <2> QED BY <2>1, <2>2
<1>3. ASSUME NEW r \in Requests, Arrive(r) \/ Moves(r) \/ CloseFamily(r)
      PROVE  UNCHANGED <<orgs, users>>
  BY <1>3, ArriveFrame, MoveFrame, CloseTables
<1>4. CASE Tick BY <1>1, <1>4 DEF Tick, tables
<1>5. CASE UNCHANGED vars BY <1>1, <1>5 DEF vars
<1> QED BY <1>1, <1>2, <1>3, <1>4, <1>5, NextCases

LEMMA FoundedIsWithAdmin == FoundedInv => FoundedWithAdmin
BY DEF FoundedInv, FoundedWithAdmin

\* register_admin is all or nothing, wherever it fails: every organisation has
\* one administrator, its founder, and every user an organisation.
THEOREM OrganisationsHaveAdmins == Spec => []FoundedWithAdmin
<1>1. Init => FoundedInv BY DEF Init, FoundedInv
<1> QED BY <1>1, BaseInit, BaseNext, FoundedNext, FoundedIsWithAdmin, PTL DEF Spec

LEMMA FoundedInvariance == Spec => [](Base /\ FoundedInv)
<1>1. Init => FoundedInv BY DEF Init, FoundedInv
<1> QED BY <1>1, BaseInit, BaseNext, FoundedNext, PTL DEF Spec

\* Until its commit only the founder knows the organisation: the second insert
\* of register_admin neither waits nor is refused, and its "email already
\* registered" is never said.
FoundersAreAlone ==
  \A r \in Requests : pc[r] = "user" /\ Op(r) = "admin" =>
    ~ EmailTaken(r) /\ \A s \in Requests : ~ UserWaitsFor(r, s)

LEMMA Alone == Base /\ FoundedInv => FoundersAreAlone
<1> SUFFICES ASSUME Base, FoundedInv, NEW r \in Requests, pc[r] = "user", Op(r) = "admin"
             PROVE  ~ EmailTaken(r) /\ \A s \in Requests : ~ UserWaitsFor(r, s)
  BY DEF FoundersAreAlone
<1>1. local[r].org = r /\ orgs[r] = Null
  BY DEF Base, DataOf
<1>2. ~ EmailTaken(r)
  BY <1>1 DEF FoundedInv, EmailTaken
<1>3. ASSUME NEW s \in Requests, UserWaitsFor(r, s) PROVE FALSE
  <2>1. s # r /\ pc[s] = "commit" /\ Op(s) \in {"admin", "user"} /\ local[s].org = r
    BY <1>1, <1>3 DEF UserWaitsFor, InsertedUser
  <2>2. CASE Op(s) = "admin" BY <2>1, <2>2 DEF Base, DataOf
  <2>3. CASE Op(s) = "user" BY <1>1, <2>1, <2>3 DEF Base, DataOf
  <2> QED BY <2>1, <2>2, <2>3
<1> QED BY <1>2, <1>3

THEOREM FoundersMeetNobody == Spec => []FoundersAreAlone
BY FoundedInvariance, Alone, PTL

-----------------------------------------------------------------------------
(***************************************************************************)
(* Names are unique.  Whoever has inserted a name and not committed is the *)
(* only one running who has, and no committed row holds it.                *)
(***************************************************************************)
SlugsHeld ==
  \A r \in Requests : InsertedOrg(r) =>
    /\ ~ SlugTaken(r)
    /\ \A s \in Requests : InsertedOrg(s) /\ call[s].slug = call[r].slug => s = r

EmailsHeld ==
  \A r \in Requests : InsertedUser(r) =>
    /\ ~ EmailTaken(r)
    /\ \A s \in Requests :
         InsertedUser(s) /\ local[s].org = local[r].org /\ EmailFor(s) = EmailFor(r) => s = r

Lowered == \A u \in Requests : users[u] # Null => Lower[users[u].email] = users[u].email

NamesInv == SlugsHeld /\ EmailsHeld /\ Lowered /\ NamesAreUnique

LEMMA NamesStay ==
  ASSUME Base, NamesInv, UNCHANGED <<orgs, users>>,
         \A s \in Requests : /\ InsertedOrg(s)' => InsertedOrg(s)
                             /\ InsertedUser(s)' => InsertedUser(s)
                             /\ InsertedOrg(s)' \/ InsertedUser(s)' =>
                                  call'[s] = call[s] /\ local'[s] = local[s]
  PROVE  NamesInv'
<1>1. SlugsHeld' BY DEF NamesInv, SlugsHeld, SlugTaken
<1>2. EmailsHeld' BY DEF NamesInv, EmailsHeld, EmailTaken, EmailFor
<1>3. Lowered' /\ NamesAreUnique' BY DEF NamesInv, Lowered, NamesAreUnique
<1> QED BY <1>1, <1>2, <1>3 DEF NamesInv

LEMMA NamesMove ==
  ASSUME Base, NamesInv, NEW r \in Requests, Moves(r)
  PROVE  NamesInv'
<1>1. /\ UNCHANGED <<orgs, users, call>> /\ pc[r] \in Steps
  BY MoveFrame
<1>2. PICK step \in Steps \cup Answers : pc' = [pc EXCEPT ![r] = step]
  BY MoveFrame
<1>3. TypeOK /\ ControlOf(r) BY DEF Base
<1>4. ASSUME NEW s \in Requests, s # r
      PROVE  pc'[s] = pc[s] /\ local'[s] = local[s]
  <2>1. pc'[s] = pc[s] BY <1>2, <1>3, <1>4 DEF TypeOK
  <2>2. local'[s] = local[s]
    BY <1>3, <1>4, MoveLocal DEF TypeOK, FindUser, ReadOwner
  <2> QED BY <2>1, <2>2
<1>5. pc'[r] = step BY <1>2, <1>3 DEF TypeOK
<1>6. CASE FlushOrg(r)
  <2>1. /\ pc[r] = "org" /\ Op(r) = "admin" /\ \A s \in Requests : ~ OrgWaitsFor(r, s)
        /\ step = IF SlugTaken(r) THEN "conflict" ELSE "user"
    BY <1>3, <1>5, <1>6 DEF FlushOrg, Goto, ControlOf, TypeOK
  <2>2. SlugsHeld'
    <3> SUFFICES ASSUME NEW a \in Requests, InsertedOrg(a)'
                 PROVE  /\ ~ SlugTaken(a)'
                        /\ \A b \in Requests : InsertedOrg(b)' /\ call[b].slug = call[a].slug => b = a
      BY <1>1 DEF SlugsHeld
    <3>1. /\ \A b \in Requests \ {r} : InsertedOrg(b)' => InsertedOrg(b)
          /\ InsertedOrg(r)' => ~ SlugTaken(r)
      BY <1>1, <1>4, <1>5, <2>1 DEF InsertedOrg, Op
    <3>2. SlugTaken(a)' <=> SlugTaken(a) BY <1>1 DEF SlugTaken
    <3> QED BY <2>1, <3>1, <3>2 DEF NamesInv, SlugsHeld, OrgWaitsFor
  <2>3. EmailsHeld'
    <3>1. \A s \in Requests : InsertedUser(s)' => s # r /\ InsertedUser(s)
      BY <1>1, <1>4, <1>5, <2>1 DEF InsertedUser, Op
    <3> QED BY <1>1, <1>4, <3>1 DEF NamesInv, EmailsHeld, EmailTaken, EmailFor
  <2>4. Lowered' /\ NamesAreUnique' BY <1>1 DEF NamesInv, Lowered, NamesAreUnique
  <2> QED BY <2>2, <2>3, <2>4 DEF NamesInv
<1>7. CASE FlushUser(r)
  <2>1. /\ pc[r] = "user" /\ \A s \in Requests : ~ UserWaitsFor(r, s)
        /\ step = IF EmailTaken(r) THEN "conflict" ELSE "commit"
        /\ local' = local
    BY <1>3, <1>5, <1>7 DEF FlushUser, Goto, TypeOK
  <2>2. SlugsHeld'
    <3>1. \A s \in Requests : InsertedOrg(s)' => InsertedOrg(s)
      BY <1>1, <1>4, <1>5, <2>1 DEF InsertedOrg, Op
    <3> QED BY <1>1, <3>1 DEF NamesInv, SlugsHeld, SlugTaken
  <2>3. EmailsHeld'
    <3> SUFFICES ASSUME NEW a \in Requests, InsertedUser(a)'
                 PROVE  /\ ~ EmailTaken(a)'
                        /\ \A b \in Requests :
                             InsertedUser(b)' /\ local[b].org = local[a].org
                             /\ EmailFor(b) = EmailFor(a) => b = a
      BY <1>1, <2>1 DEF EmailsHeld, EmailFor
    <3>1. /\ \A b \in Requests \ {r} : InsertedUser(b)' => InsertedUser(b)
          /\ InsertedUser(r)' => ~ EmailTaken(r)
      BY <1>1, <1>4, <1>5, <2>1 DEF InsertedUser, Op
    <3>2. EmailTaken(a)' <=> EmailTaken(a) BY <1>1, <2>1 DEF EmailTaken, EmailFor
    <3> QED BY <2>1, <3>1, <3>2 DEF NamesInv, EmailsHeld, UserWaitsFor
  <2>4. Lowered' /\ NamesAreUnique' BY <1>1 DEF NamesInv, Lowered, NamesAreUnique
  <2> QED BY <2>2, <2>3, <2>4 DEF NamesInv
<1>8. CASE ~ FlushOrg(r) /\ ~ FlushUser(r)
  <2>1. ~ InsertedOrg(r)' /\ ~ InsertedUser(r)'
    <3>1. CASE Op(r) \notin {"admin", "user"}
      BY <1>1, <3>1 DEF InsertedOrg, InsertedUser, Op
    <3>2. CASE Op(r) \in {"admin", "user"}
      <4>1. FindOrg(r) \/ Fail(r) \/ DeadlockVictim(r)
        BY <1>3, <1>8, <3>2 DEF Moves, FindUser, FindToken, ReadOwner, InsertToken,
           UpdateToken, Scan, LockRow, ReadMe, ControlOf
      <4>2. CASE FindOrg(r)
        <5>1. Op(r) = "user" /\ step # "commit"
          BY <1>3, <1>5, <4>2 DEF FindOrg, Goto, TypeOK
        <5> QED BY <1>1, <1>5, <5>1 DEF InsertedOrg, InsertedUser, Op
      <4>3. CASE Fail(r) \/ DeadlockVictim(r)
        BY <1>3, <1>5, <4>3, VictimWaits DEF Fail, Goto, TypeOK, InsertedOrg, InsertedUser
      <4> QED BY <4>1, <4>2, <4>3
    <3> QED BY <3>1, <3>2
  <2>2. \A s \in Requests \ {r} : /\ InsertedOrg(s)' => InsertedOrg(s)
                                  /\ InsertedUser(s)' => InsertedUser(s)
                                  /\ call'[s] = call[s] /\ local'[s] = local[s]
    BY <1>1, <1>4 DEF InsertedOrg, InsertedUser, Op
  <2> QED BY <1>1, <2>1, <2>2, NamesStay
<1> QED BY <1>6, <1>7, <1>8

LEMMA NamesCommit ==
  ASSUME Base, NamesInv, NEW r \in Requests, Commit(r)
  PROVE  NamesInv'
<1>1. /\ pc[r] = "commit" /\ pc' = [pc EXCEPT ![r] = "ok"]
      /\ UNCHANGED <<call, local>> /\ orgs[r] = Null /\ users[r] = Null
      /\ call[r] \in CallType
  BY CommitTables
<1>2. TypeOK BY DEF Base
<1>3. /\ ~ InsertedOrg(r)' /\ ~ InsertedUser(r)'
      /\ \A s \in Requests : /\ InsertedOrg(s)' => InsertedOrg(s) /\ s # r
                             /\ InsertedUser(s)' => InsertedUser(s) /\ s # r
  BY <1>1, <1>2 DEF InsertedOrg, InsertedUser, Op, TypeOK
<1>4. /\ Op(r) = "admin" => InsertedOrg(r)
      /\ Op(r) \in {"admin", "user"} => InsertedUser(r)
  BY <1>1 DEF InsertedOrg, InsertedUser
<1>5. ASSUME NEW o \in Requests
      PROVE  \/ orgs'[o] = orgs[o]
             \/ o = r /\ Op(r) = "admin" /\ orgs'[o].slug = call[r].slug
  BY <1>2, CommitTables DEF TypeOK
<1>6. ASSUME NEW u \in Requests
      PROVE  \/ users'[u] = users[u]
             \/ /\ u = r /\ Op(r) \in {"admin", "user"} /\ users'[u].org = local[r].org
                /\ users'[u].email = EmailFor(r)
  <2>1. CASE Op(r) \notin {"admin", "user"} BY <2>1, CommitTables
  <2>2. CASE Op(r) \in {"admin", "user"}
    <3>1. users' = [users EXCEPT ![r] = NewUser(r)] BY <2>2, CommitTables
    <3>2. NewUser(r).org = local[r].org /\ NewUser(r).email = EmailFor(r) BY DEF NewUser
    <3> QED BY <1>2, <2>2, <3>1, <3>2 DEF TypeOK
  <2> QED BY <2>1, <2>2
<1>7. SlugsHeld'
  <2> SUFFICES ASSUME NEW a \in Requests, InsertedOrg(a)'
               PROVE  /\ ~ SlugTaken(a)'
                      /\ \A b \in Requests : InsertedOrg(b)' /\ call[b].slug = call[a].slug => b = a
    BY <1>1 DEF SlugsHeld
  <2>1. InsertedOrg(a) /\ a # r BY <1>3
  <2>2. ASSUME NEW o \in Requests, orgs'[o] # Null, orgs'[o].slug = call[a].slug PROVE FALSE
    <3>1. CASE orgs'[o] = orgs[o]
      BY <2>1, <2>2, <3>1 DEF NamesInv, SlugsHeld, SlugTaken
    <3>2. CASE Op(r) = "admin" /\ orgs'[o].slug = call[r].slug
      BY <1>4, <2>1, <2>2, <3>2 DEF NamesInv, SlugsHeld
    <3> QED BY <1>5, <3>1, <3>2
  <2>3. ~ SlugTaken(a)' BY <1>1, <2>2 DEF SlugTaken
  <2> QED BY <1>3, <2>1, <2>3 DEF NamesInv, SlugsHeld
<1>8. EmailsHeld'
  <2> SUFFICES ASSUME NEW a \in Requests, InsertedUser(a)'
               PROVE  /\ ~ EmailTaken(a)'
                      /\ \A b \in Requests :
                           InsertedUser(b)' /\ local[b].org = local[a].org
                           /\ EmailFor(b) = EmailFor(a) => b = a
    BY <1>1 DEF EmailsHeld, EmailFor
  <2>1. InsertedUser(a) /\ a # r BY <1>3
  <2>2. ASSUME NEW u \in Requests, users'[u] # Null, users'[u].org = local[a].org,
               users'[u].email = EmailFor(a)
        PROVE  FALSE
    <3>1. CASE users'[u] = users[u]
      BY <2>1, <2>2, <3>1 DEF NamesInv, EmailsHeld, EmailTaken
    <3>2. CASE /\ Op(r) \in {"admin", "user"} /\ users'[u].org = local[r].org
               /\ users'[u].email = EmailFor(r)
      BY <1>4, <2>1, <2>2, <3>2 DEF NamesInv, EmailsHeld
    <3> QED BY <1>6, <3>1, <3>2
  <2>3. ~ EmailTaken(a)' BY <1>1, <2>2 DEF EmailTaken, EmailFor
  <2> QED BY <1>3, <2>1, <2>3 DEF NamesInv, EmailsHeld
<1>9. Lowered'
  <2>1. Op(r) \in {"admin", "user"} => Lower[EmailFor(r)] = EmailFor(r)
    BY <1>1, CallFacts, AuthAssumption DEF EmailFor, Op, AccountOps
  <2> QED BY <1>6, <2>1 DEF NamesInv, Lowered
<1>10. NamesAreUnique'
  <2>1. ASSUME NEW o \in Requests, NEW p \in Requests, orgs'[o] # Null, orgs'[p] # Null,
               orgs'[o].slug = orgs'[p].slug
        PROVE  o = p
    BY <1>4, <1>5, <2>1 DEF NamesInv, NamesAreUnique, SlugsHeld, SlugTaken
  <2>2. ASSUME NEW u \in Requests, NEW v \in Requests, users'[u] # Null, users'[v] # Null,
               users'[u].org = users'[v].org, Lower[users'[u].email] = Lower[users'[v].email]
        PROVE  u = v
    <3>1. users'[u].email = users'[v].email BY <1>9, <2>2 DEF Lowered
    <3> QED BY <1>4, <1>6, <2>2, <3>1 DEF NamesInv, NamesAreUnique, EmailsHeld, EmailTaken
  <2> QED BY <2>1, <2>2 DEF NamesAreUnique
<1> QED BY <1>7, <1>8, <1>9, <1>10 DEF NamesInv

LEMMA NamesNext == Base /\ NamesInv /\ [Next]_vars => NamesInv'
<1> SUFFICES ASSUME Base, NamesInv, [Next]_vars PROVE NamesInv'
  OBVIOUS
<1>1. TypeOK BY DEF Base
<1>2. ASSUME NEW r \in Requests, Arrive(r) PROVE NamesInv'
  <2>1. \A s \in Requests : /\ InsertedOrg(s)' => InsertedOrg(s)
                            /\ InsertedUser(s)' => InsertedUser(s)
                            /\ InsertedOrg(s)' \/ InsertedUser(s)' =>
                                 call'[s] = call[s] /\ local'[s] = local[s]
    BY <1>1, <1>2, ArriveFrame DEF InsertedOrg, InsertedUser, Op, Goto, TypeOK
  <2> QED BY <1>2, <2>1, ArriveFrame, NamesStay
<1>3. ASSUME NEW r \in Requests, CloseFamily(r) PROVE NamesInv'
  <2>1. \A s \in Requests : /\ InsertedOrg(s)' => InsertedOrg(s)
                            /\ InsertedUser(s)' => InsertedUser(s)
    BY <1>1, <1>3, CloseTables DEF InsertedOrg, InsertedUser, Op, TypeOK
  <2> QED BY <1>3, <2>1, CloseTables, NamesStay
<1>4. CASE Tick
  BY <1>4, NamesStay DEF Tick, tables, InsertedOrg, InsertedUser, Op
<1>5. CASE UNCHANGED vars
  BY <1>5, NamesStay DEF vars, InsertedOrg, InsertedUser, Op
<1> QED BY <1>2, <1>3, <1>4, <1>5, NextCases, NamesMove, NamesCommit

\* However registrations race and fail, a slug names one organisation, and an
\* e-mail address in any spelling one user of it.
THEOREM NamesStayUnique == Spec => []NamesAreUnique
<1>1. Init => NamesInv
  BY DEF Init, NamesInv, SlugsHeld, EmailsHeld, Lowered, NamesAreUnique, InsertedOrg, InsertedUser
<1>2. NamesInv => NamesAreUnique BY DEF NamesInv
<1> QED BY <1>1, <1>2, BaseInit, BaseNext, NamesNext, PTL DEF Spec

-----------------------------------------------------------------------------
(***************************************************************************)
(* What a request is told is so.                                           *)
(***************************************************************************)
\* A refusal stays what it was when it was given: a founder meets its rival's
\* slug and nobody else's address, and no organisation or user ever goes.
THEOREM RefusedForGood == Spec => []RefusalsStand
<1>1. Base /\ FoundedInv /\ RefusalsStand /\ [Next]_vars => RefusalsStand'
  <2> SUFFICES ASSUME Base, FoundedInv, RefusalsStand, [Next]_vars,
                      NEW r \in Requests, pc'[r] = "conflict"
               PROVE  IF Op(r)' = "admin" THEN SlugTaken(r)' ELSE EmailTaken(r)'
    BY DEF RefusalsStand
  <2>1. TypeOK /\ ControlOf(r) BY DEF Base
  <2>2. /\ \A o \in Requests : orgs[o] # Null => orgs'[o] = orgs[o]
        /\ \A u \in Requests : users[u] # Null => users'[u] = users[u]
    BY TablesGrow
  <2>3. CASE pc[r] = "conflict"
    <3>1. IF Op(r) = "admin" THEN SlugTaken(r) ELSE EmailTaken(r)
      BY <2>3 DEF RefusalsStand
    <3>2. call'[r] = call[r] /\ local'[r] = local[r]
      BY <2>3, StepOf, ArriveFrame, MoveFrame, CommitTables, CloseTables DEF Steps
    <3> QED BY <2>2, <3>1, <3>2 DEF SlugTaken, EmailTaken, EmailFor, Op
  <2>4. CASE FlushOrg(r)
    BY <2>1, <2>4 DEF FlushOrg, Goto, TypeOK, tables, ControlOf, SlugTaken, Op
  <2>5. CASE FlushUser(r)
    <3>1. pc[r] = "user" /\ EmailTaken(r) /\ UNCHANGED <<users, call, local>>
      BY <2>1, <2>5 DEF FlushUser, Goto, TypeOK, tables
    <3>2. Op(r) # "admin" BY <3>1, Alone DEF FoundersAreAlone
    <3> QED BY <3>1, <3>2 DEF EmailTaken, EmailFor, Op
  <2>6. pc[r] = "conflict" \/ FlushOrg(r) \/ FlushUser(r)
    <3>1. ~ Arrive(r) /\ ~ Commit(r) /\ ~ CloseFamily(r)
      BY <2>1, ArriveFrame, CommitTables, CloseTables DEF Goto, TypeOK
    <3>2. ~ FindToken(r) BY <2>1, AfterFindCases DEF Goto, TypeOK
    <3>3. ~ Moves(r) \/ FlushOrg(r) \/ FlushUser(r)
      BY <2>1, <3>2, VictimWaits DEF Moves, FindOrg, FindUser, ReadOwner, InsertToken,
         UpdateToken, Scan, LockRow, ReadMe, Fail, Goto, TypeOK
    <3> QED BY <3>1, <3>3, StepOf
  <2> QED BY <2>3, <2>4, <2>5, <2>6
<1>2. Init => RefusalsStand BY DEF Init, RefusalsStand
<1> QED BY <1>1, <1>2, FoundedInvariance, PTL DEF Spec

-----------------------------------------------------------------------------
(***************************************************************************)
(* Sessions.  A token that is not live never is again, and a request whose *)
(* answer is given writes no more: so what a request found live when it    *)
(* looked was ended by nobody who had been answered before it arrived.     *)
(***************************************************************************)
LEMMA AnsweredStays ==
  ASSUME Base, [Next]_vars, NEW s \in Requests, pc[s] \in Answers
  PROVE  pc'[s] = pc[s] /\ call'[s] = call[s] /\ before'[s] = before[s]
BY StepOf, ArriveFrame, MoveFrame, CommitTables, CloseTables DEF Answers, Steps

LEMMA CallStays ==
  ASSUME Base, [Next]_vars, NEW s \in Requests, pc[s] # "idle"
  PROVE  call'[s] = call[s] /\ before'[s] = before[s] /\ pc'[s] # "idle"
<1>1. ~ Arrive(s) BY ArriveFrame
<1>2. CASE Moves(s)
  BY <1>2, MoveFrame DEF Base, TypeOK, Steps, Answers
<1>3. CASE Commit(s) \/ CloseFamily(s)
  BY <1>3, CommitTables, CloseTables DEF Base, TypeOK
<1> QED BY <1>1, <1>2, <1>3, StepOf

LEMMA DeadStays ==
  ASSUME Base, [Next]_vars, NEW t \in Requests, tokens[t] # Null, ~ Live(t)
  PROVE  ~ Live(t)'
<1>1. tokens[t].revoked => tokens'[t].revoked BY TablesGrow
<1> QED BY <1>1 DEF Live

LEMMA TokenFixed ==
  ASSUME Base, [Next]_vars, NEW t \in Requests, pc[t] # "commit"
  PROVE  /\ tokens'[t] # Null <=> tokens[t] # Null
         /\ tokens[t] # Null => tokens'[t].family = tokens[t].family
         /\ Live(t)' => Live(t)
<1>1. /\ tokens'[t] # Null <=> tokens[t] # Null
      /\ tokens[t] # Null => tokens'[t].family = tokens[t].family
  BY TablesGrow
<1> QED BY <1>1, DeadStays DEF Live

Renewing(r) == Op(r) = "refresh" /\ pc[r] \in {"owner", "rotate", "commit", "ok"}
Renewed(r) == Op(r) = "refresh" /\ pc[r] = "ok"

SeniorsInv ==
  \A r, s \in Requests :
    s \in before[r] => pc[r] # "idle" /\ pc[s] \in Answers /\ Op(s) \in SessionOps

\* The UPDATE of a family has all its live tokens of the requests before it,
\* and no other.
FamilyInv ==
  \A e \in Requests : pc[e] = "lock" =>
    /\ \A t \in before[e] :
         Live(t) /\ tokens[t].family = tokens[Target(e)].family => t \in local[e].seen
    /\ \A t \in local[e].seen :
         tokens[t] # Null /\ tokens[t].family = tokens[Target(e)].family

EndInv == \A e \in Requests : \A t \in Ended(e) : ~ Live(t)

\* A token that has been renewed is no longer live, and its heir is a token of
\* the same family.
RenewedInv ==
  \A a \in Requests : Renewed(a) =>
    /\ tokens[a] # Null
    /\ Target(a) \in Requests /\ tokens[Target(a)] # Null
    /\ tokens[a].family = tokens[Target(a)].family
    /\ ~ Live(Target(a))

LaterInv ==
  \A r, e \in Requests : Renewing(r) /\ e \in before[r] =>
    /\ Target(r) \notin Ended(e)
    /\ Renewed(e) => Target(e) # Target(r)

SessionInv == SeniorsInv /\ FamilyInv /\ EndInv /\ RenewedInv /\ LaterInv

LEMMA SeniorsNext ==
  ASSUME Base, SeniorsInv, [Next]_vars
  PROVE  SeniorsInv'
<1> SUFFICES ASSUME NEW r \in Requests, NEW s \in Requests, s \in before'[r]
             PROVE  pc'[r] # "idle" /\ pc'[s] \in Answers /\ Op(s)' \in SessionOps
  BY DEF SeniorsInv
<1>1. /\ pc'[r] # "idle"
      /\ pc[s] \in Answers /\ Op(s) \in SessionOps
  <2>1. CASE Arrive(r)
    <3>1. s \in {q \in Requests : pc[q] \in Answers /\ Op(q) \in SessionOps}
      BY <2>1, ArriveFrame DEF Base, TypeOK
    <3>2. pc'[r] # "idle" BY <2>1, ArriveFrame DEF Base, TypeOK, Goto
    <3> QED BY <3>1, <3>2
  <2>2. CASE ~ Arrive(r)
    <3>1. before'[r] = before[r]
      BY <2>2, StepOf, MoveFrame, CommitTables, CloseTables
    <3> QED BY <3>1, CallStays DEF SeniorsInv
  <2> QED BY <2>1, <2>2
<1> QED BY <1>1, AnsweredStays DEF Op

LEMMA FamilyNext ==
  ASSUME Base, SeniorsInv, FamilyInv, [Next]_vars
  PROVE  FamilyInv'
<1> SUFFICES ASSUME NEW e \in Requests, pc'[e] = "lock"
             PROVE  /\ \A t \in before'[e] : Live(t)' /\ tokens'[t].family = tokens'[Target(e)'].family
                         => t \in local'[e].seen
                    /\ \A t \in local'[e].seen :
                         tokens'[t] # Null /\ tokens'[t].family = tokens'[Target(e)'].family
  BY DEF FamilyInv
<1>1. TypeOK /\ DataOf(e) /\ ControlOf(e) BY DEF Base
<1>2. /\ \A t \in before[e] :
           Live(t) /\ tokens[t].family = tokens[Target(e)].family => t \in local'[e].seen
      /\ \A t \in local'[e].seen :
           t \in Requests /\ tokens[t] # Null /\ tokens[t].family = tokens[Target(e)].family
      /\ pc[e] \in {"scan", "lock"}
  <2>1. ~ Arrive(e) /\ ~ Commit(e) /\ ~ CloseFamily(e)
    BY <1>1, ArriveFrame, CommitTables, CloseTables DEF TypeOK, Goto
  <2>2. CASE Moves(e)
    <3>1. Scan(e) \/ LockRow(e)
      <4>1. ~ FindToken(e)
        BY <1>1, AfterFindCases DEF TypeOK, Goto
      <4> QED BY <1>1, <2>2, <4>1, VictimWaits DEF Moves, FlushOrg, FindOrg, FlushUser,
         FindUser, ReadOwner,
                InsertToken, UpdateToken, ReadMe, Fail, Goto, TypeOK
    <3>2. CASE Scan(e)
      <4>1. local'[e].seen =
              {t \in Requests : Live(t) /\ tokens[t].family = tokens[Target(e)].family}
        BY <1>1, <3>2 DEF Scan, TypeOK
      <4>2. pc[e] = "scan" /\ before[e] \subseteq Requests BY <1>1, <3>2 DEF Scan, TypeOK
      <4> QED BY <4>1, <4>2 DEF Live
    <3>3. CASE LockRow(e)
      <4>1. pc[e] = "lock" /\ local'[e].seen = local[e].seen /\ local[e].seen \subseteq Requests
        BY <1>1, <3>3 DEF LockRow, TypeOK, Memory
      <4> QED BY <4>1 DEF FamilyInv
    <3> QED BY <3>1, <3>2, <3>3
  <2>3. CASE pc'[e] = pc[e] /\ local'[e] = local[e]
    BY <1>1, <2>3 DEF FamilyInv, TypeOK, Memory
  <2> QED BY <2>1, <2>2, <2>3, StepOf
<1>3. Target(e)' = Target(e) /\ before'[e] = before[e]
  BY <1>2, CallStays DEF Target
<1>4. Target(e) \in Requests /\ tokens[Target(e)] # Null
  BY <1>1, <1>2, CallFacts DEF DataOf, ControlOf, PastFind
<1>5. tokens'[Target(e)].family = tokens[Target(e)].family
  BY <1>4, TablesGrow
<1>6. ASSUME NEW t \in before[e], Live(t)', tokens'[t].family = tokens[Target(e)].family
      PROVE  t \in local'[e].seen
  <2>1. t \in Requests /\ pc[t] # "commit"
    BY <1>1 DEF SeniorsInv, Answers, TypeOK
  <2>2. Live(t) BY <1>6, <2>1, TokenFixed
  <2>3. tokens'[t].family = tokens[t].family BY <2>1, <2>2, TokenFixed DEF Live
  <2> QED BY <1>2, <1>6, <2>2, <2>3
<1>7. ASSUME NEW t \in local'[e].seen
      PROVE  tokens'[t] # Null /\ tokens'[t].family = tokens[Target(e)].family
  <2>1. t \in Requests /\ tokens[t] # Null /\ tokens[t].family = tokens[Target(e)].family
    BY <1>2
  <2> QED BY <2>1, TablesGrow
<1> QED BY <1>3, <1>5, <1>6, <1>7

\* What a request has ended is settled with its answer.
LEMMA EndedFacts ==
  ASSUME Base, NEW e \in Requests, NEW t \in Ended(e)
  PROVE  t \in Requests /\ tokens[t] # Null /\ pc[e] \in Answers
<1>1. TypeOK /\ ControlOf(e) /\ DataOf(e) BY DEF Base
<1>2. CASE pc[e] = "ok" /\ Op(e) = "logout"
  <2>1. t = Target(e) /\ Target(e) # Null BY <1>2 DEF Ended
  <2> QED BY <1>1, <1>2, <2>1 DEF DataOf, Answers
<1>3. CASE pc[e] = "reused"
  BY <1>1, <1>3 DEF Ended, TypeOK, Answers
<1> QED BY <1>2, <1>3 DEF Ended

LEMMA EndedStays ==
  ASSUME Base, SeniorsInv, [Next]_vars, NEW e \in Requests, pc[e] \in Answers
  PROVE  Ended(e)' = Ended(e)
<1>1. pc'[e] = pc[e] /\ call'[e] = call[e] /\ before'[e] = before[e]
  BY AnsweredStays
<1>2. CASE pc[e] = "reused"
  <2>1. Target(e) \in Requests /\ tokens[Target(e)] # Null
    BY <1>2 DEF Base, ControlOf, DataOf, PastFind
  <2>2. tokens'[Target(e)].family = tokens[Target(e)].family BY <2>1, TablesGrow
  <2>3. ASSUME NEW t \in before[e]
        PROVE  /\ tokens'[t] # Null <=> tokens[t] # Null
               /\ tokens[t] # Null => tokens'[t].family = tokens[t].family
    <3>1. t \in Requests /\ pc[t] # "commit" BY DEF SeniorsInv, Answers, Base, TypeOK
    <3> QED BY <3>1, TokenFixed
  <2>4. {t \in before[e] : tokens'[t] # Null /\ tokens'[t].family = tokens'[Target(e)].family}
        = {t \in before[e] : tokens[t] # Null /\ tokens[t].family = tokens[Target(e)].family}
    BY <2>2, <2>3
  <2> QED BY <1>1, <1>2, <2>4 DEF Ended, Target
<1>3. CASE pc[e] # "reused"
  BY <1>1, <1>3 DEF Ended, Op, Target
<1> QED BY <1>2, <1>3

LEMMA EndNext ==
  ASSUME Base, SeniorsInv, FamilyInv, EndInv, [Next]_vars
  PROVE  EndInv'
<1> SUFFICES ASSUME NEW e \in Requests, NEW t \in Ended(e)'
             PROVE  ~ Live(t)'
  BY DEF EndInv
<1>1. TypeOK /\ DataOf(e) /\ ControlOf(e) BY DEF Base
<1>2. CASE t \in Ended(e)
  BY <1>2, EndedFacts, DeadStays DEF EndInv
<1>3. CASE pc[e] \in Answers
  BY <1>2, <1>3, EndedStays
<1>4. CASE Arrive(e)
  BY <1>1, <1>4, ArriveFrame DEF Ended, Goto, TypeOK
<1>5. CASE Moves(e)
  <2>1. pc'[e] # "reused"
    <3>1. ~ FindToken(e) \/ pc'[e] # "reused"
      BY <1>1, AfterFindCases DEF Goto, TypeOK
    <3> QED BY <1>1, <1>5, <3>1, VictimWaits DEF Moves, FlushOrg, FindOrg, FlushUser,
       FindUser, ReadOwner,
              InsertToken, UpdateToken, Scan, LockRow, ReadMe, Fail, Goto, TypeOK
  <2>2. pc'[e] = "ok" /\ Op(e)' = "logout" /\ t = Target(e)' /\ t # Null
    BY <2>1 DEF Ended
  <2>3. call'[e] = call[e] /\ UNCHANGED tokens BY <1>5, MoveFrame
  <2>4. FindToken(e)
    <3>1. ~ ReadMe(e) BY <1>1, <2>2, <2>3 DEF ReadMe, ControlOf, Op
    <3> QED BY <1>1, <1>5, <2>2, <3>1, VictimWaits DEF Moves, FlushOrg, FindOrg, FlushUser,
       FindUser,
              ReadOwner, InsertToken, UpdateToken, Scan, LockRow, Fail, Goto, TypeOK
  <2>5. t = Target(e) BY <2>2, <2>3 DEF Target
  <2>6. ~ Live(t)
    BY <1>1, <2>2, <2>4, <2>5, AfterFindCases DEF Goto, TypeOK
  <2> QED BY <2>3, <2>6 DEF Live
<1>6. CASE Commit(e)
  <2>1. pc'[e] = "ok" /\ call'[e] = call[e] BY <1>1, <1>6, CommitTables DEF TypeOK
  <2>2. Op(e) = "logout" /\ t = Target(e) BY <2>1 DEF Ended, Op, Target
  <2>3. t \in Requests /\ tokens[t] \in TokenRows BY <1>6, <2>2, CommitTables
  <2>4. tokens'[t] = Revoked(t) BY <1>6, <2>2, <2>3, CommitTables
  <2>5. Revoked(t).revoked BY <2>3, RevokedFacts
  <2> QED BY <2>4, <2>5 DEF Live
<1>7. CASE CloseFamily(e)
  <2>1. /\ pc[e] = "lock" /\ pc'[e] = "reused"
        /\ call'[e] = call[e] /\ before'[e] = before[e]
        /\ \A q \in Requests : tokens'[q] =
              IF q \in local[e].seen /\ Live(q) THEN Revoked(q) ELSE tokens[q]
    BY <1>1, <1>7, CloseTables DEF TypeOK
  <2>2. Target(e) \in Requests /\ tokens[Target(e)] # Null /\ Target(e)' = Target(e)
    BY <1>1, <2>1, CallFacts DEF DataOf, ControlOf, PastFind, Target
  <2>3. /\ t \in before[e] /\ tokens'[t] # Null
        /\ tokens'[t].family = tokens'[Target(e)].family
    BY <2>1, <2>2 DEF Ended
  <2>4. t \in Requests /\ pc[t] # "commit" BY <1>1, <2>3 DEF SeniorsInv, Answers, TypeOK
  <2>5. /\ tokens[t] # Null /\ tokens'[t].family = tokens[t].family
        /\ tokens'[Target(e)].family = tokens[Target(e)].family
    BY <2>2, <2>3, <2>4, TokenFixed, TablesGrow
  <2>6. CASE Live(t)
    <3>1. t \in local[e].seen BY <2>1, <2>3, <2>5, <2>6 DEF FamilyInv
    <3>2. tokens'[t] = Revoked(t) BY <2>1, <2>4, <2>6, <3>1
    <3>3. tokens[t] \in TokenRows BY <1>1, <2>4, <2>5 DEF TypeOK
    <3>4. Revoked(t).revoked BY <2>4, <3>3, RevokedFacts
    <3> QED BY <3>2, <3>4 DEF Live
  <2>7. CASE ~ Live(t) BY <2>4, <2>5, <2>7, DeadStays
  <2> QED BY <2>6, <2>7
<1>8. CASE pc'[e] = pc[e] /\ call'[e] = call[e] /\ before'[e] = before[e]
  BY <1>3, <1>8 DEF Ended, Answers
<1> QED BY <1>4, <1>5, <1>6, <1>7, <1>8, StepOf

\* A refresh becomes renewed only by its commit.
LEMMA BecomesRenewed ==
  ASSUME Base, [Next]_vars, NEW a \in Requests, Renewed(a)'
  PROVE  Renewed(a) \/ (Commit(a) /\ Op(a) = "refresh")
<1>1. TypeOK /\ ControlOf(a) BY DEF Base
<1>2. ~ Arrive(a) /\ ~ CloseFamily(a)
  BY <1>1, ArriveFrame, CloseTables DEF Renewed, TypeOK, Goto
<1>3. CASE Moves(a)
  <2>1. call'[a] = call[a] BY <1>3, MoveFrame
  <2>2. Op(a) = "refresh" /\ pc'[a] = "ok" BY <2>1 DEF Renewed, Op
  <2>3. ~ FindToken(a)
    BY <1>1, <2>2, AfterFindCases DEF Goto, TypeOK
  <2>4. ~ ReadMe(a) BY <1>1, <2>2 DEF ReadMe, ControlOf
  <2> QED BY <1>1, <1>3, <2>2, <2>3, <2>4, VictimWaits DEF Moves, FlushOrg, FindOrg,
     FlushUser, FindUser,
            ReadOwner, InsertToken, UpdateToken, Scan, LockRow, Fail, Goto, TypeOK
<1>4. CASE Commit(a) BY <1>4, CommitTables DEF Renewed, Op
<1>5. CASE pc'[a] = pc[a] /\ call'[a] = call[a] BY <1>5 DEF Renewed, Op
<1> QED BY <1>2, <1>3, <1>4, <1>5, StepOf

LEMMA RenewedNext ==
  ASSUME Base, RenewedInv, [Next]_vars
  PROVE  RenewedInv'
<1> SUFFICES ASSUME NEW a \in Requests, Renewed(a)'
             PROVE  \E b \in Requests :
                      /\ Target(a)' = b
                      /\ tokens'[a] # Null /\ tokens'[b] # Null
                      /\ tokens'[a].family = tokens'[b].family
                      /\ ~ Live(b)'
  BY DEF RenewedInv, Live
<1>1. CASE Renewed(a)
  <2>1. PICK b \in Requests :
          /\ Target(a) = b
          /\ tokens[a] # Null /\ tokens[b] # Null
          /\ tokens[a].family = tokens[b].family
          /\ ~ Live(b)
    BY <1>1 DEF RenewedInv
  <2>2. Target(a)' = b BY <1>1, <2>1, AnsweredStays DEF Target, Renewed, Answers
  <2>3. /\ tokens'[a] # Null /\ tokens'[a].family = tokens[a].family
        /\ tokens'[b] # Null /\ tokens'[b].family = tokens[b].family
    BY <2>1, TablesGrow
  <2>4. ~ Live(b)' BY <2>1, DeadStays
  <2> QED BY <2>1, <2>2, <2>3, <2>4
<1>2. CASE Commit(a) /\ Op(a) = "refresh"
  <2>1. PICK b \in Requests :
          /\ Target(a) = b /\ b # a /\ tokens[b] \in TokenRows
          /\ NewToken(a) \in TokenRows /\ call' = call
    BY <1>2, CommitTables
  <2>2. tokens'[a] = NewToken(a) /\ tokens'[b] = Revoked(b)
    BY <1>2, <2>1, CommitTables
  <2>3. Target(a)' = b BY <2>1 DEF Target
  <2>4. Revoked(b) \in TokenRows /\ Revoked(b).family = tokens[b].family
    BY <2>1, RevokedFacts
  <2>5. Revoked(b).revoked BY <2>1, RevokedFacts
  <2>6. NewToken(a).family = tokens[b].family BY <1>2, <2>1 DEF NewToken
  <2>7. ~ Live(b)' BY <2>2, <2>5 DEF Live
  <2> QED BY <2>1, <2>2, <2>3, <2>4, <2>6, <2>7, NullAssumption
<1> QED BY <1>1, <1>2, BecomesRenewed

\* Who renews a token has found it live.
LEMMA BecomesRenewing ==
  ASSUME Base, [Next]_vars, NEW r \in Requests, Renewing(r)'
  PROVE  /\ call'[r] = call[r] /\ before'[r] = before[r]
         /\ Renewing(r) \/ (FindToken(r) /\ Live(Target(r)))
<1>1. TypeOK /\ ControlOf(r) BY DEF Base
<1>2. ~ Arrive(r) /\ ~ CloseFamily(r)
  BY <1>1, ArriveFrame, CloseTables DEF Renewing, TypeOK, Goto
<1>3. CASE Moves(r)
  <2>1. call'[r] = call[r] /\ before'[r] = before[r] BY <1>3, MoveFrame
  <2>2. Op(r) = "refresh" /\ pc'[r] \in {"owner", "rotate", "commit", "ok"}
    BY <2>1 DEF Renewing, Op
  <2>3. CASE FindToken(r)
    <3>1. Live(Target(r)) BY <1>1, <2>2, <2>3, AfterFindCases DEF Goto, TypeOK
    <3> QED BY <2>1, <2>3, <3>1
  <2>4. CASE ~ FindToken(r)
    <3>1. pc[r] \in {"owner", "rotate"}
      BY <1>1, <1>3, <2>2, <2>4, VictimWaits DEF Moves, FlushOrg, FindOrg, FlushUser,
         FindUser, ReadOwner,
         InsertToken, UpdateToken, Scan, LockRow, ReadMe, Fail, Goto, TypeOK, ControlOf
    <3> QED BY <2>1, <2>2, <3>1 DEF Renewing
  <2> QED BY <2>3, <2>4
<1>4. CASE Commit(r)
  BY <1>4, CommitTables DEF Renewing, Op
<1>5. CASE pc'[r] = pc[r] /\ call'[r] = call[r] /\ before'[r] = before[r]
  BY <1>5 DEF Renewing, Op
<1> QED BY <1>2, <1>3, <1>4, <1>5, StepOf

LEMMA LaterNext ==
  ASSUME Base, SeniorsInv, EndInv, RenewedInv, LaterInv, [Next]_vars
  PROVE  LaterInv'
<1> SUFFICES ASSUME NEW r \in Requests, NEW e \in Requests,
                    Renewing(r)', e \in before'[r]
             PROVE  /\ Target(r)' \notin Ended(e)'
                    /\ Renewed(e)' => Target(e)' # Target(r)'
  BY DEF LaterInv
<1>3. /\ call'[r] = call[r] /\ before'[r] = before[r]
      /\ Renewing(r) \/ (FindToken(r) /\ Live(Target(r)))
  BY BecomesRenewing
<1>4. pc[e] \in Answers /\ e \in before[r] BY <1>3 DEF SeniorsInv
<1>5. /\ pc'[e] = pc[e] /\ call'[e] = call[e] /\ Ended(e)' = Ended(e)
      /\ Target(e)' = Target(e) /\ Target(r)' = Target(r)
      /\ Renewed(e)' <=> Renewed(e)
  BY <1>3, <1>4, AnsweredStays, EndedStays DEF Target, Renewed, Op
<1>6. CASE Renewing(r)
  BY <1>4, <1>5, <1>6 DEF LaterInv
<1>7. CASE Live(Target(r))
  BY <1>5, <1>7 DEF EndInv, RenewedInv
<1> QED BY <1>3, <1>5, <1>6, <1>7

LEMMA SessionInit == Init => SessionInv
BY DEF Init, SessionInv, SeniorsInv, FamilyInv, EndInv, RenewedInv, LaterInv, Ended, Renewed,
   Renewing

LEMMA SessionNext == Base /\ SessionInv /\ [Next]_vars => SessionInv'
BY SeniorsNext, FamilyNext, EndNext, RenewedNext, LaterNext DEF SessionInv

LEMMA RefreshedIsRenewed ==
  ASSUME Base, NEW r \in Requests, Refreshed(r)
  PROVE  Renewed(r)
BY DEF Refreshed, Renewed, Base, DataOf

\* A logout, and a refresh that meets a revoked token, end what they say they
\* end, however they interleave: no token they revoked is live again or is
\* renewed by a request that comes after their answer.
THEOREM EndedSessionsStayEnded == Spec => []SessionEnds
<1>1. Base /\ SessionInv => SessionEnds
  BY RefreshedIsRenewed DEF SessionInv, EndInv, LaterInv, SessionEnds, Renewing, Renewed
<1> QED BY <1>1, BaseInit, BaseNext, SessionInit, SessionNext, PTL DEF Spec

\* Of two renewals of one token each had arrived before the other's answer.
THEOREM TokensAreRenewedOnce == Spec => []RenewedOnce
<1>1. Base /\ SessionInv => RenewedOnce
  <2> SUFFICES ASSUME Base, SessionInv, NEW a \in Requests, NEW b \in Requests,
                      Refreshed(a), Refreshed(b), Target(a) = Target(b)
               PROVE  a \notin before[b] /\ b \notin before[a]
    BY DEF RenewedOnce
  <2>1. Renewed(a) /\ Renewed(b) BY RefreshedIsRenewed
  <2> QED BY <2>1 DEF SessionInv, LaterInv, Renewing, Renewed
<1> QED BY <1>1, BaseInit, BaseNext, SessionInit, SessionNext, PTL DEF Spec

-----------------------------------------------------------------------------
(***************************************************************************)
(* The tokens of a family are a tree: a login plants it, a renewal adds a  *)
(* child to the token it was given.  A live token has no child, so two     *)
(* live tokens are two leaves, and a tree with two leaves forks somewhere. *)
(***************************************************************************)
LEMMA Inserted ==
  ASSUME Base, [Next]_vars, NEW t \in Requests, tokens[t] = Null, tokens'[t] # Null
  PROVE  Commit(t) /\ Op(t) \in {"login", "refresh"}
<1>1. ASSUME NEW r \in Requests, Commit(r) PROVE Commit(t) /\ Op(t) \in {"login", "refresh"}
  <2>1. Op(r) \in {"refresh", "logout"} => tokens[Target(r)] \in TokenRows
    BY <1>1, CommitTables
  <2>2. tokens'[t] = IF Op(r) \in {"refresh", "logout"} /\ t = Target(r) THEN Revoked(t)
                     ELSE IF Op(r) \in {"login", "refresh"} /\ t = r THEN NewToken(r)
                     ELSE tokens[t]
    BY <1>1, CommitTables
  <2>3. t = r /\ Op(r) \in {"login", "refresh"}
    BY <2>1, <2>2, NullAssumption
  <2> QED BY <1>1, <2>3
<1>2. ASSUME NEW r \in Requests, CloseFamily(r) PROVE FALSE
  BY <1>2, CloseTables DEF Live
<1> QED BY <1>1, <1>2, NextCases, ArriveFrame, MoveFrame DEF Tick, tables, vars

Rooted == \A t \in Requests : tokens[t] # Null => tokens[tokens[t].family] # Null

Childless(a) == tokens[a] # Null /\ \A c \in Requests : Renewed(c) => Target(c) # a

\* A token of the family of a was renewed twice.
Forked(a) ==
  \E c, d \in Requests :
    /\ Renewed(c) /\ Renewed(d) /\ c # d
    /\ Target(c) = Target(d) /\ tokens[c].family = tokens[a].family

TreeInv ==
  /\ Rooted
  /\ \A a, b \in Requests :
       Childless(a) /\ Childless(b) /\ a # b /\ tokens[a].family = tokens[b].family
       => Forked(a)

LEMMA RootedNext ==
  ASSUME Base, Rooted, [Next]_vars
  PROVE  Rooted'
<1> SUFFICES ASSUME NEW t \in Requests, tokens'[t] # Null
             PROVE  tokens'[tokens'[t].family] # Null
  BY DEF Rooted
<1>1. TypeOK BY DEF Base
<1>2. CASE tokens[t] # Null
  <2>1. tokens[t].family \in Requests BY <1>1, <1>2 DEF TypeOK, TokenRows
  <2> QED BY <1>2, <2>1, TablesGrow DEF Rooted
<1>3. CASE tokens[t] = Null
  <2>1. Commit(t) /\ Op(t) \in {"login", "refresh"} BY <1>3, Inserted
  <2>2. /\ NewToken(t) \in TokenRows
        /\ Op(t) = "refresh" => /\ Target(t) \in Requests /\ Target(t) # t
                                /\ tokens[Target(t)] \in TokenRows
    BY <2>1, CommitTables
  <2>3. tokens'[t] = NewToken(t) BY <2>1, <2>2, CommitTables
  <2>4. CASE Op(t) = "login" BY <2>3, <2>4 DEF NewToken
  <2>5. CASE Op(t) = "refresh"
    <3>1. tokens'[t].family = tokens[Target(t)].family BY <2>3, <2>5 DEF NewToken
    <3>2. tokens[Target(t)].family \in Requests /\ tokens[Target(t)] # Null
      BY <2>2, <2>5, NullAssumption DEF TokenRows
    <3>3. tokens[tokens[Target(t)].family] # Null BY <2>2, <2>5, <3>2 DEF Rooted
    <3> QED BY <3>1, <3>2, <3>3, TablesGrow
  <2> QED BY <2>1, <2>4, <2>5
<1> QED BY <1>2, <1>3

\* Children stay, and so do forks.
LEMMA TreeGrows ==
  ASSUME Base, RenewedInv, [Next]_vars
  PROVE  /\ \A c \in Requests : Renewed(c) => Renewed(c)' /\ Target(c)' = Target(c)
         /\ \A a \in Requests : Childless(a)' /\ tokens[a] # Null => Childless(a)
         /\ \A a \in Requests : tokens[a] # Null /\ Forked(a)
                                  => Forked(a)'
<1>1. ASSUME NEW c \in Requests, Renewed(c) PROVE Renewed(c)' /\ Target(c)' = Target(c)
  BY <1>1, AnsweredStays DEF Renewed, Answers, Target, Op
<1>2. \A a \in Requests : Childless(a)' /\ tokens[a] # Null => Childless(a)
  BY <1>1 DEF Childless
<1>3. ASSUME NEW a \in Requests, tokens[a] # Null, Forked(a)
      PROVE  Forked(a)'
  <2>1. PICK c \in Requests, d \in Requests :
          /\ Renewed(c) /\ Renewed(d) /\ c # d
          /\ Target(c) = Target(d) /\ tokens[c].family = tokens[a].family
    BY <1>3 DEF Forked
  <2>2. tokens[c] # Null BY <2>1 DEF RenewedInv
  <2>3. tokens'[c].family = tokens'[a].family BY <1>3, <2>1, <2>2, TablesGrow
  <2>4. Renewed(c)' /\ Renewed(d)' /\ Target(c)' = Target(d)' BY <1>1, <2>1
  <2> QED BY <2>1, <2>3, <2>4 DEF Forked
<1> QED BY <1>1, <1>2, <1>3

\* A new leaf beside another: the token it renews was a leaf, or had a child.
LEMMA NewLeaf ==
  ASSUME Base, RenewedInv, TreeInv, [Next]_vars,
         NEW a \in Requests, NEW b \in Requests, a # b, tokens[a] = Null,
         Childless(a)', Childless(b)', tokens'[a].family = tokens'[b].family
  PROVE  Forked(a)'
<1>1. Commit(a) /\ Op(a) \in {"login", "refresh"}
  BY Inserted DEF Childless
<1>2. /\ NewToken(a) \in TokenRows /\ call' = call /\ pc' = [pc EXCEPT ![a] = "ok"]
      /\ Op(a) = "refresh" => /\ Target(a) \in Requests /\ Target(a) # a
                              /\ tokens[Target(a)] \in TokenRows
  BY <1>1, CommitTables
<1>3. tokens'[a] = NewToken(a) BY <1>1, <1>2, CommitTables
<1>4. tokens[b] # Null /\ tokens'[b].family = tokens[b].family
  <2>1. tokens[b] # Null
    <3>1. ASSUME tokens[b] = Null PROVE FALSE
      <4>1. tokens'[b] = Null
        <5>1. b # Target(a) \/ Op(a) = "login" BY <1>1, <1>2, <3>1, NullAssumption
        <5> QED BY <1>1, <3>1, <5>1, CommitTables
      <4> QED BY <4>1 DEF Childless
    <3> QED BY <3>1
  <2> QED BY <2>1, TablesGrow
<1>5. Childless(b) BY <1>4, TreeGrows
<1>6. CASE Op(a) = "login"
  <2>1. tokens[b].family = a BY <1>3, <1>4, <1>6 DEF NewToken
  <2> QED BY <1>4, <2>1 DEF TreeInv, Rooted
<1>7. CASE Op(a) = "refresh"
  <2>1. PICK p \in Requests : p = Target(a) /\ p # a /\ tokens[p] \in TokenRows
    BY <1>2, <1>7
  <2>2. tokens[p] # Null BY <2>1, NullAssumption
  <2>3. tokens'[a].family = tokens[p].family /\ tokens[b].family = tokens[p].family
    BY <1>3, <1>4, <1>7, <2>1 DEF NewToken
  <2>4. tokens'[p].family = tokens[p].family BY <2>2, TablesGrow
  <2>5. Renewed(a)' /\ Target(a)' = p
    BY <1>2, <1>7, <2>1 DEF Renewed, Op, Target, Base, TypeOK
  <2>6. p # b BY <2>5 DEF Childless
  <2>7. CASE Childless(p)
    <3>1. Forked(p) BY <1>5, <2>3, <2>6, <2>7 DEF TreeInv
    <3>2. Forked(p)' BY <2>2, <3>1, TreeGrows
    <3> QED BY <2>3, <2>4, <3>2 DEF Forked
  <2>8. CASE ~ Childless(p)
    <3>1. PICK c \in Requests : Renewed(c) /\ Target(c) = p BY <2>2, <2>8 DEF Childless
    <3>2. tokens[c] # Null /\ tokens[c].family = tokens[p].family BY <3>1 DEF RenewedInv
    <3>3. c # a BY <3>2
    <3>4. Renewed(c)' /\ Target(c)' = p BY <3>1, TreeGrows
    <3>5. tokens'[c].family = tokens'[a].family BY <2>3, <3>2, TablesGrow
    <3> QED BY <2>5, <3>3, <3>4, <3>5 DEF Forked
  <2> QED BY <2>7, <2>8
<1> QED BY <1>1, <1>6, <1>7

LEMMA TreeNext ==
  ASSUME Base, RenewedInv, TreeInv, [Next]_vars
  PROVE  TreeInv'
<1>1. Rooted' BY RootedNext DEF TreeInv
<1>2. ASSUME NEW a \in Requests, NEW b \in Requests, a # b,
             Childless(a)', Childless(b)', tokens'[a].family = tokens'[b].family
      PROVE  Forked(a)'
  <2>1. CASE tokens[a] # Null /\ tokens[b] # Null
    <3>1. Childless(a) /\ Childless(b) BY <1>2, <2>1, TreeGrows
    <3>2. tokens[a].family = tokens[b].family BY <1>2, <2>1, TablesGrow
    <3>3. Forked(a) BY <1>2, <3>1, <3>2 DEF TreeInv
    <3> QED BY <2>1, <3>3, TreeGrows
  <2>2. CASE tokens[a] = Null BY <1>2, <2>2, NewLeaf
  <2>3. CASE tokens[b] = Null
    <3>1. Forked(b)' BY <1>2, <2>3, NewLeaf
    <3> QED BY <1>2, <3>1 DEF Forked
  <2> QED BY <2>1, <2>2, <2>3
<1> QED BY <1>1, <1>2 DEF TreeInv

LEMMA OneLive == SessionInv /\ TreeInv => OneLivePerSession
<1> SUFFICES ASSUME SessionInv, TreeInv, NEW a \in Requests, NEW b \in Requests,
                    Live(a), Live(b), a # b, tokens[a].family = tokens[b].family
             PROVE  RenewedTwice(tokens[a].family)
  BY DEF OneLivePerSession
<1>1. RenewedInv BY DEF SessionInv
<1>2. Childless(a) /\ Childless(b) BY <1>1 DEF RenewedInv, Childless, Live
<1>3. Forked(a) BY <1>2 DEF TreeInv
<1> QED BY <1>1, <1>3 DEF Forked, RenewedInv, Refreshed, Renewed, RenewedTwice

LEMMA TreeInvariance == Spec => [](Base /\ SessionInv /\ TreeInv)
<1>1. Init => TreeInv
  BY DEF Init, TreeInv, Rooted, Childless
<1>2. Base /\ SessionInv /\ TreeInv /\ [Next]_vars => TreeInv'
  BY TreeNext DEF SessionInv
<1> QED BY <1>1, <1>2, BaseInit, BaseNext, SessionInit, SessionNext, PTL DEF Spec

\* A session has one live token, as long as no token of it is renewed twice.
THEOREM OneLiveTokenPerSession == Spec => []OneLivePerSession
BY OneLive, TreeInvariance, PTL

-----------------------------------------------------------------------------
(***************************************************************************)
(* Deadlocks.  Whoever is in a cycle waits and is waited for.  A founder    *)
(* at its second insert is waited for and does not wait; whoever is about   *)
(* to commit does not either; so it is a revocation that holds one live     *)
(* token of its family and lacks another.                                   *)
(***************************************************************************)
LEMMA CycleLinks ==
  ASSUME NEW r \in Requests, Deadlocked(r)
  PROVE  /\ \E t \in Requests : WaitsOn(r, t) /\ Waits(t)
         /\ \E s \in Requests : WaitsOn(s, r) /\ Waits(s)
<1>1. PICK C \in SUBSET {s \in Requests : Waits(s)} :
        /\ r \in C /\ C # {r}
        /\ \A D \in (SUBSET C) \ {{}, C} : \E s \in D : \E t \in C \ D : WaitsOn(s, t)
  BY DEF Deadlocked
<1>2. ASSUME NEW D \in SUBSET C, D # {}, D # C
      PROVE  \E s \in D : \E t \in C \ D : WaitsOn(s, t)
  <2>1. D \in (SUBSET C) \ {{}, C} BY <1>2
  <2> QED BY <1>1, <2>1, Zenon
<1>3. \E t \in C : WaitsOn(r, t)
  <2>1. {r} \in SUBSET C /\ {r} # {} /\ {r} # C BY <1>1
  <2>2. \E s \in {r} : \E t \in C \ {r} : WaitsOn(s, t) BY <1>2, <2>1, Zenon
  <2> QED BY <2>2
<1>4. \E s \in C : WaitsOn(s, r)
  <2>1. C \ {r} # C /\ C \ {r} \in SUBSET C BY <1>1
  <2>2. C \ {r} # {}
    <3>1. PICK s : s \in C /\ s # r BY <1>1
    <3> QED BY <3>1
  <2>3. \E s \in C \ {r} : \E t \in C \ (C \ {r}) : WaitsOn(s, t)
    BY <1>2, <2>1, <2>2, Zenon
  <2>4. PICK s \in C \ {r} : \E t \in C \ (C \ {r}) : WaitsOn(s, t)
    BY <2>3, Zenon
  <2> QED BY <2>4
<1> QED BY <1>1, <1>3, <1>4

\* Only revocations of one session deadlock, and only where a token of it was
\* renewed twice: a session without a fork never costs anybody an answer.
THEOREM ForksAloneDeadlock == Spec => []DeadlocksAreOfForks
<1>1. Base /\ FoundedInv /\ SessionInv /\ TreeInv => DeadlocksAreOfForks
  <2> SUFFICES ASSUME Base, FoundedInv, SessionInv, TreeInv, NEW r \in Requests, Deadlocked(r)
               PROVE  pc[r] = "lock" /\ RenewedTwice(tokens[Target(r)].family)
    BY DEF DeadlocksAreOfForks
  <2>1. PICK q \in Requests : WaitsOn(q, r) BY CycleLinks
  <2>2. PICK t \in Requests : WaitsOn(r, t) /\ Waits(t) BY CycleLinks
  <2>3. pc[t] # "commit" BY <2>2 DEF Waits, WaitsOn
  <2>4. \/ pc[r] = "commit" \/ (pc[r] = "user" /\ Op(r) = "admin")
        \/ pc[r] = "lock" /\ Updated(r) # {}
    BY <2>1 DEF WaitsOn, OrgWaitsFor, InsertedOrg, UserWaitsFor, InsertedUser, Updated
  <2>5. pc[r] = "lock" /\ Updated(r) # {}
    <3>1. pc[r] # "commit" BY <2>2 DEF WaitsOn
    <3>2. CASE pc[r] = "user" /\ Op(r) = "admin"
      <4>1. ~ UserWaitsFor(r, t) BY <3>2, Alone DEF FoundersAreAlone
      <4> QED BY <2>2, <3>2, <4>1 DEF WaitsOn
    <3> QED BY <2>4, <3>1, <3>2
  <2>6. PICK a \in local[r].held : Live(a) BY <2>5 DEF Updated
  <2>7. PICK b \in local[r].seen \ local[r].held : b \in Updated(t)
    BY <2>2, <2>5 DEF WaitsOn
  <2>8. Live(b) BY <2>3, <2>7 DEF Updated
  <2>9. a \in Requests /\ b \in Requests /\ a # b /\ a \in local[r].seen
    BY <2>5, <2>6, <2>7 DEF Base, TypeOK, Memory, DataOf
  <2>10. /\ tokens[a].family = tokens[Target(r)].family
         /\ tokens[b].family = tokens[Target(r)].family
    BY <2>5, <2>7, <2>9 DEF SessionInv, FamilyInv
  <2>11. RenewedTwice(tokens[a].family)
    BY <2>6, <2>8, <2>9, <2>10, OneLive DEF OneLivePerSession
  <2> QED BY <2>5, <2>10, <2>11
<1> QED BY <1>1, FoundedInvariance, TreeInvariance, PTL

-----------------------------------------------------------------------------
(***************************************************************************)
(* What ends a token: its logout, the revocation of its family, or the     *)
(* commit that gives it a successor.                                       *)
(***************************************************************************)
LostFairly(t) ==
  \E r \in Requests :
    \/ pc'[r] = "ok" /\ pc[r] # "ok" /\ Op(r) = "logout" /\ Target(r) = t
    \/ /\ pc'[r] = "reused" /\ pc[r] # "reused"
       /\ tokens[t].family = tokens[Target(r)].family
    \/ /\ ~ Live(r) /\ Live(r)' /\ Op(r) = "refresh" /\ Target(r) = t
       /\ tokens'[r].family = tokens[t].family
       /\ tokens'[r].user = tokens[t].user

LEMMA LostByCommit ==
  ASSUME Base, NEW r \in Requests, Commit(r), NEW t \in Requests, Live(t), ~ Live(t)'
  PROVE  LostFairly(t)
<1>1. /\ pc[r] = "commit" /\ pc'[r] = "ok"
      /\ tokens'[t] = IF Op(r) \in {"refresh", "logout"} /\ t = Target(r) THEN Revoked(t)
                      ELSE IF Op(r) \in {"login", "refresh"} /\ t = r THEN NewToken(r)
                      ELSE tokens[t]
  BY CommitTables DEF Base, TypeOK
<1>2. tokens[r] = Null BY CommitTables
<1>3. t # r BY <1>2 DEF Live
<1>4. Op(r) \in {"refresh", "logout"} /\ t = Target(r)
  BY <1>1, <1>3 DEF Live
<1>5. CASE Op(r) = "logout" BY <1>1, <1>4, <1>5 DEF LostFairly
<1>6. CASE Op(r) = "refresh"
  <2>1. tokens'[r] = NewToken(r) /\ NewToken(r) \in TokenRows
    BY <1>3, <1>4, <1>6, CommitTables
  <2>2. NewToken(r).user = tokens[t].user /\ NewToken(r).family = tokens[t].family
    <3>1. local[r].user = tokens[Target(r)].user BY <1>1, <1>6 DEF Base, DataOf
    <3> QED BY <1>4, <1>6, <3>1 DEF NewToken
  <2>3. ~ NewToken(r).revoked BY DEF NewToken
  <2>4. Live(r)' BY <2>1, <2>3, NullAssumption DEF Live
  <2>5. ~ Live(r) BY <1>2 DEF Live
  <2> QED BY <1>4, <1>6, <2>1, <2>2, <2>4, <2>5 DEF LostFairly
<1> QED BY <1>4, <1>5, <1>6

\* No token is lost to a failure, or to what happens in another session: who
\* has not logged out and whose token was not used twice can go on with it or
\* with its successor.
THEOREM TokensAreNotLost == Spec => NoSessionLost
<1>1. ASSUME Base, SessionInv, [Next]_vars
      PROVE  [\A t \in Requests : Live(t) /\ ~ Live(t)' => LostFairly(t)]_vars
  <2> SUFFICES ASSUME NEW t \in Requests, Live(t), ~ Live(t)' PROVE LostFairly(t)
    OBVIOUS
  <2>1. ASSUME NEW r \in Requests, Arrive(r) \/ Moves(r) PROVE FALSE
    BY <2>1, ArriveFrame, MoveFrame DEF Live
  <2>2. ASSUME NEW r \in Requests, Commit(r) PROVE LostFairly(t)
    BY <1>1, <2>2, LostByCommit
  <2>3. ASSUME NEW r \in Requests, CloseFamily(r) PROVE LostFairly(t)
    <3>1. /\ pc[r] = "lock" /\ pc'[r] = "reused"
          /\ tokens'[t] = IF t \in local[r].seen /\ Live(t) THEN Revoked(t) ELSE tokens[t]
      BY <1>1, <2>3, CloseTables DEF Base, TypeOK
    <3>2. t \in local[r].seen BY <3>1 DEF Live
    <3>3. tokens[t].family = tokens[Target(r)].family
      BY <1>1, <3>1, <3>2 DEF SessionInv, FamilyInv
    <3> QED BY <3>1, <3>3 DEF LostFairly
  <2> QED BY <1>1, <2>1, <2>2, <2>3, NextCases DEF Tick, tables, vars, Live
<1> QED BY <1>1, TreeInvariance, PTL DEF Spec, NoSessionLost, LostFairly

-----------------------------------------------------------------------------
(***************************************************************************)
(* Revoking a family.  The UPDATE revokes what its snapshot shows, and a   *)
(* rotation that is under way then adds a token the snapshot does not      *)
(* have; but if none is, the family is dead for good.                      *)
(***************************************************************************)
FamilyOf(r) == tokens[Target(r)].family

\* r has found its token live, and not committed the next one.
Rotating(r) == Op(r) = "refresh" /\ pc[r] \in {"owner", "rotate", "commit"}

\* e has met a revoked token, and is revoking the family it has seen.
Revoking(e) == pc[e] = "lock"

\* No token of a family is being rotated while the family is being revoked.
RotationsApart ==
  \A r, e \in Requests : Rotating(r) /\ Revoking(e) => FamilyOf(r) # FamilyOf(e)

\* The snapshot has all live tokens of the family; afterwards there are none,
\* and none under way.
FamiliesDie ==
  \A e \in Requests :
    /\ Revoking(e) => \A t \in Requests :
         Live(t) /\ tokens[t].family = FamilyOf(e) => t \in local[e].seen
    /\ pc[e] = "reused" =>
         /\ \A t \in Requests : Live(t) => tokens[t].family # FamilyOf(e)
         /\ \A r \in Requests : Rotating(r) => FamilyOf(r) # FamilyOf(e)

LEMMA FamilyOfStays ==
  ASSUME Base, [Next]_vars, NEW e \in Requests, pc[e] \in PastFind,
         Op(e) \in {"refresh", "logout"}
  PROVE  Target(e) \in Requests /\ tokens[Target(e)] # Null /\ FamilyOf(e)' = FamilyOf(e)
<1>1. Target(e) \in Requests /\ tokens[Target(e)] # Null
  BY DEF Base, DataOf, PastFind
<1>2. Target(e)' = Target(e) BY CallStays DEF PastFind, Target
<1> QED BY <1>1, <1>2, TablesGrow DEF FamilyOf

\* A token becomes live when it is given, by a login or a rotation.
LEMMA BecomesLive ==
  ASSUME Base, [Next]_vars, NEW t \in Requests, Live(t)', ~ Live(t)
  PROVE  /\ Commit(t) /\ tokens[t] = Null
         /\ \/ Op(t) = "login" /\ tokens'[t].family = t
            \/ Rotating(t) /\ tokens'[t].family = FamilyOf(t)
<1>1. tokens[t] = Null /\ tokens'[t] # Null BY DeadStays DEF Live
<1>2. Commit(t) /\ Op(t) \in {"login", "refresh"} BY <1>1, Inserted
<1>3. pc[t] = "commit" /\ (Op(t) = "refresh" => Target(t) # t) BY <1>2, CommitTables
<1>4. tokens'[t] = NewToken(t) BY <1>2, <1>3, CommitTables
<1>5. tokens'[t].family = IF Op(t) = "login" THEN t ELSE FamilyOf(t)
  BY <1>4 DEF NewToken, FamilyOf
<1> QED BY <1>1, <1>2, <1>3, <1>5 DEF Rotating

\* Of a session whose tokens are not being rotated no new one becomes live.
LEMMA NoNewToken ==
  ASSUME Base, Rooted, [Next]_vars, NEW e \in Requests, Target(e) \in Requests,
         tokens[Target(e)] # Null,
         \A r \in Requests : Rotating(r) => FamilyOf(r) # FamilyOf(e),
         NEW t \in Requests, Live(t)', tokens'[t].family = FamilyOf(e)
  PROVE  Live(t) /\ tokens[t].family = FamilyOf(e)
<1>1. FamilyOf(e) \in Requests /\ tokens[FamilyOf(e)] # Null
  BY DEF Base, TypeOK, TokenRows, Rooted, FamilyOf
<1>2. Live(t) BY <1>1, BecomesLive
<1> QED BY <1>2, TablesGrow DEF Live

LEMMA BecomesRotating ==
  ASSUME Base, [Next]_vars, NEW r \in Requests, Rotating(r)'
  PROVE  Rotating(r) \/ (FindToken(r) /\ Live(Target(r)) /\ Op(r) = "refresh")
<1>1. Renewing(r)' BY DEF Rotating, Renewing
<1>2. call'[r] = call[r] /\ (Renewing(r) \/ (FindToken(r) /\ Live(Target(r))))
  BY <1>1, BecomesRenewing
<1>3. pc[r] # "ok" BY AnsweredStays DEF Rotating, Answers
<1> QED BY <1>2, <1>3 DEF Renewing, Rotating, Op

LEMMA RevokingStep ==
  ASSUME Base, Rooted, FamiliesDie, RotationsApart, [Next]_vars, NEW e \in Requests,
         Revoking(e)', NEW t \in Requests, Live(t)', tokens'[t].family = FamilyOf(e)'
  PROVE  t \in local'[e].seen
<1>1. TypeOK /\ ControlOf(e) BY DEF Base
<1>2. ~ Arrive(e) /\ ~ Commit(e) /\ ~ CloseFamily(e)
  BY <1>1, ArriveFrame, CommitTables, CloseTables DEF Revoking, TypeOK, Goto
<1>3. CASE Scan(e)
  <2>1. pc[e] = "scan" /\ Op(e) = "refresh" /\ UNCHANGED <<tokens, call>>
    BY <1>1, <1>3 DEF Scan, tables, ControlOf
  <2>2. local'[e].seen = {u \in Requests : Live(u) /\ tokens[u].family = FamilyOf(e)}
    BY <1>1, <1>3 DEF Scan, TypeOK, FamilyOf
  <2> QED BY <2>1, <2>2 DEF Live, FamilyOf, Target
<1>4. CASE Revoking(e) /\ local'[e].seen = local[e].seen
  <2>1. Op(e) = "refresh" /\ pc[e] \in PastFind BY <1>1, <1>4 DEF Revoking, ControlOf, PastFind
  <2>2. /\ Target(e) \in Requests /\ tokens[Target(e)] # Null
        /\ tokens'[t].family = FamilyOf(e)
    BY <2>1, FamilyOfStays
  <2>3. \A r \in Requests : Rotating(r) => FamilyOf(r) # FamilyOf(e)
    BY <1>4 DEF RotationsApart
  <2> QED BY <1>4, <2>2, <2>3, NoNewToken DEF FamiliesDie
<1>5. CASE Moves(e)
  <2>1. ~ FindToken(e) BY <1>1, AfterFindCases DEF Revoking, TypeOK, Goto
  <2>2. Scan(e) \/ LockRow(e)
    BY <1>1, <1>5, <2>1, VictimWaits DEF Revoking, Moves, FlushOrg, FindOrg, FlushUser,
       FindUser, ReadOwner,
       InsertToken, UpdateToken, ReadMe, Fail, Goto, TypeOK
  <2>3. LockRow(e) => Revoking(e) /\ local'[e].seen = local[e].seen
    BY <1>1 DEF LockRow, Revoking, TypeOK, Memory
  <2> QED BY <1>3, <1>4, <2>2, <2>3
<1>6. CASE pc'[e] = pc[e] /\ local'[e] = local[e] BY <1>4, <1>6 DEF Revoking
<1> QED BY <1>2, <1>5, <1>6, StepOf

LEMMA ClosingStep ==
  ASSUME Base, FamiliesDie, RotationsApart, NEW e \in Requests, CloseFamily(e)
  PROVE  /\ \A t \in Requests : Live(t)' => tokens'[t].family # FamilyOf(e)'
         /\ \A r \in Requests : Rotating(r)' => FamilyOf(r)' # FamilyOf(e)'
<1>0. [Next]_vars BY DEF Next, Handle, Authenticate
<1>1. /\ pc[e] = "lock" /\ Op(e) = "refresh" /\ pc' = [pc EXCEPT ![e] = "reused"]
      /\ call' = call
  BY CloseTables
<1>2. Revoking(e) /\ FamilyOf(e)' = FamilyOf(e)
  BY <1>0, <1>1, FamilyOfStays DEF Revoking, PastFind
<1>3. ASSUME NEW t \in Requests, Live(t)' PROVE tokens'[t].family # FamilyOf(e)
  <2>1. Live(t)
    <3>1. ASSUME Commit(t) PROVE FALSE
      <4>1. pc[t] = "commit" /\ pc' = [pc EXCEPT ![t] = "ok"] BY <3>1, CommitTables
      <4> QED BY <1>1, <4>1 DEF Base, TypeOK
    <3> QED BY <1>0, <1>3, <3>1, BecomesLive
  <2>2. tokens[t] \in TokenRows BY <2>1 DEF Live, Base, TypeOK
  <2>3. t \notin local[e].seen
    BY <1>3, <2>1, <2>2, CloseTables, RevokedFacts DEF Live
  <2>4. tokens[t].family # FamilyOf(e) BY <1>2, <2>1, <2>3 DEF FamiliesDie
  <2> QED BY <1>0, <2>1, <2>4, TablesGrow DEF Live
<1>4. ASSUME NEW r \in Requests, Rotating(r)' PROVE FamilyOf(r)' # FamilyOf(e)
  <2>1. Rotating(r) BY <1>1, <1>4 DEF Rotating, Op, Base, TypeOK
  <2>2. FamilyOf(r)' = FamilyOf(r)
    BY <1>0, <2>1, FamilyOfStays DEF Rotating, PastFind
  <2> QED BY <1>2, <2>1, <2>2 DEF RotationsApart
<1> QED BY <1>2, <1>3, <1>4

LEMMA DeadFamilyStep ==
  ASSUME Base, Rooted, FamiliesDie, [Next]_vars, NEW e \in Requests, pc[e] = "reused"
  PROVE  /\ \A t \in Requests : Live(t)' => tokens'[t].family # FamilyOf(e)'
         /\ \A r \in Requests : Rotating(r)' => FamilyOf(r)' # FamilyOf(e)'
<1>1. /\ Target(e) \in Requests /\ tokens[Target(e)] # Null
      /\ FamilyOf(e)' = FamilyOf(e)
  BY FamilyOfStays DEF Base, ControlOf, PastFind
<1>2. /\ \A t \in Requests : Live(t) => tokens[t].family # FamilyOf(e)
      /\ \A r \in Requests : Rotating(r) => FamilyOf(r) # FamilyOf(e)
  BY DEF FamiliesDie
<1>3. ASSUME NEW t \in Requests, Live(t)' PROVE tokens'[t].family # FamilyOf(e)
  BY <1>1, <1>2, <1>3, NoNewToken
<1>4. ASSUME NEW r \in Requests, Rotating(r)' PROVE FamilyOf(r)' # FamilyOf(e)
  <2>1. CASE Rotating(r)
    <3>1. FamilyOf(r)' = FamilyOf(r) BY <2>1, FamilyOfStays DEF Rotating, PastFind
    <3> QED BY <1>2, <2>1, <3>1
  <2>2. CASE FindToken(r) /\ Live(Target(r)) /\ Op(r) = "refresh"
    <3>1. UNCHANGED <<tokens, call>> /\ Target(r) # Null
      BY <1>4, <2>2, AfterFindCases DEF FindToken, tables, Rotating, Goto, Base, TypeOK
    <3>2. pc[r] = "find" /\ Target(r) \in Requests
      BY <2>2, <3>1 DEF FindToken, Base, DataOf
    <3> QED BY <1>2, <2>2, <3>1, <3>2 DEF FamilyOf, Target
  <2> QED BY <1>4, <2>1, <2>2, BecomesRotating
<1> QED BY <1>1, <1>3, <1>4

LEMMA FamiliesNext ==
  Base /\ Rooted /\ FamiliesDie /\ RotationsApart /\ [Next]_vars => FamiliesDie'
<1> SUFFICES ASSUME Base, Rooted, FamiliesDie, RotationsApart, [Next]_vars, NEW e \in Requests
             PROVE  /\ Revoking(e)' => \A t \in Requests :
                         Live(t)' /\ tokens'[t].family = FamilyOf(e)' => t \in local'[e].seen
                    /\ pc'[e] = "reused" =>
                         /\ \A t \in Requests : Live(t)' => tokens'[t].family # FamilyOf(e)'
                         /\ \A r \in Requests : Rotating(r)' => FamilyOf(r)' # FamilyOf(e)'
  BY DEF FamiliesDie
<1>1. pc'[e] = "reused" => pc[e] = "reused" \/ CloseFamily(e)
  <2>1. SUFFICES ASSUME pc'[e] = "reused" PROVE pc[e] = "reused" \/ CloseFamily(e)
    OBVIOUS
  <2>2. ~ Arrive(e) /\ ~ Commit(e)
    BY <2>1, ArriveFrame, CommitTables DEF Goto, Base, TypeOK
  <2>3. ~ Moves(e)
    <3>1. ~ FindToken(e) BY <2>1, AfterFindCases DEF Goto, Base, TypeOK
    <3> QED BY <2>1, <3>1, VictimWaits DEF Moves, FlushOrg, FindOrg, FlushUser, FindUser,
       ReadOwner,
          InsertToken, UpdateToken, Scan, LockRow, ReadMe, Fail, Goto, Base, TypeOK
  <2> QED BY <2>1, <2>2, <2>3, StepOf
<1> QED BY <1>1, RevokingStep, ClosingStep, DeadFamilyStep

\* "we revoke every token in its family" (refresh_tokens) is true, and stays
\* true, as long as no token of a family is rotated while it is being revoked.
THEOREM ReuseRevokesWhatIsNotRotated == Spec /\ []RotationsApart => []ReuseRevokesFamily
<1>1. Init => Rooted /\ FamiliesDie
  BY DEF Init, Rooted, FamiliesDie, Revoking
<1>2. Base /\ Rooted /\ [Next]_vars => Rooted' BY RootedNext
<1>3. FamiliesDie => ReuseRevokesFamily
  BY DEF FamiliesDie, ReuseRevokesFamily, FamilyOf
<1> QED BY <1>1, <1>2, <1>3, BaseInit, BaseNext, FamiliesNext, PTL DEF Spec

-----------------------------------------------------------------------------
(***************************************************************************)
(* The service implements the ledger of sessions.                          *)
(***************************************************************************)
LEMMA EntryStays ==
  ASSUME Base, [Next]_vars, NEW t \in Requests, tokens[t] # Null
  PROVE  Entry(t)' = Entry(t)
<1>1. tokens'[t].family = tokens[t].family /\ tokens'[t].user = tokens[t].user
  BY TablesGrow
<1> QED BY <1>1 DEF Entry

LEMMA EntryFacts ==
  /\ \A x : x \in renewable <=> \E t \in Requests : Live(t) /\ x = Entry(t)
  /\ \A x : x \in given <=> \E t \in Requests : tokens[t] # Null /\ x = Entry(t)
  /\ \A t \in Requests : Entry(t).id = t
  /\ \A t \in Requests : tokens[t] # Null =>
       Entry(t).session = tokens[t].family /\ Entry(t).user = tokens[t].user
BY DEF renewable, given, Entry

\* A commit or the end of a family changes no token but by what it revokes
\* and inserts.
LEMMA RevokeIsClose ==
  ASSUME Base, [Next]_vars, NEW T \in SUBSET Requests, NEW f \in Requests,
         \A t \in T : Live(t) /\ tokens[t].family = f,
         \A t \in Requests : Live(t)' <=> Live(t) /\ t \notin T,
         \A t \in Requests : tokens'[t] # Null <=> tokens[t] # Null
  PROVE  \E s \in Requests : \E C \in SUBSET renewable : Sessions!Close(s, C)
<1> DEFINE C == {Entry(t) : t \in T}
<1>1. C \subseteq {x \in renewable : x.session = f}
  BY EntryFacts DEF Live
<1>2. ASSUME NEW x PROVE x \in renewable' <=> x \in renewable \ C
  <2>1. x \in renewable' <=> \E t \in Requests : Live(t)' /\ x = Entry(t)'
    BY DEF renewable
  <2>2. x \in renewable' <=> \E t \in Requests : Live(t) /\ t \notin T /\ x = Entry(t)
    BY <2>1, EntryStays DEF Live
  <2>3. \A s, t \in Requests : Entry(s) = Entry(t) => s = t
    BY EntryFacts
  <2>4. x \in renewable <=> \E t \in Requests : Live(t) /\ x = Entry(t)
    BY EntryFacts
  <2> QED BY <2>2, <2>3, <2>4
<1>3. renewable' = renewable \ C BY <1>2
<1>4. given' = given
  <2>1. ASSUME NEW x PROVE x \in given' <=> x \in given
    <3>1. x \in given' <=> \E t \in Requests : tokens'[t] # Null /\ x = Entry(t)'
      BY DEF given
    <3> QED BY <3>1, EntryStays, EntryFacts
  <2> QED BY <2>1
<1> HIDE DEF C
<1>5. C \in SUBSET renewable BY <1>1
<1> QED BY <1>1, <1>3, <1>4, <1>5 DEF Sessions!Close

LEMMA InsertIsOpenOrRenew ==
  ASSUME Base, Rooted, [Next]_vars, NEW r \in Requests, Commit(r),
         Op(r) \in {"login", "refresh"}
  PROVE  \/ \E u \in Requests : Sessions!Open(r, u)
         \/ \E p \in given : Sessions!Renew(p, r)
<1>1. /\ NewToken(r) \in TokenRows /\ tokens[r] = Null /\ pc[r] = "commit"
      /\ Op(r) = "refresh" => /\ Target(r) \in Requests /\ Target(r) # r
                              /\ tokens[Target(r)] \in TokenRows
      /\ \A t \in Requests : tokens'[t] =
              IF Op(r) \in {"refresh", "logout"} /\ t = Target(r) THEN Revoked(t)
              ELSE IF Op(r) \in {"login", "refresh"} /\ t = r THEN NewToken(r)
              ELSE tokens[t]
  BY CommitTables
<1>2. PICK e : e = [id |-> r, session |-> NewToken(r).family, user |-> NewToken(r).user]
  OBVIOUS
<1>3. tokens'[r] = NewToken(r) BY <1>1
<1>4. Entry(r)' = e BY <1>2, <1>3 DEF Entry
<1>5. e.id = r /\ e.session = NewToken(r).family /\ e.user = NewToken(r).user
  BY <1>2
<1>6. ~ NewToken(r).revoked /\ NewToken(r) # Null
  <2>1. ~ NewToken(r).revoked BY DEF NewToken
  <2> QED BY <1>1, <2>1, NullAssumption
<1>7. Live(r)' BY <1>3, <1>6 DEF Live
<1>8. Sessions!Fresh(r)
  BY <1>1, EntryFacts DEF Sessions!Fresh
<1>9. given' = given \cup {e}
  <2>1. ASSUME NEW t \in Requests, t # r PROVE tokens'[t] # Null <=> tokens[t] # Null
    <3>1. ~ Commit(t) \/ tokens'[t] = tokens[t]
      BY <1>1, <2>1, CommitTables DEF Commit, Goto, Base, TypeOK
    <3> QED BY <3>1, Inserted, TablesGrow
  <2>2. tokens'[r] # Null BY <1>3, <1>6
  <2>3. ASSUME NEW x PROVE x \in given' <=> x \in given \cup {e}
    <3>1. x \in given' <=> \E t \in Requests : tokens'[t] # Null /\ x = Entry(t)'
      BY DEF given
    <3>2. x \in given <=> \E t \in Requests : tokens[t] # Null /\ x = Entry(t)
      BY EntryFacts
    <3>3. ASSUME x \in given' PROVE x \in given \cup {e}
      <4>1. PICK t \in Requests : tokens'[t] # Null /\ x = Entry(t)' BY <3>1, <3>3
      <4>2. CASE t = r BY <1>4, <4>1, <4>2
      <4>3. CASE t # r BY <2>1, <3>2, <4>1, <4>3, EntryStays
      <4> QED BY <4>2, <4>3
    <3>4. ASSUME x \in given PROVE x \in given'
      <4>1. PICK t \in Requests : tokens[t] # Null /\ x = Entry(t) BY <3>2, <3>4
      <4> QED BY <3>1, <4>1, EntryStays, TablesGrow
    <3>5. e \in given' BY <1>4, <2>2, EntryFacts DEF given
    <3> QED BY <3>3, <3>4, <3>5
  <2> QED BY <2>3
<1>10. ASSUME NEW T \in SUBSET {t \in Requests : tokens[t] # Null},
              \A t \in Requests \ {r} : Live(t)' <=> Live(t) /\ t \notin T
       PROVE  renewable' = (renewable \ {Entry(t) : t \in T}) \cup {e}
  <2>1. ASSUME NEW x PROVE x \in renewable' <=> x \in (renewable \ {Entry(t) : t \in T}) \cup {e}
    <3>1. x \in renewable' <=> \E t \in Requests : Live(t)' /\ x = Entry(t)'
      BY DEF renewable
    <3>2. x \in renewable <=> \E t \in Requests : Live(t) /\ x = Entry(t)
      BY EntryFacts
    <3>3. ASSUME x \in renewable' PROVE x \in (renewable \ {Entry(t) : t \in T}) \cup {e}
      <4>1. PICK t \in Requests : Live(t)' /\ x = Entry(t)' BY <3>1, <3>3
      <4>2. CASE t = r BY <1>4, <4>1, <4>2
      <4>3. CASE t # r
        <5>1. Live(t) /\ t \notin T BY <1>10, <4>1, <4>3
        <5>2. x = Entry(t) BY <4>1, <5>1, EntryStays DEF Live
        <5>3. \A s \in T : Entry(s) # Entry(t) BY <5>1, EntryFacts
        <5> QED BY <3>2, <5>1, <5>2, <5>3
      <4> QED BY <4>2, <4>3
    <3>4. ASSUME x \in renewable, x \notin {Entry(t) : t \in T} PROVE x \in renewable'
      <4>1. PICK t \in Requests : Live(t) /\ x = Entry(t) BY <3>2, <3>4
      <4>2. t \notin T BY <3>4, <4>1
      <4>3. t # r BY <1>1, <4>1 DEF Live
      <4>4. Live(t)' BY <1>10, <4>1, <4>2, <4>3
      <4> QED BY <3>1, <4>1, <4>4, EntryStays DEF Live
    <3>5. e \in renewable' BY <1>4, <1>7 DEF renewable
    <3> QED BY <3>3, <3>4, <3>5
  <2> QED BY <2>1
<1>11. CASE Op(r) = "login"
  <2>1. NewToken(r).family = r BY <1>11 DEF NewToken
  <2>2. \A t \in Requests : tokens[t] # Null => tokens[t].family # r
    BY <1>1 DEF Rooted
  <2>3. \A f \in given : f.session # r
    BY <2>2, EntryFacts
  <2>4. \A t \in Requests \ {r} : Live(t)' <=> Live(t)
    BY <1>1, <1>11 DEF Live
  <2>5. renewable' = (renewable \ {Entry(t) : t \in {}}) \cup {e}
    BY <1>10, <2>4
  <2>6. renewable' = renewable \cup {e} BY <2>5
  <2>7. e = [id |-> r, session |-> r, user |-> NewToken(r).user]
    BY <1>2, <2>1
  <2>8. NewToken(r).user \in Requests BY <1>1 DEF TokenRows
  <2> QED BY <1>8, <1>9, <2>3, <2>6, <2>7, <2>8 DEF Sessions!Open
<1>12. CASE Op(r) = "refresh"
  <2>1. PICK q \in Requests : q = Target(r) /\ q # r /\ tokens[q] \in TokenRows
    BY <1>1, <1>12
  <2>2. tokens[q] # Null BY <2>1, NullAssumption
  <2>3. Entry(q) \in given BY <2>2, EntryFacts
  <2>4. NewToken(r).family = tokens[q].family /\ NewToken(r).user = tokens[q].user
    <3>1. local[r].user = tokens[q].user
      BY <1>1, <1>12, <2>1 DEF Base, DataOf
    <3> QED BY <1>12, <2>1, <3>1 DEF NewToken
  <2>5. ~ Live(q)'
    <3>1. tokens'[q] = Revoked(q) BY <1>1, <1>12, <2>1
    <3>2. Revoked(q).revoked BY <2>1, RevokedFacts
    <3> QED BY <3>1, <3>2 DEF Live
  <2>6. ASSUME NEW t \in Requests \ {r} PROVE Live(t)' <=> Live(t) /\ t \notin {q}
    <3>1. CASE t = q BY <2>5, <3>1
    <3>2. CASE t # q BY <1>1, <1>12, <2>1, <3>2 DEF Live
    <3> QED BY <3>1, <3>2
  <2>7. renewable' = (renewable \ {Entry(t) : t \in {q}}) \cup {e}
    BY <1>10, <2>2, <2>6
  <2>8. renewable' = (renewable \ {Entry(q)}) \cup {e} BY <2>7
  <2>9. e = [Entry(q) EXCEPT !.id = r]
    BY <1>2, <2>4 DEF Entry
  <2>10. Sessions!Renew(Entry(q), r)
    BY <1>8, <1>9, <2>8, <2>9 DEF Sessions!Renew
  <2> QED BY <2>3, <2>10
<1> QED BY <1>11, <1>12

LEMMA SessionStep ==
  ASSUME Base, FamilyInv, Rooted, [Next]_vars
  PROVE  [Sessions!Next]_<<renewable, given>>
<1>1. CASE UNCHANGED tokens
  BY <1>1 DEF renewable, given, Entry, Live
<1>2. ASSUME NEW r \in Requests, Commit(r) PROVE [Sessions!Next]_<<renewable, given>>
  <2>1. CASE Op(r) \in {"login", "refresh"}
    BY <1>2, <2>1, InsertIsOpenOrRenew DEF Sessions!Next
  <2>2. CASE Op(r) = "logout"
    <3>1. PICK q \in Requests : q = Target(r) /\ tokens[q] \in TokenRows
      BY <1>2, <2>2, CommitTables
    <3>2. /\ tokens'[q] = Revoked(q) /\ Revoked(q) \in TokenRows
          /\ \A t \in Requests \ {q} : tokens'[t] = tokens[t]
      BY <1>2, <2>2, <3>1, CommitTables, RevokedFacts
    <3>3. Revoked(q).revoked BY <3>1, RevokedFacts
    <3>4. ~ Live(q)' BY <3>2, <3>3 DEF Live
    <3>5. ASSUME NEW t \in Requests
          PROVE  /\ Live(t)' <=> Live(t) /\ t \notin {s \in {q} : Live(s)}
                 /\ tokens'[t] # Null <=> tokens[t] # Null
      <4>1. CASE t = q BY <3>1, <3>2, <3>4, <4>1, NullAssumption
      <4>2. CASE t # q BY <3>2, <4>2 DEF Live
      <4> QED BY <4>1, <4>2
    <3>6. tokens[q].family \in Requests BY <3>1 DEF TokenRows
    <3>7. \E s \in Requests : \E C \in SUBSET renewable : Sessions!Close(s, C)
      BY <3>5, <3>6, RevokeIsClose
    <3> QED BY <3>7 DEF Sessions!Next
  <2>3. CASE Op(r) \in {"admin", "user"}
    <3>1. \A t \in Requests : tokens'[t] = tokens[t] BY <1>2, <2>3, CommitTables
    <3>2. UNCHANGED tokens BY <3>1, TablesGrow DEF Base, TypeOK
    <3> QED BY <1>1, <3>2
  <2> QED BY <1>2, <2>1, <2>2, <2>3, CommitTables
<1>3. ASSUME NEW r \in Requests, CloseFamily(r) PROVE [Sessions!Next]_<<renewable, given>>
  <2>1. /\ pc[r] = "lock" /\ Op(r) = "refresh"
        /\ \A t \in Requests : tokens'[t] =
              IF t \in local[r].seen /\ Live(t) THEN Revoked(t) ELSE tokens[t]
    BY <1>3, CloseTables
  <2>2. Target(r) \in Requests /\ tokens[Target(r)] # Null
    BY <2>1, CallFacts DEF Base, ControlOf, DataOf, PastFind
  <2>3. PICK f \in Requests : f = tokens[Target(r)].family
    BY <2>2 DEF Base, TypeOK, TokenRows
  <2>4. local[r].seen \subseteq Requests BY DEF Base, TypeOK, Memory
  <2>5. \A t \in local[r].seen : tokens[t] # Null /\ tokens[t].family = f
    BY <2>1, <2>3 DEF FamilyInv
  <2>6. ASSUME NEW t \in Requests
        PROVE  /\ Live(t)' <=> Live(t) /\ t \notin {s \in local[r].seen : Live(s)}
               /\ tokens'[t] # Null <=> tokens[t] # Null
    <3>1. CASE t \in local[r].seen /\ Live(t)
      <4>1. tokens[t] \in TokenRows BY <3>1 DEF Base, TypeOK, Live
      <4>2. tokens'[t] = Revoked(t) /\ Revoked(t) \in TokenRows
        BY <2>1, <3>1, <4>1, RevokedFacts
      <4>3. Revoked(t).revoked BY <4>1, RevokedFacts
      <4>4. ~ Live(t)' BY <4>2, <4>3 DEF Live
      <4> QED BY <3>1, <4>1, <4>2, <4>4, NullAssumption
    <3>2. CASE ~ (t \in local[r].seen /\ Live(t))
      BY <2>1, <3>2 DEF Live
    <3> QED BY <3>1, <3>2
  <2>7. \E s \in Requests : \E C \in SUBSET renewable : Sessions!Close(s, C)
    BY <2>4, <2>5, <2>6, RevokeIsClose
  <2> QED BY <2>7 DEF Sessions!Next
<1> QED BY <1>1, <1>2, <1>3, NextCases, ArriveFrame, MoveFrame DEF Tick, tables, vars

\* Logging in, refreshing and logging out implement the ledger of sessions:
\* every commit opens, renews or closes a session, and touches no other.
THEOREM ServiceImplementsSessions == Spec => SessionSpec
<1>1. Init => Sessions!Init
  BY DEF Init, Sessions!Init, renewable, given, Live
<1>2. Init => TreeInv
  BY DEF Init, TreeInv, Rooted, Childless
<1>3. Base /\ SessionInv /\ TreeInv /\ [Next]_vars => TreeInv'
  BY TreeNext DEF SessionInv
<1>4. Base /\ SessionInv /\ TreeInv /\ [Next]_vars => [Sessions!Next]_<<renewable, given>>
  BY SessionStep DEF SessionInv, TreeInv
<1> QED
  BY <1>1, <1>2, <1>3, <1>4, BaseInit, BaseNext, SessionInit, SessionNext, PTL
  DEF Spec, SessionSpec, Sessions!Spec

==============================================================================
