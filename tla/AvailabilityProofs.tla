-------------------------- MODULE AvailabilityProofs --------------------------
(***************************************************************************)
(* Proofs about AvailabilityService, for every set of organisations and    *)
(* requests and whatever administrators write.                             *)
(***************************************************************************)
EXTENDS AvailabilityService, TLAPS

Range == [start : Int, end : Int]
ExceptionRows == [org : Orgs, range : Range]

\* The requests whose write is committed, or that failed: they write no more.
Past(r) == pc[r] \in {"refresh", "ok", "error"}

-----------------------------------------------------------------------------
(***************************************************************************)
(* What the steps leave alone.                                             *)
(***************************************************************************)
LEMMA CallFacts ==
  ASSUME NEW c \in CallType
  PROVE  /\ c.op \in {"put", "post", "patch", "delete", "settings"} /\ c.org \in Orgs
         /\ c.op = "put" => c.grid \subseteq Rules
         /\ c.op \in {"post", "patch"} => c.new \in Range
         /\ c.op \in {"patch", "delete"} => c.target \in Requests
         /\ c.op = "patch" => c.sent \subseteq RangeFields
         /\ c.op = "settings" => c.new \in Settings /\ c.sent \subseteq SettingsFields
BY DEF CallType, Range

\* The steps that only move the request, and perhaps what it has read.
Moves(r) == FindRules(r) \/ LockRules(r) \/ ReadRow(r) \/ UpdateRow(r) \/ Refresh(r) \/ Fail(r)

LEMMA NextCases ==
  ASSUME [Next]_vars
  PROVE  \/ \E r \in Requests : Arrive(r) \/ Moves(r) \/ Commit(r)
         \/ UNCHANGED vars
BY DEF Next, Handle, AllAnswered, Moves

LEMMA ArriveFrame ==
  ASSUME NEW r \in Requests, Arrive(r)
  PROVE  /\ pc[r] = "idle"
         /\ UNCHANGED <<settings, rows, exceptions, seen, read>>
         /\ \E c \in Calls[r] :
              /\ call' = [call EXCEPT ![r] = c]
              /\ \/ Goto(r, "invalid")
                 \/ Acceptable(c) /\ c.op = "put" /\ Goto(r, "find")
                 \/ Acceptable(c) /\ c.op = "post" /\ Goto(r, "commit")
                 \/ c.op \notin {"put", "post"} /\ Goto(r, "read")
<1>1. PICK c \in Calls[r] :
        /\ call' = [call EXCEPT ![r] = c]
        /\ Goto(r, IF ~ Acceptable(c) THEN "invalid"
                   ELSE CASE c.op = "put" -> "find"
                          [] c.op = "post" -> "commit"
                          [] OTHER -> "read")
  BY DEF Arrive
<1>2. \/ Goto(r, "invalid")
      \/ Acceptable(c) /\ c.op = "put" /\ Goto(r, "find")
      \/ Acceptable(c) /\ c.op = "post" /\ Goto(r, "commit")
      \/ c.op \notin {"put", "post"} /\ Goto(r, "read")
  BY <1>1
<1> QED BY <1>1, <1>2 DEF Arrive

LEMMA MoveFrame ==
  ASSUME NEW r \in Requests, Moves(r)
  PROVE  /\ pc[r] \in Steps
         /\ UNCHANGED <<settings, rows, exceptions, call>>
         /\ \E step \in Steps \cup Answers : pc' = [pc EXCEPT ![r] = step]
         /\ \/ UNCHANGED <<seen, read>>
            \/ /\ FindRules(r) /\ UNCHANGED read
            \/ /\ ReadRow(r) /\ UNCHANGED seen
<1> USE DEF Goto, Steps, Answers
<1>1. CASE FindRules(r) BY <1>1 DEF FindRules
<1>2. CASE LockRules(r) BY <1>2 DEF LockRules
<1>3. CASE ReadRow(r) BY <1>3 DEF ReadRow
<1>4. CASE UpdateRow(r) BY <1>4 DEF UpdateRow
<1>5. CASE Refresh(r) BY <1>5 DEF Refresh
<1>6. CASE Fail(r) BY <1>6 DEF Fail
<1> QED BY <1>1, <1>2, <1>3, <1>4, <1>5, <1>6 DEF Moves

-----------------------------------------------------------------------------
(***************************************************************************)
(* Type correctness.                                                       *)
(***************************************************************************)
\* A request is at a statement of the handler it called, and what is refused
\* before any statement goes no further.
ControlOf(r) ==
  /\ pc[r] # "idle" => call[r] \in Calls[r]
  /\ pc[r] \in {"find", "lock"} => Op(r) = "put"
  /\ pc[r] \in {"read", "update"} => Op(r) \in {"patch", "delete", "settings"}
  /\ pc[r] \in {"find", "lock", "commit"} => Acceptable(call[r])
  /\ pc[r] \in {"update", "commit"} /\ Op(r) = "patch" => read[r] \in Range
  /\ pc[r] \in {"update", "commit"} /\ Op(r) = "settings" => read[r] \in Settings

\* An exception is the work of a POST that is done, and a request has found
\* its row before it writes it.
DataOf(r) ==
  /\ exceptions[r] # Null => Past(r) /\ Op(r) = "post" /\ exceptions[r].org = OrgFor(r)
  /\ pc[r] \in {"update", "commit", "refresh", "ok"} /\ Op(r) \in {"patch", "delete"}
       => Past(Target(r)) /\ Op(Target(r)) = "post"

\* The row a request has updated is its own until the commit, and the CHECK
\* it passed still holds then.
LockOf(r) ==
  pc[r] = "commit" =>
    /\ \A s \in Requests : ~ HoldsRow(s, r)
    /\ Op(r) = "patch" => exceptions[Target(r)] # Null /\ Sound(Written(r))

Base == TypeOK /\ \A r \in Requests : ControlOf(r) /\ DataOf(r) /\ LockOf(r)

LEMMA MergeRange ==
  ASSUME NEW old \in Range, NEW new \in Range, NEW sent
  PROVE  Merge(old, new, sent) \in Range
BY DEF Merge, Range

LEMMA MergeSettings ==
  ASSUME NEW old \in Settings, NEW new \in Settings, NEW sent
  PROVE  Merge(old, new, sent) \in Settings
BY DEF Merge, Settings

LEMMA CallIsKnown ==
  ASSUME Base, NEW r \in Requests, pc[r] # "idle"
  PROVE  call[r] \in Calls[r] /\ call[r] \in CallType
BY AvailabilityAssumption DEF Base, ControlOf

LEMMA WithRange ==
  ASSUME NEW row \in ExceptionRows, NEW range \in Range
  PROVE  [row EXCEPT !.range = range] = [org |-> row.org, range |-> range]
BY DEF ExceptionRows

\* What a PATCH of an exception that is about to commit writes.
LEMMA PatchedRow ==
  ASSUME Base, NEW r \in Requests, pc[r] = "commit", Op(r) = "patch"
  PROVE  /\ Target(r) \in Requests /\ Target(r) # r
         /\ exceptions[Target(r)] \in ExceptionRows
         /\ Written(r) \in Range /\ Sound(Written(r))
<1>1. call[r] \in CallType BY CallIsKnown
<1>2. Target(r) \in Requests /\ call[r].new \in Range
  BY <1>1, CallFacts DEF Op, Target
<1>3. exceptions[Target(r)] # Null /\ Sound(Written(r)) /\ Op(Target(r)) = "post"
  BY DEF Base, LockOf, DataOf
<1>4. exceptions[Target(r)] \in ExceptionRows
  BY <1>2, <1>3 DEF Base, TypeOK, ExceptionRows, Range
<1>5. RowOf(r) \in Range BY <1>4 DEF RowOf, ExceptionRows
<1>6. Written(r) \in Range BY <1>2, <1>5, MergeRange DEF Written
<1> QED BY <1>2, <1>3, <1>4, <1>6

LEMMA CommitFrame ==
  ASSUME Base, NEW r \in Requests, Commit(r)
  PROVE  /\ pc[r] = "commit" /\ UNCHANGED <<call, seen, read>>
         /\ \E step \in {"ok", "refresh"} : pc' = [pc EXCEPT ![r] = step]
         /\ rows' = IF Op(r) = "put" THEN (rows \ seen[r]) \cup Inserted(r) ELSE rows
         /\ \A o \in Orgs : settings'[o] =
              IF Op(r) = "settings" /\ o = OrgFor(r) THEN Written(r) ELSE settings[o]
         /\ \A t \in Requests : exceptions'[t] =
              IF Op(r) = "post" /\ t = r THEN [org |-> OrgFor(r), range |-> call[r].new]
              ELSE IF Op(r) = "patch" /\ t = Target(r)
                THEN [org |-> exceptions[t].org, range |-> Written(r)]
              ELSE IF Op(r) = "delete" /\ t = Target(r) THEN Null
              ELSE exceptions[t]
<1> USE DEF Goto
<1>1. /\ pc[r] = "commit" /\ UNCHANGED <<call, seen, read>>
      /\ \E step \in {"ok", "refresh"} : pc' = [pc EXCEPT ![r] = step]
  BY DEF Commit
<1>2. TypeOK BY DEF Base
<1>3. CASE Op(r) = "put" BY <1>1, <1>3 DEF Commit
<1>4. CASE Op(r) = "post" BY <1>1, <1>2, <1>4 DEF Commit, TypeOK
<1>5. CASE Op(r) = "patch"
  <2>1. exceptions' = [exceptions EXCEPT ![Target(r)] =
                         [exceptions[Target(r)] EXCEPT !.range = Written(r)]]
    BY <1>5 DEF Commit
  <2>2. [exceptions[Target(r)] EXCEPT !.range = Written(r)]
          = [org |-> exceptions[Target(r)].org, range |-> Written(r)]
    BY <1>1, <1>5, PatchedRow, WithRange
  <2> QED BY <1>1, <1>2, <1>5, <2>1, <2>2 DEF Commit, TypeOK
<1>6. CASE Op(r) = "delete" BY <1>1, <1>2, <1>6 DEF Commit, TypeOK
<1>7. CASE Op(r) = "settings" BY <1>1, <1>2, <1>7 DEF Commit, TypeOK
<1>8. Op(r) \in {"put", "post", "patch", "delete", "settings"}
  BY <1>1, CallIsKnown, CallFacts DEF Op
<1> QED BY <1>3, <1>4, <1>5, <1>6, <1>7, <1>8

\* A call is made once, and who has written writes no more.
LEMMA PastStays ==
  ASSUME Base, [Next]_vars, NEW t \in Requests
  PROVE  /\ pc[t] # "idle" => pc'[t] # "idle" /\ call'[t] = call[t]
         /\ Past(t) => pc'[t] \in {"refresh", "ok", "error"}
<1> USE DEF Base, TypeOK, Past
<1>1. ASSUME NEW r \in Requests, Arrive(r)
      PROVE  /\ pc[t] # "idle" => pc'[t] # "idle" /\ call'[t] = call[t]
             /\ Past(t) => pc'[t] \in {"refresh", "ok", "error"}
  BY <1>1, ArriveFrame DEF Goto
<1>2. ASSUME NEW r \in Requests, Moves(r)
      PROVE  /\ pc[t] # "idle" => pc'[t] # "idle" /\ call'[t] = call[t]
             /\ Past(t) => pc'[t] \in {"refresh", "ok", "error"}
  <2>1. CASE t # r BY <1>2, <2>1, MoveFrame
  <2>2. CASE t = r
    <3>1. pc'[r] # "idle" /\ call' = call BY <1>2, MoveFrame DEF Steps, Answers
    <3>2. Past(r) => pc'[r] \in {"refresh", "ok", "error"}
      BY <1>2 DEF Moves, FindRules, LockRules, ReadRow, UpdateRow, Refresh, Fail, Goto, Steps
    <3> QED BY <2>2, <3>1, <3>2
  <2> QED BY <2>1, <2>2
<1>3. ASSUME NEW r \in Requests, Commit(r)
      PROVE  /\ pc[t] # "idle" => pc'[t] # "idle" /\ call'[t] = call[t]
             /\ Past(t) => pc'[t] \in {"refresh", "ok", "error"}
  BY <1>3, CommitFrame
<1>4. CASE UNCHANGED vars BY <1>4 DEF vars
<1> QED BY <1>1, <1>2, <1>3, <1>4, NextCases

\* Two requests that are about to commit stand in each other's way alike.
LEMMA HoldsIsSymmetric ==
  ASSUME NEW r, NEW s, HoldsRow(s, r), pc[r] = "commit"
  PROVE  HoldsRow(r, s)
BY DEF HoldsRow

LEMMA InsertedRows ==
  ASSUME NEW r \in Requests, call[r] \in CallType, Op(r) = "put"
  PROVE  Inserted(r) \subseteq RuleRows
BY CallFacts DEF Inserted, RuleRows, Op, OrgFor

LEMMA CommitTypes ==
  ASSUME Base, NEW r \in Requests, Commit(r)
  PROVE  TypeOK'
<1>1. /\ call[r] \in CallType /\ pc[r] = "commit"
      /\ Op(r) \in {"put", "post", "patch", "delete", "settings"} /\ OrgFor(r) \in Orgs
  BY CallIsKnown, CommitFrame, CallFacts DEF Op, OrgFor
<1>2. TypeOK /\ ControlOf(r) BY DEF Base
<1>3. rows' \subseteq RuleRows
  BY <1>1, <1>2, CommitFrame, InsertedRows DEF TypeOK
<1>4. exceptions' \in [Requests -> ExceptionRows \cup {Null}]
  <2>1. DOMAIN exceptions' = Requests /\ exceptions' = [t \in Requests |-> exceptions'[t]]
    BY <1>2 DEF Commit, TypeOK
  <2>2. ASSUME NEW t \in Requests PROVE exceptions'[t] \in ExceptionRows \cup {Null}
    <3>1. exceptions[t] \in ExceptionRows \cup {Null}
      BY <1>2 DEF TypeOK, ExceptionRows, Range
    <3>2. Op(r) = "post" => [org |-> OrgFor(r), range |-> call[r].new] \in ExceptionRows
      BY <1>1, CallFacts DEF ExceptionRows, Op
    <3>3. Op(r) = "patch" /\ t = Target(r) =>
            [org |-> exceptions[t].org, range |-> Written(r)] \in ExceptionRows
      <4>1. Op(r) = "patch" => exceptions[Target(r)] \in ExceptionRows /\ Written(r) \in Range
        BY <1>1, PatchedRow
      <4> QED BY <4>1 DEF ExceptionRows
    <3> QED BY <3>1, <3>2, <3>3, CommitFrame
  <2> QED BY <2>1, <2>2
<1>5. settings' \in [Orgs -> Settings]
  <2>1. settings' = [o \in Orgs |-> settings'[o]]
    BY <1>2 DEF Commit, TypeOK
  <2>2. Op(r) = "settings" => Written(r) \in Settings
    BY <1>1, <1>2, CallFacts, MergeSettings DEF Written, RowOf, TypeOK, Op
  <2> QED BY <1>2, <2>1, <2>2, CommitFrame DEF TypeOK
<1> QED BY <1>2, <1>3, <1>4, <1>5, CommitFrame
        DEF TypeOK, ExceptionRows, Range, Answers, Steps

LEMMA MoveTypes ==
  ASSUME Base, NEW r \in Requests, Moves(r)
  PROVE  TypeOK'
<1> USE DEF Base, TypeOK
<1>1. seen' \in [Requests -> SUBSET RuleRows]
  <2>1. CASE FindRules(r) BY <2>1 DEF FindRules
  <2>2. CASE UNCHANGED seen BY <2>2
  <2> QED BY <2>1, <2>2, MoveFrame
<1>2. read' \in [Requests -> Settings \cup [start : Int, end : Int] \cup {Null}]
  <2>1. CASE ReadRow(r)
    <3>1. CASE UNCHANGED read BY <3>1
    <3>2. CASE Found(r) /\ Op(r) # "delete" /\ read' = [read EXCEPT ![r] = RowOf(r)]
      <4>1. /\ Op(r) \in {"patch", "settings"} /\ call[r] \in CallType /\ OrgFor(r) \in Orgs
            /\ Op(r) = "patch" => Target(r) \in Requests
        BY <2>1, <3>2, CallIsKnown, CallFacts DEF ReadRow, ControlOf, Op, OrgFor, Target
      <4>2. RowOf(r) \in Settings \cup [start : Int, end : Int]
        BY <3>2, <4>1 DEF RowOf, Found
      <4> QED BY <3>2, <4>2
    <3> QED BY <2>1, <3>1, <3>2 DEF ReadRow
  <2>2. CASE UNCHANGED read BY <2>2
  <2> QED BY <2>1, <2>2, MoveFrame
<1> QED BY <1>1, <1>2, MoveFrame

\* What a statement leaves behind for its own request.
LEMMA MoveOwn ==
  ASSUME Base, NEW r \in Requests, Moves(r)
  PROVE  ControlOf(r)' /\ DataOf(r)' /\ LockOf(r)'
<1>0. /\ pc[r] \in Steps /\ call[r] \in CallType /\ call[r] \in Calls[r]
      /\ UNCHANGED <<settings, rows, exceptions, call>>
      /\ Op(r) \in {"put", "post", "patch", "delete", "settings"}
  BY MoveFrame, CallIsKnown, CallFacts DEF Steps, Op
<1>1. TypeOK /\ ControlOf(r) /\ DataOf(r) /\ LockOf(r) BY DEF Base
<1>2. /\ exceptions[r] # Null => Past(r)' /\ Op(r)' = "post" /\ exceptions'[r].org = OrgFor(r)'
      /\ \A t \in Requests : Past(t) => pc'[t] \in {"refresh", "ok", "error"}
  BY <1>0, <1>1, PastStays DEF DataOf, Past, Op, OrgFor, Next, Moves, Handle
<1>3. CASE FindRules(r)
  BY <1>0, <1>1, <1>2, <1>3
     DEF FindRules, Goto, ControlOf, DataOf, LockOf, Op, OrgFor, Target, TypeOK
<1>4. CASE LockRules(r)
  BY <1>0, <1>1, <1>2, <1>4
     DEF LockRules, Goto, ControlOf, DataOf, LockOf, Op, OrgFor, Target, TypeOK, HoldsRow
<1>5. CASE ReadRow(r)
  <2>1. /\ pc[r] = "read" /\ Op(r) \in {"patch", "delete", "settings"}
        /\ UNCHANGED seen
    BY <1>1, <1>5 DEF ReadRow, ControlOf
  <2>2. Op(r) \in {"patch", "delete"} => Target(r) \in Requests
    BY <1>0, CallFacts DEF Op, Target
  <2>3. CASE Goto(r, "notfound") \/ Goto(r, "invalid")
    BY <1>0, <1>1, <1>2, <2>1, <2>3
       DEF Goto, ControlOf, DataOf, LockOf, Op, OrgFor, Target, TypeOK
  <2>4. CASE Found(r) /\ (Goto(r, "update") \/ Goto(r, "refresh"))
    <3>1. Op(r) \in {"patch", "delete"} =>
            /\ pc'[Target(r)] \in {"refresh", "ok", "error"} /\ call'[Target(r)].op = "post"
            /\ exceptions[Target(r)] \in ExceptionRows
      BY <1>0, <1>1, <1>2, <2>1, <2>2, <2>4
         DEF Found, Base, DataOf, Op, TypeOK, ExceptionRows, Range
    <3>2. /\ pc'[r] \in {"update", "refresh"} /\ call'[r] \in Calls[r] /\ Op(r)' = Op(r)
          /\ Target(r)' = Target(r)
      BY <1>0, <1>1, <2>4 DEF Goto, TypeOK, Op, Target
    <3>3. /\ Op(r) = "patch" => read'[r] \in Range
          /\ Op(r) = "settings" => read'[r] \in Settings
      <4>1. Op(r) # "delete" => read'[r] = RowOf(r)
        BY <1>1, <1>5, <2>4, <2>1 DEF ReadRow, TypeOK, Goto
      <4>2. OrgFor(r) \in Orgs BY <1>0, CallFacts DEF OrgFor
      <4> QED BY <1>1, <3>1, <4>1, <4>2 DEF RowOf, TypeOK, ExceptionRows
    <3> QED BY <1>0, <1>2, <2>1, <3>1, <3>2, <3>3
            DEF ControlOf, DataOf, LockOf, Past, Op, Target
  <2> QED BY <1>5, <2>3, <2>4 DEF ReadRow
<1>6. CASE UpdateRow(r)
  <2>1. /\ pc[r] = "update" /\ UNCHANGED <<seen, read>>
        /\ \A s \in Requests : ~ HoldsRow(s, r)
        /\ Op(r) \in {"patch", "delete", "settings"}
    BY <1>1, <1>6 DEF UpdateRow, ControlOf
  <2>2. CASE Goto(r, "error")
    BY <1>0, <1>1, <1>2, <2>1, <2>2
       DEF Goto, ControlOf, DataOf, LockOf, Op, OrgFor, Target, TypeOK
  <2>3. CASE /\ Goto(r, "commit")
             /\ Op(r) = "patch" => exceptions[Target(r)] # Null /\ CheckHolds(r)
    <3>1. pc' = [pc EXCEPT ![r] = "commit"] /\ pc'[r] = "commit"
      BY <1>1, <2>3 DEF Goto, TypeOK
    <3>2. ControlOf(r)'
      BY <1>0, <1>1, <2>1, <3>1 DEF ControlOf, Op, Acceptable
    <3>3. DataOf(r)'
      BY <1>0, <1>1, <1>2, <2>1, <3>1 DEF DataOf, Op, Target, Past
    <3>4. ASSUME NEW s \in Requests PROVE ~ HoldsRow(s, r)'
      BY <1>0, <1>1, <2>1, <3>1 DEF HoldsRow, TypeOK, Op, OrgFor, Target
    <3>5. Op(r)' = "patch" => exceptions'[Target(r)'] # Null /\ Sound(Written(r))'
      BY <1>0, <2>1, <2>3 DEF Op, Target, CheckHolds, Written, RowOf, OrgFor, Sound
    <3> QED BY <3>2, <3>3, <3>4, <3>5 DEF LockOf
  <2> QED BY <1>6, <2>2, <2>3 DEF UpdateRow
<1>7. CASE Refresh(r)
  BY <1>0, <1>1, <1>2, <1>7
     DEF Refresh, Goto, ControlOf, DataOf, LockOf, Past, Op, OrgFor, Target, TypeOK
<1>8. CASE Fail(r)
  BY <1>0, <1>1, <1>2, <1>8
     DEF Fail, Goto, ControlOf, DataOf, LockOf, Op, OrgFor, Target, TypeOK
<1> QED BY <1>3, <1>4, <1>5, <1>6, <1>7, <1>8 DEF Moves

\* What the statement of one request leaves of another.
LEMMA MoveOther ==
  ASSUME Base, NEW r \in Requests, Moves(r), NEW q \in Requests, q # r
  PROVE  ControlOf(q)' /\ DataOf(q)' /\ LockOf(q)'
<1>0. /\ UNCHANGED <<settings, rows, exceptions, call>> /\ pc'[q] = pc[q]
      /\ read'[q] = read[q]
      /\ \A s \in Requests : s # r => pc'[s] = pc[s]
      /\ \A t \in Requests : Past(t) => pc'[t] \in {"refresh", "ok", "error"}
  <2>1. read'[q] = read[q] BY MoveFrame DEF ReadRow, Base, TypeOK
  <2> QED BY <2>1, MoveFrame, PastStays DEF Base, TypeOK, Next, Moves, Handle
<1>1. TypeOK /\ ControlOf(q) /\ DataOf(q) /\ LockOf(q) BY DEF Base
<1>2. ControlOf(q)' BY <1>0, <1>1 DEF ControlOf, Op, Acceptable
<1>3. DataOf(q)'
  <2>1. pc[q] # "idle" => call[q] \in CallType BY CallIsKnown
  <2>2. pc[q] # "idle" /\ Op(q) \in {"patch", "delete"} => Target(q) \in Requests
    BY <2>1, CallFacts DEF Op, Target
  <2> QED BY <1>0, <1>1, <2>2 DEF DataOf, Past, Op, OrgFor, Target
<1>4. ASSUME pc[q] = "commit", NEW s \in Requests PROVE ~ HoldsRow(s, q)'
  <2>1. ~ HoldsRow(s, q) BY <1>1, <1>4 DEF LockOf
  <2>2. CASE s # r BY <1>0, <2>1, <2>2 DEF HoldsRow, Op, OrgFor, Target
  <2>3. CASE s = r
    <3>1. SUFFICES ASSUME pc'[r] = "commit" PROVE ~ HoldsRow(r, q)'
      BY <2>3 DEF HoldsRow
    <3>2. LockRules(r) \/ UpdateRow(r)
      BY <1>1, <3>1 DEF Moves, FindRules, ReadRow, Refresh, Fail, Goto, TypeOK
    <3>3. CASE LockRules(r)
      <4>1. Op(r) = "put" BY <3>3 DEF LockRules, Base, ControlOf
      <4> QED BY <1>0, <4>1 DEF HoldsRow, Op
    <3>4. CASE UpdateRow(r)
      <4>1. ~ HoldsRow(q, r) BY <3>4 DEF UpdateRow
      <4> QED BY <1>0, <1>4, <4>1 DEF HoldsRow, Op, OrgFor, Target
    <3> QED BY <3>2, <3>3, <3>4
  <2> QED BY <2>2, <2>3
<1>5. ASSUME pc[q] = "commit", Op(q) = "patch"
      PROVE  exceptions'[Target(q)'] # Null /\ Sound(Written(q))'
  BY <1>0, <1>1, <1>5 DEF LockOf, Op, Target, Written, RowOf, OrgFor, Sound
<1>6. LockOf(q)' BY <1>0, <1>4, <1>5 DEF LockOf, Op
<1> QED BY <1>2, <1>3, <1>6

LEMMA ArriveStep ==
  ASSUME Base, NEW r \in Requests, Arrive(r)
  PROVE  Base'
<1>1. TypeOK /\ \A q \in Requests : ControlOf(q) /\ DataOf(q) /\ LockOf(q) BY DEF Base
<1>2. /\ pc[r] = "idle"
      /\ UNCHANGED <<settings, rows, exceptions, seen, read>>
  BY ArriveFrame
<1>3. PICK c \in Calls[r] :
        /\ call' = [call EXCEPT ![r] = c]
        /\ \/ Goto(r, "invalid")
           \/ Acceptable(c) /\ c.op = "put" /\ Goto(r, "find")
           \/ Acceptable(c) /\ c.op = "post" /\ Goto(r, "commit")
           \/ c.op \notin {"put", "post"} /\ Goto(r, "read")
  BY ArriveFrame
<1>4. c \in CallType /\ c.op \in {"put", "post", "patch", "delete", "settings"}
  BY AvailabilityAssumption, CallFacts
<1>5. TypeOK'
  BY <1>1, <1>2, <1>3, <1>4 DEF TypeOK, Goto, Steps, Answers
<1>6. /\ call'[r] = c /\ pc'[r] \in {"invalid", "find", "commit", "read"}
      /\ pc'[r] = "find" => c.op = "put" /\ Acceptable(c)
      /\ pc'[r] = "commit" => c.op = "post" /\ Acceptable(c)
      /\ pc'[r] = "read" => c.op \notin {"put", "post"}
      /\ \A q \in Requests : q # r => call'[q] = call[q] /\ pc'[q] = pc[q]
  BY <1>1, <1>3 DEF TypeOK, Goto
<1>7. ControlOf(r)' /\ DataOf(r)' /\ LockOf(r)'
  BY <1>1, <1>2, <1>3, <1>4, <1>6 DEF ControlOf, DataOf, LockOf, Past, Op, Acceptable, HoldsRow
<1>8. ASSUME NEW q \in Requests, q # r PROVE ControlOf(q)' /\ DataOf(q)' /\ LockOf(q)'
  <2>1. pc'[q] = pc[q] /\ call'[q] = call[q] BY <1>6, <1>8
  <2>2. ControlOf(q)' BY <1>1, <1>2, <2>1 DEF ControlOf, Op, Acceptable
  <2>3. Past(r) = FALSE BY <1>2 DEF Past
  <2>4. DataOf(q)'
    <3>1. pc[q] # "idle" /\ Op(q) \in {"patch", "delete"} => Target(q) \in Requests
      BY CallIsKnown, CallFacts DEF Op, Target
    <3> QED BY <1>1, <1>2, <1>6, <2>1, <2>3, <3>1 DEF DataOf, Past, Op, OrgFor, Target
  <2>5. ASSUME pc[q] = "commit", NEW s \in Requests PROVE ~ HoldsRow(s, q)'
    <3>1. ~ HoldsRow(s, q) BY <1>1, <2>5 DEF LockOf
    <3> QED BY <1>6, <2>1, <3>1 DEF HoldsRow, Op, OrgFor, Target
  <2>6. ASSUME pc[q] = "commit", Op(q) = "patch"
        PROVE  exceptions'[Target(q)'] # Null /\ Sound(Written(q))'
    BY <1>1, <1>2, <2>1, <2>6 DEF LockOf, Op, Target, Written, RowOf, OrgFor, Sound
  <2> QED BY <2>1, <2>2, <2>4, <2>5, <2>6 DEF LockOf, Op
<1> QED BY <1>5, <1>7, <1>8 DEF Base

\* A commit changes no row that another request is about to write.
LEMMA RowStays ==
  ASSUME Base, NEW r \in Requests, Commit(r),
         NEW q \in Requests, q # r, pc[q] = "commit", Op(q) = "patch"
  PROVE  exceptions'[Target(q)] = exceptions[Target(q)]
<1>1. Target(q) \in Requests /\ Past(Target(q))
  BY CallIsKnown, CallFacts DEF Base, DataOf, Op, Target
<1>2. pc[r] = "commit" BY CommitFrame
<1>3. Target(q) # r BY <1>1, <1>2 DEF Past
<1>4. ~ HoldsRow(r, q) BY DEF Base, LockOf
<1>5. Op(r) \in {"patch", "delete"} => Target(r) # Target(q)
  BY <1>2, <1>4 DEF HoldsRow
<1> QED BY <1>1, <1>3, <1>5, CommitFrame

LEMMA CommitStep ==
  ASSUME Base, NEW r \in Requests, Commit(r)
  PROVE  Base'
<1>1. TypeOK /\ \A q \in Requests : ControlOf(q) /\ DataOf(q) /\ LockOf(q) BY DEF Base
<1>2. /\ pc[r] = "commit" /\ UNCHANGED <<call, seen, read>>
      /\ pc'[r] \in {"ok", "refresh"}
      /\ \A q \in Requests : q # r => pc'[q] = pc[q]
      /\ \A t \in Requests : Past(t) => pc'[t] \in {"refresh", "ok", "error"}
  BY <1>1, CommitFrame, PastStays DEF TypeOK, Next, Handle
<1>3. /\ call[r] \in CallType /\ call[r] \in Calls[r]
      /\ Op(r) \in {"patch", "delete"} => Target(r) \in Requests
  BY <1>2, CallIsKnown, CallFacts DEF Op, Target
<1>4. exceptions[r] = Null BY <1>1, <1>2 DEF DataOf, Past
<1>5. ASSUME NEW q \in Requests
      PROVE  exceptions'[q] # Null =>
               /\ pc'[q] \in {"refresh", "ok", "error"} /\ Op(q) = "post"
               /\ exceptions'[q].org = OrgFor(q)
  <2>1. Op(r) = "patch" => exceptions[Target(r)] # Null
    BY <1>2, <1>1 DEF LockOf
  <2>2. \/ exceptions'[q] = Null \/ exceptions'[q] = exceptions[q]
        \/ Op(r) = "post" /\ q = r /\ exceptions'[q].org = OrgFor(r)
        \/ Op(r) = "patch" /\ q = Target(r) /\ exceptions'[q].org = exceptions[q].org
    <3>1. \/ exceptions'[q] = Null \/ exceptions'[q] = exceptions[q]
          \/ /\ Op(r) = "post" /\ q = r
             /\ exceptions'[q] = [org |-> OrgFor(r), range |-> call[r].new]
          \/ /\ Op(r) = "patch" /\ q = Target(r)
             /\ exceptions'[q] = [org |-> exceptions[q].org, range |-> Written(r)]
      BY CommitFrame
    <3> QED BY <3>1
  <2>3. exceptions[q] # Null =>
          pc'[q] \in {"refresh", "ok", "error"} /\ Op(q) = "post" /\ exceptions[q].org = OrgFor(q)
    BY <1>1, <1>2 DEF DataOf
  <2> QED BY <1>2, <2>1, <2>2, <2>3
<1>6. ASSUME NEW q \in Requests PROVE ControlOf(q)'
  BY <1>1, <1>2, <1>3 DEF ControlOf, Op, Acceptable
<1>7. ASSUME NEW q \in Requests PROVE DataOf(q)'
  <2>1. pc[q] # "idle" /\ Op(q) \in {"patch", "delete"} => Target(q) \in Requests
    BY CallIsKnown, CallFacts DEF Op, Target
  <2>2. pc'[q] \in {"update", "commit", "refresh", "ok"}
          => pc[q] \in {"update", "commit", "refresh", "ok"}
    BY <1>2
  <2> QED BY <1>1, <1>2, <1>5, <2>1, <2>2 DEF DataOf, Past, Op, OrgFor, Target
<1>8. ASSUME NEW q \in Requests PROVE LockOf(q)'
  <2>1. SUFFICES ASSUME pc'[q] = "commit" PROVE LockOf(q)'
    BY DEF LockOf
  <2>2. q # r /\ pc[q] = "commit" BY <1>2, <2>1
  <2>3. ASSUME NEW s \in Requests PROVE ~ HoldsRow(s, q)'
    <3>1. ~ HoldsRow(s, q) BY <1>1, <2>2 DEF LockOf
    <3> QED BY <1>2, <3>1 DEF HoldsRow, Op, OrgFor, Target
  <2>4. ASSUME Op(q) = "patch" PROVE exceptions'[Target(q)'] # Null /\ Sound(Written(q))'
    <3>1. exceptions'[Target(q)] = exceptions[Target(q)]
      BY <2>2, <2>4, RowStays
    <3>2. exceptions[Target(q)] # Null /\ Sound(Written(q))
      BY <1>1, <2>2, <2>4 DEF LockOf
    <3>3. Written(q)' = Written(q)
      BY <1>2, <2>4, <3>1 DEF Written, RowOf, Op, Target, OrgFor
    <3> QED BY <1>2, <3>1, <3>2, <3>3 DEF Target, Sound
  <2> QED BY <1>2, <2>3, <2>4 DEF LockOf, Op
<1> QED BY <1>6, <1>7, <1>8, CommitTypes DEF Base

LEMMA BaseInit == Init => Base
BY AvailabilityAssumption
   DEF Init, Base, TypeOK, ControlOf, DataOf, LockOf, Past

LEMMA BaseStep == Base /\ [Next]_vars => Base'
<1> SUFFICES ASSUME Base, [Next]_vars PROVE Base' OBVIOUS
<1>1. ASSUME NEW r \in Requests, Moves(r) PROVE Base'
  BY <1>1, MoveTypes, MoveOwn, MoveOther DEF Base
<1>2. CASE UNCHANGED vars
  <2>1. TypeOK' BY <1>2 DEF Base, TypeOK, vars
  <2>2. ASSUME NEW r \in Requests PROVE ControlOf(r)' /\ DataOf(r)' /\ LockOf(r)'
    BY <1>2 DEF vars, Base, ControlOf, DataOf, LockOf, Past, HoldsRow, Written, RowOf,
                Op, OrgFor, Target, Acceptable, Sound
  <2> QED BY <2>1, <2>2 DEF Base
<1> QED BY <1>1, <1>2, ArriveStep, CommitStep, NextCases

THEOREM BaseAlways == Spec => []Base
BY BaseInit, BaseStep, PTL DEF Spec

\* Everything the model stores is what its tables and handlers admit.
THEOREM AvailabilityTypeCorrect == Spec => []TypeOK
<1>1. Base => TypeOK BY DEF Base
<1> QED BY <1>1, BaseAlways, PTL

-----------------------------------------------------------------------------
(***************************************************************************)
(* Ranges.                                                                 *)
(***************************************************************************)
LEMMA RangesStep == Base /\ RangesAreSound /\ [Next]_vars => RangesAreSound'
<1> SUFFICES ASSUME Base, RangesAreSound, [Next]_vars PROVE RangesAreSound' OBVIOUS
<1>1. CASE UNCHANGED exceptions BY <1>1 DEF RangesAreSound
<1>2. ASSUME NEW r \in Requests, Commit(r), NEW t \in Requests, exceptions'[t] # Null
      PROVE  Sound(exceptions'[t].range)
  <2>1. /\ pc[r] = "commit"
        /\ \/ exceptions'[t] = exceptions[t]
           \/ /\ Op(r) = "post"
              /\ exceptions'[t] = [org |-> OrgFor(r), range |-> call[r].new]
           \/ /\ Op(r) = "patch"
              /\ exceptions'[t] = [org |-> exceptions[t].org, range |-> Written(r)]
    BY <1>2, CommitFrame
  <2>2. Op(r) = "post" => Sound(call[r].new)
    BY <2>1 DEF Base, ControlOf, Acceptable, Op
  <2>3. Op(r) = "patch" => Sound(Written(r))
    BY <2>1, PatchedRow
  <2>4. exceptions'[t] = exceptions[t] => Sound(exceptions'[t].range)
    BY <1>2 DEF RangesAreSound
  <2> QED BY <2>1, <2>2, <2>3, <2>4
<1>3. ASSUME NEW r \in Requests, Commit(r) PROVE RangesAreSound'
  BY <1>2, <1>3 DEF RangesAreSound, Sound
<1> QED BY <1>1, <1>3, NextCases, ArriveFrame, MoveFrame DEF vars

\* However PATCHes of an exception and its DELETE race, it ends after it starts.
THEOREM ExceptionsAreRanges == Spec => []RangesAreSound
<1>1. Init => RangesAreSound BY DEF Init, RangesAreSound
<1> QED BY <1>1, RangesStep, BaseAlways, PTL DEF Spec

\* A deleted exception never comes back: the row that a PATCH has updated is
\* locked and still there when it commits, and every POST makes a new one.
THEOREM DeletedExceptionsStayDeleted == Spec => DeletedStayDeleted
<1>1. Base /\ [Next]_vars =>
        [\A r \in Requests : exceptions[r] = Null /\ exceptions'[r] # Null
           => pc[r] = "commit" /\ Op(r) = "post"]_vars
  <2> SUFFICES ASSUME Base, [Next]_vars, NEW r \in Requests,
                      exceptions[r] = Null, exceptions'[r] # Null
               PROVE  pc[r] = "commit" /\ Op(r) = "post"
    OBVIOUS
  <2>1. PICK s \in Requests : Commit(s)
    BY NextCases, ArriveFrame, MoveFrame DEF vars
  <2>2. pc[s] = "commit" /\ (Op(s) = "patch" => exceptions[Target(s)] # Null)
    BY <2>1, CommitFrame DEF Base, LockOf
  <2> QED BY <2>1, <2>2, CommitFrame
<1> QED BY <1>1, BaseAlways, PTL DEF Spec, DeletedStayDeleted

-----------------------------------------------------------------------------
(***************************************************************************)
(* Grids.                                                                  *)
(***************************************************************************)
\* The rows of S were inserted by PUTs that are done, and for each of them S
\* has all it inserted.
MadeOfGrids(S) ==
  \A row \in S : /\ row.put \in Requests /\ Past(row.put) /\ Op(row.put) = "put"
                 /\ row \in Inserted(row.put) /\ Inserted(row.put) \subseteq S

\* What a DELETE found are the rules of its organisation, grid by grid.
GridInv ==
  /\ MadeOfGrids(rows)
  /\ \A r \in Requests : /\ MadeOfGrids(seen[r])
                         /\ \A row \in seen[r] : pc[r] # "idle" /\ row.org = OrgFor(r)

\* Grids stay whole while nothing is added and nothing taken away.
LEMMA GridsStay ==
  ASSUME Base, [Next]_vars, NEW S, MadeOfGrids(S)
  PROVE  MadeOfGrids(S)'
<1>1. ASSUME NEW row \in S
      PROVE  /\ row.put \in Requests /\ Past(row.put)' /\ Op(row.put)' = "put"
             /\ row \in Inserted(row.put)' /\ Inserted(row.put)' \subseteq S
  <2>1. /\ row.put \in Requests /\ Past(row.put) /\ Op(row.put) = "put"
        /\ row \in Inserted(row.put) /\ Inserted(row.put) \subseteq S
    BY <1>1 DEF MadeOfGrids
  <2>2. pc'[row.put] \in {"refresh", "ok", "error"} /\ call'[row.put] = call[row.put]
    BY <2>1, PastStays DEF Past
  <2> QED BY <2>1, <2>2 DEF Past, Op, Inserted, OrgFor
<1> QED BY <1>1 DEF MadeOfGrids

LEMMA InsertedFields ==
  ASSUME NEW r, NEW row \in Inserted(r)
  PROVE  row.put = r /\ row.org = OrgFor(r) /\ row.rule \in call[r].grid
BY DEF Inserted

LEMMA FindRulesGrids ==
  ASSUME Base, GridInv, NEW r \in Requests, FindRules(r)
  PROVE  /\ MadeOfGrids(seen'[r])
         /\ \A row \in seen'[r] : row.org = OrgFor(r)
<1>1. seen'[r] = {row \in rows : row.org = OrgFor(r)}
  BY DEF FindRules, Base, TypeOK
<1>2. ASSUME NEW row \in seen'[r], NEW other \in Inserted(row.put) PROVE other \in seen'[r]
  <2>1. row \in rows /\ row.org = OrgFor(r) /\ row \in Inserted(row.put) /\ other \in rows
    BY <1>1, <1>2 DEF GridInv, MadeOfGrids
  <2>2. other.org = row.org BY <1>2, <2>1, InsertedFields
  <2> QED BY <1>1, <2>1, <2>2
<1> QED BY <1>1, <1>2 DEF GridInv, MadeOfGrids

\* A PUT takes grids away and adds one.
LEMMA CommitGrids ==
  ASSUME Base, GridInv, NEW r \in Requests, Commit(r)
  PROVE  MadeOfGrids(rows)'
<1>1. /\ pc[r] = "commit" /\ UNCHANGED <<call, seen>>
      /\ rows' = IF Op(r) = "put" THEN (rows \ seen[r]) \cup Inserted(r) ELSE rows
      /\ pc'[r] \in {"ok", "refresh"}
  BY CommitFrame DEF Base, TypeOK
<1>2. [Next]_vars BY DEF Next, Handle
<1>3. MadeOfGrids(rows) /\ MadeOfGrids(seen[r]) BY DEF GridInv
<1>4. CASE Op(r) # "put"
  <2>1. PICK S : S = rows OBVIOUS
  <2>2. MadeOfGrids(S)' BY <1>2, <1>3, <2>1, GridsStay
  <2> QED BY <1>1, <1>4, <2>1, <2>2 DEF MadeOfGrids
<1>5. CASE Op(r) = "put"
  <2>1. ASSUME NEW row \in rows, row \notin seen[r]
        PROVE  /\ row.put \in Requests /\ Past(row.put)' /\ Op(row.put)' = "put"
               /\ row \in Inserted(row.put)' /\ Inserted(row.put)' \subseteq rows'
    <3>1. /\ row.put \in Requests /\ Past(row.put) /\ Op(row.put) = "put"
          /\ row \in Inserted(row.put) /\ Inserted(row.put) \subseteq rows
      BY <1>3, <2>1 DEF MadeOfGrids
    <3>2. ASSUME NEW other \in Inserted(row.put) PROVE other \notin seen[r]
      <4>1. other.put = row.put BY <3>2, InsertedFields
      <4> QED BY <1>3, <2>1, <3>1, <4>1 DEF MadeOfGrids
    <3>3. pc'[row.put] \in {"refresh", "ok", "error"}
      BY <1>2, <3>1, PastStays
    <3> QED BY <1>1, <1>5, <3>1, <3>2, <3>3 DEF Past, Op, Inserted, OrgFor
  <2>2. ASSUME NEW row \in Inserted(r)
        PROVE  /\ row.put \in Requests /\ Past(row.put)' /\ Op(row.put)' = "put"
               /\ row \in Inserted(row.put)' /\ Inserted(row.put)' \subseteq rows'
    <3>1. row.put = r BY <2>2, InsertedFields
    <3> QED BY <1>1, <1>5, <2>2, <3>1 DEF Past, Op, Inserted, OrgFor
  <2> QED BY <1>1, <1>5, <2>1, <2>2 DEF MadeOfGrids
<1> QED BY <1>4, <1>5

LEMMA GridStep == Base /\ GridInv /\ [Next]_vars => GridInv'
<1> SUFFICES ASSUME Base, GridInv, [Next]_vars PROVE GridInv' OBVIOUS
<1>1. MadeOfGrids(rows)'
  <2>1. CASE UNCHANGED rows
    <3>1. PICK S : S = rows OBVIOUS
    <3>2. MadeOfGrids(S)' BY <3>1, GridsStay DEF GridInv
    <3> QED BY <2>1, <3>1, <3>2 DEF MadeOfGrids
  <2> QED BY <2>1, CommitGrids, NextCases, ArriveFrame, MoveFrame DEF vars
<1>2. ASSUME NEW q \in Requests
      PROVE  /\ MadeOfGrids(seen[q])'
             /\ \A row \in seen'[q] : pc'[q] # "idle" /\ row.org = OrgFor(q)'
  <2>1. CASE seen'[q] = seen[q]
    <3>1. PICK S : S = seen[q] OBVIOUS
    <3>2. MadeOfGrids(S)' BY <3>1, GridsStay DEF GridInv
    <3>3. ASSUME NEW row \in seen[q] PROVE pc'[q] # "idle" /\ row.org = OrgFor(q)'
      BY <3>3, PastStays DEF GridInv, OrgFor
    <3> QED BY <2>1, <3>1, <3>2, <3>3 DEF MadeOfGrids
  <2>2. CASE FindRules(q)
    <3>1. PICK S : S = seen'[q] OBVIOUS
    <3>2. MadeOfGrids(S) BY <2>2, <3>1, FindRulesGrids
    <3>3. MadeOfGrids(S)' BY <3>2, GridsStay
    <3>4. ASSUME NEW row \in seen'[q] PROVE pc'[q] # "idle" /\ row.org = OrgFor(q)'
      <4>1. row.org = OrgFor(q) BY <2>2, <3>4, FindRulesGrids
      <4> QED BY <2>2, <4>1 DEF FindRules, Goto, OrgFor, Base, TypeOK
    <3> QED BY <3>1, <3>3, <3>4 DEF MadeOfGrids
  <2>3. seen'[q] = seen[q] \/ FindRules(q)
    <3>1. ASSUME NEW r \in Requests, FindRules(r) PROVE q # r => seen'[q] = seen[q]
      BY <3>1 DEF FindRules, Base, TypeOK
    <3>2. ASSUME NEW r \in Requests, Moves(r) PROVE seen' = seen \/ FindRules(r)
      BY <3>2, MoveFrame
    <3>3. ASSUME NEW r \in Requests, Arrive(r) \/ Commit(r) PROVE seen' = seen
      BY <3>3, ArriveFrame, CommitFrame
    <3> QED BY <3>1, <3>2, <3>3, NextCases DEF vars
  <2> QED BY <2>1, <2>2, <2>3
<1> QED BY <1>1, <1>2 DEF GridInv

LEMMA GridsAlways == Spec => []GridInv
<1>1. Init => GridInv BY DEF Init, GridInv, MadeOfGrids
<1> QED BY <1>1, GridStep, BaseAlways, PTL DEF Spec

\* Of a grid that was put, all rules are in force or none.
THEOREM GridsStayWhole == Spec => []GridsAreWhole
<1>1. GridInv => GridsAreWhole BY DEF GridInv, MadeOfGrids, GridsAreWhole
<1> QED BY <1>1, GridsAlways, PTL

-----------------------------------------------------------------------------
(***************************************************************************)
(* Duplicate slots.  A grid that was put has no overlapping rules, so two  *)
(* rules that overlap come from two PUTs; and as a PUT deletes what its    *)
(* snapshot showed, two PUTs of one organisation leave both grids only     *)
(* when each took its snapshot before the other's commit.                  *)
(***************************************************************************)
\* r has taken the snapshot of its DELETE, and not committed.
Replacing(r) == pc[r] \in {"lock", "commit"} /\ Op(r) = "put"

\* The PUTs of an organisation run one after the other.
PutsInTurn ==
  \A r, s \in Requests :
    r # s /\ Replacing(r) /\ Replacing(s) => OrgFor(r) # OrgFor(s)

\* What a PUT is about to delete is all there is.
SnapshotInv ==
  \A r \in Requests : Replacing(r) => seen[r] = {row \in rows : row.org = OrgFor(r)}

LEMMA GridsAreWellFormed ==
  ASSUME Base, NEW r \in Requests, Replacing(r)
  PROVE  WellFormed(call[r].grid)
BY DEF Base, ControlOf, Acceptable, Replacing, Op

\* The rules of an organisation after the commit of a PUT.
LEMMA RowsAfterPut ==
  ASSUME Base, GridInv, SnapshotInv, NEW r \in Requests, Commit(r), Op(r) = "put"
  PROVE  /\ \A row \in rows' : row.org = OrgFor(r) => row \in Inserted(r)
         /\ \A o : o # OrgFor(r) => {row \in rows' : row.org = o} = {row \in rows : row.org = o}
<1>1. pc[r] = "commit" /\ rows' = (rows \ seen[r]) \cup Inserted(r) BY CommitFrame
<1>2. \A row \in seen[r] : row.org = OrgFor(r) BY DEF GridInv
<1>3. seen[r] = {row \in rows : row.org = OrgFor(r)} BY <1>1 DEF SnapshotInv, Replacing
<1>4. \A row \in Inserted(r) : row.org = OrgFor(r) BY InsertedFields
<1> QED BY <1>1, <1>2, <1>3, <1>4

LEMMA SnapshotStep ==
  Base /\ GridInv /\ SnapshotInv /\ PutsInTurn /\ [Next]_vars => SnapshotInv'
<1> SUFFICES ASSUME Base, GridInv, SnapshotInv, PutsInTurn, [Next]_vars,
                    NEW q \in Requests, Replacing(q)'
             PROVE  seen'[q] = {row \in rows' : row.org = OrgFor(q)'}
  BY DEF SnapshotInv
<1> USE DEF Replacing
<1>1. ASSUME NEW r \in Requests, Arrive(r)
      PROVE  Replacing(q) /\ UNCHANGED <<seen, rows, call[q]>>
  <2>1. PICK c \in Calls[r] :
          /\ call' = [call EXCEPT ![r] = c]
          /\ \/ Goto(r, "invalid") \/ Goto(r, "find") \/ Goto(r, "read")
             \/ c.op = "post" /\ Goto(r, "commit")
    BY <1>1, ArriveFrame
  <2>2. q # r BY <2>1 DEF Goto, Op, Base, TypeOK
  <2>3. \E step : Goto(r, step) BY <2>1
  <2>4. UNCHANGED <<pc[q], call[q]>> BY <2>1, <2>2, <2>3 DEF Goto, Base, TypeOK
  <2> QED BY <1>1, <2>4, ArriveFrame DEF Op
<1>2. ASSUME NEW r \in Requests, Moves(r), r # q
      PROVE  Replacing(q) /\ UNCHANGED <<seen[q], rows, call[q]>>
  <2>1. UNCHANGED <<pc[q], call, rows>> BY <1>2, MoveFrame DEF Base, TypeOK
  <2>2. UNCHANGED seen[q] BY <1>2, MoveFrame DEF FindRules, Base, TypeOK
  <2> QED BY <2>1, <2>2 DEF Op
<1>3. CASE FindRules(q) BY <1>3 DEF FindRules, Base, TypeOK, OrgFor
<1>4. CASE Moves(q) /\ ~ FindRules(q)
  <2>1. UNCHANGED <<seen, rows, call>> BY <1>4, MoveFrame
  <2>2. LockRules(q)
    <3>1. Op(q) = "put" BY <2>1 DEF Op
    <3>2. pc[q] \notin {"read", "update"} BY <3>1 DEF Base, ControlOf
    <3>3. ~ Refresh(q) /\ ~ Fail(q) BY DEF Refresh, Fail, Goto, Base, TypeOK
    <3> QED BY <1>4, <3>2, <3>3 DEF Moves, ReadRow, UpdateRow
  <2> QED BY <2>1, <2>2 DEF LockRules, SnapshotInv, OrgFor, Op, Base, ControlOf
<1>5. ASSUME NEW r \in Requests, Commit(r)
      PROVE  seen'[q] = {row \in rows' : row.org = OrgFor(q)'}
  <2>1. r # q BY <1>5, CommitFrame DEF Base, TypeOK
  <2>2. UNCHANGED <<pc[q], call, seen>> BY <1>5, <2>1, CommitFrame DEF Base, TypeOK
  <2>3. Replacing(q) /\ seen[q] = {row \in rows : row.org = OrgFor(q)}
    BY <2>2 DEF SnapshotInv, Op
  <2>4. CASE Op(r) # "put" BY <1>5, <2>2, <2>3, <2>4, CommitFrame DEF OrgFor
  <2>5. CASE Op(r) = "put"
    <3>1. OrgFor(q) # OrgFor(r) BY <1>5, <2>1, <2>3, <2>5, CommitFrame DEF PutsInTurn
    <3> QED BY <1>5, <2>2, <2>3, <2>5, <3>1, RowsAfterPut DEF OrgFor
  <2> QED BY <2>4, <2>5
<1>6. CASE UNCHANGED vars BY <1>6 DEF vars, SnapshotInv, Op, OrgFor
<1>7. ASSUME Replacing(q), UNCHANGED <<seen[q], rows, call[q]>>
      PROVE  seen'[q] = {row \in rows' : row.org = OrgFor(q)'}
  BY <1>7 DEF SnapshotInv, OrgFor
<1> QED BY <1>1, <1>2, <1>3, <1>4, <1>5, <1>6, <1>7, NextCases

LEMMA DuplicatesStep ==
  Base /\ GridInv /\ SnapshotInv /\ NoDuplicateSlots /\ [Next]_vars => NoDuplicateSlots'
<1> SUFFICES ASSUME Base, GridInv, SnapshotInv, NoDuplicateSlots, [Next]_vars,
                    NEW x \in rows', NEW y \in rows', x # y, x.org = y.org,
                    x.rule.dow = y.rule.dow
             PROVE  ~ Overlap(x.rule, y.rule)
  BY DEF NoDuplicateSlots
<1>1. CASE UNCHANGED rows BY <1>1 DEF NoDuplicateSlots
<1>2. ASSUME NEW r \in Requests, Commit(r), Op(r) = "put" PROVE ~ Overlap(x.rule, y.rule)
  <2>1. CASE x.org = OrgFor(r)
    <3>1. x \in Inserted(r) /\ y \in Inserted(r) BY <1>2, <2>1, RowsAfterPut
    <3>2. x.rule # y.rule /\ x.rule \in call[r].grid /\ y.rule \in call[r].grid
      BY <3>1 DEF Inserted
    <3>3. WellFormed(call[r].grid)
      BY <1>2, CommitFrame, GridsAreWellFormed DEF Replacing
    <3> QED BY <3>2, <3>3 DEF WellFormed
  <2>2. CASE x.org # OrgFor(r)
    <3>1. x \in rows /\ y \in rows BY <1>2, <2>2, RowsAfterPut
    <3> QED BY <3>1 DEF NoDuplicateSlots
  <2> QED BY <2>1, <2>2
<1> QED BY <1>1, <1>2, NextCases, ArriveFrame, MoveFrame, CommitFrame DEF vars

\* "overlapping rules ... would produce duplicate slots" (replace_grid): none are
\* in force as long as no two PUTs of an organisation are between their
\* snapshot and their commit at once.
THEOREM PutsInTurnLeaveNoDuplicates == Spec /\ []PutsInTurn => []NoDuplicateSlots
<1>1. Init => SnapshotInv /\ NoDuplicateSlots
  BY DEF Init, SnapshotInv, NoDuplicateSlots, Replacing
<1> QED BY <1>1, SnapshotStep, DuplicatesStep, BaseAlways, GridsAlways, PTL DEF Spec

-----------------------------------------------------------------------------
(***************************************************************************)
(* Updates.                                                                *)
(***************************************************************************)
Patches(r) == Op(r) \in {"patch", "settings"}
Missing(r) == Op(r) = "patch" /\ exceptions[Target(r)] = Null

\* Another PATCH has written field f of the row that r patches.
Overwritten(r, f) ==
  \E s \in Requests \ {r} :
    /\ Past(s) /\ Op(s) = Op(r) /\ f \in call[s].sent
    /\ IF Op(r) = "patch" THEN Target(s) = Target(r) ELSE OrgFor(s) = OrgFor(r)

\* A field a PATCH is about to write holds what the PATCH has read.
ReadInv ==
  \A r \in Requests : pc[r] \in {"update", "commit"} /\ Patches(r) =>
    \A f \in call[r].sent : Missing(r) \/ Overwritten(r, f) \/ RowOf(r)[f] = read[r][f]

\* And a field it has written holds what it wrote.
WrittenInv ==
  \A r \in Requests : pc[r] \in {"refresh", "ok"} /\ Patches(r) =>
    \A f \in call[r].sent : Missing(r) \/ Overwritten(r, f) \/ RowOf(r)[f] = call[r].new[f]

UpdateInv == ReadInv /\ WrittenInv

\* The statements of a request that has found its row.
PastRead(r) == pc[r] \in {"update", "commit", "refresh", "ok"}

LEMMA MergeField ==
  ASSUME NEW old, NEW new, NEW sent, NEW f \in DOMAIN old
  PROVE  Merge(old, new, sent)[f] = IF f \in sent THEN new[f] ELSE old[f]
BY DEF Merge

LEMMA OverwrittenStays ==
  ASSUME Base, [Next]_vars, NEW r \in Requests, pc[r] # "idle", NEW f, Overwritten(r, f)
  PROVE  Overwritten(r, f)'
<1>1. PICK s \in Requests \ {r} :
        /\ Past(s) /\ Op(s) = Op(r) /\ f \in call[s].sent
        /\ IF Op(r) = "patch" THEN Target(s) = Target(r) ELSE OrgFor(s) = OrgFor(r)
  BY DEF Overwritten
<1>2. call'[r] = call[r] BY PastStays
<1>3. pc'[s] \in {"refresh", "ok", "error"} /\ call'[s] = call[s]
  BY <1>1, PastStays DEF Past
<1> QED BY <1>1, <1>2, <1>3 DEF Overwritten, Past, Op, Target, OrgFor

LEMMA SentFields ==
  ASSUME Base, NEW r \in Requests, pc[r] # "idle", Patches(r), NEW f \in call[r].sent
  PROVE  /\ Op(r) = "patch" => Target(r) \in Requests /\ f \in RangeFields
         /\ Op(r) = "settings" => OrgFor(r) \in Orgs /\ f \in SettingsFields
         /\ ~ Missing(r) => f \in DOMAIN RowOf(r)
<1>1. call[r] \in CallType BY CallIsKnown
<1>2. /\ Op(r) = "patch" => Target(r) \in Requests /\ f \in RangeFields
      /\ Op(r) = "settings" => OrgFor(r) \in Orgs /\ f \in SettingsFields
  BY <1>1, CallFacts DEF Op, Target, OrgFor
<1>3. CASE Op(r) = "patch" /\ ~ Missing(r)
  <2>1. exceptions[Target(r)] \in ExceptionRows
    BY <1>2, <1>3 DEF Missing, Base, TypeOK, ExceptionRows, Range
  <2>2. RowOf(r) \in Range BY <1>3, <2>1 DEF RowOf, ExceptionRows
  <2> QED BY <1>2, <1>3, <2>2 DEF Range, RangeFields
<1>4. CASE Op(r) = "settings"
  <2>1. RowOf(r) \in Settings BY <1>2, <1>4 DEF RowOf, Base, TypeOK
  <2> QED BY <1>2, <1>4, <2>1 DEF Settings, SettingsFields
<1> QED BY <1>2, <1>3, <1>4 DEF Patches

\* What the commit of another request can do to a field.
LEMMA FieldAfterCommit ==
  ASSUME Base, NEW s \in Requests, Commit(s),
         NEW r \in Requests, r # s, PastRead(r), Patches(r), NEW f \in call[r].sent
  PROVE  /\ Missing(r) => Missing(r)'
         /\ \/ Missing(r)' \/ Overwritten(r, f)'
            \/ ~ Missing(r) /\ RowOf(r)'[f] = RowOf(r)[f]
<1>1. /\ pc[s] = "commit" /\ call' = call /\ pc'[s] \in {"ok", "refresh"}
  BY CommitFrame DEF Base, TypeOK
<1>2. /\ Op(r) = "patch" => Target(r) \in Requests /\ f \in RangeFields
      /\ Op(r) = "settings" => OrgFor(r) \in Orgs /\ f \in SettingsFields
      /\ ~ Missing(r) => f \in DOMAIN RowOf(r)
  BY SentFields DEF PastRead
<1>3. Op(r) = "patch" => Target(r) # s
  BY <1>1 DEF Base, DataOf, PastRead, Past
<1>4. ASSUME Op(s) = Op(r), f \in call[s].sent,
             IF Op(r) = "patch" THEN Target(s) = Target(r) ELSE OrgFor(s) = OrgFor(r)
      PROVE  Overwritten(r, f)'
  BY <1>1, <1>4 DEF Overwritten, Past, Op, Target, OrgFor
<1>5. CASE Op(r) = "patch"
  <2>1. CASE exceptions'[Target(r)] = exceptions[Target(r)]
    BY <1>1, <1>5, <2>1 DEF Missing, RowOf, Op, Target
  <2>2. CASE Op(s) = "delete" /\ Target(s) = Target(r)
    <3>1. exceptions'[Target(r)] = Null BY <1>2, <1>5, <2>2, CommitFrame
    <3> QED BY <1>1, <1>5, <3>1 DEF Missing, Op, Target
  <2>3. CASE Op(s) = "patch" /\ Target(s) = Target(r)
    <3>1. exceptions[Target(r)] # Null BY <1>1, <2>3 DEF Base, LockOf
    <3>2. CASE f \in call[s].sent BY <1>4, <1>5, <2>3, <3>1, <3>2 DEF Missing
    <3>3. CASE f \notin call[s].sent
      <4>1. exceptions'[Target(r)] = [org |-> exceptions[Target(r)].org, range |-> Written(s)]
        BY <1>2, <1>5, <2>3, CommitFrame
      <4>2. RowOf(s) = RowOf(r) BY <1>5, <2>3 DEF RowOf
      <4>3. f \in DOMAIN RowOf(s) BY <1>2, <3>1, <4>2 DEF Missing
      <4>4. Written(s)[f] = RowOf(s)[f]
        BY <3>3, <4>3, MergeField DEF Written
      <4>5. RowOf(r)' = Written(s) BY <1>1, <1>5, <4>1 DEF RowOf, Op, Target
      <4> QED BY <3>1, <4>2, <4>4, <4>5 DEF Missing
    <3> QED BY <3>2, <3>3
  <2> QED BY <1>2, <1>3, <1>5, <2>1, <2>2, <2>3, CommitFrame
<1>6. CASE Op(r) = "settings"
  <2>1. ~ Missing(r) BY <1>6 DEF Missing
  <2>2. CASE settings'[OrgFor(r)] = settings[OrgFor(r)]
    BY <1>1, <1>6, <2>1, <2>2 DEF RowOf, Op, OrgFor
  <2>3. CASE Op(s) = "settings" /\ OrgFor(s) = OrgFor(r)
    <3>1. CASE f \in call[s].sent BY <1>4, <1>6, <2>1, <2>3, <3>1
    <3>2. CASE f \notin call[s].sent
      <4>1. settings'[OrgFor(r)] = Written(s)
        BY <1>2, <1>6, <2>3, CommitFrame
      <4>2. RowOf(s) = RowOf(r) BY <1>6, <2>3 DEF RowOf
      <4>3. Written(s)[f] = RowOf(s)[f]
        BY <1>2, <2>1, <3>2, <4>2, MergeField DEF Written
      <4>4. RowOf(r)' = Written(s) BY <1>1, <1>6, <4>1 DEF RowOf, Op, OrgFor
      <4> QED BY <2>1, <4>2, <4>3, <4>4
    <3> QED BY <3>1, <3>2
  <2> QED BY <1>2, <1>6, <2>2, <2>3, CommitFrame
<1> QED BY <1>5, <1>6 DEF Patches

\* The two invariants, for one request and one field.
ReadField(r, f) == Missing(r) \/ Overwritten(r, f) \/ RowOf(r)[f] = read[r][f]
WrittenField(r, f) == Missing(r) \/ Overwritten(r, f) \/ RowOf(r)[f] = call[r].new[f]

LEMMA FieldStays ==
  ASSUME Base, [Next]_vars, NEW r \in Requests, PastRead(r), Patches(r),
         ~ Commit(r), read'[r] = read[r], NEW f \in call[r].sent
  PROVE  /\ ReadField(r, f) => ReadField(r, f)'
         /\ WrittenField(r, f) => WrittenField(r, f)'
<1>1. pc[r] # "idle" /\ call'[r] = call[r] BY PastStays DEF PastRead
<1>2. CASE UNCHANGED <<settings, exceptions>>
  <2>1. Missing(r)' = Missing(r) /\ RowOf(r)' = RowOf(r)
    BY <1>1, <1>2 DEF Missing, RowOf, Op, OrgFor, Target
  <2>2. Overwritten(r, f) => Overwritten(r, f)' BY <1>1, OverwrittenStays
  <2> QED BY <1>1, <2>1, <2>2 DEF ReadField, WrittenField
<1>3. ASSUME NEW s \in Requests, Commit(s)
      PROVE  /\ ReadField(r, f) => ReadField(r, f)'
             /\ WrittenField(r, f) => WrittenField(r, f)'
  <2>1. r # s BY <1>3
  <2>2. /\ Missing(r) => Missing(r)'
        /\ \/ Missing(r)' \/ Overwritten(r, f)'
           \/ ~ Missing(r) /\ RowOf(r)'[f] = RowOf(r)[f]
    BY <1>3, <2>1, FieldAfterCommit
  <2>3. Overwritten(r, f) => Overwritten(r, f)' BY <1>1, OverwrittenStays
  <2> QED BY <1>1, <2>2, <2>3 DEF ReadField, WrittenField
<1> QED BY <1>2, <1>3, NextCases, ArriveFrame, MoveFrame DEF vars

LEMMA ReadRowFields ==
  ASSUME Base, NEW r \in Requests, ReadRow(r), Patches(r), NEW f \in call[r].sent
  PROVE  /\ pc'[r] = "update" => ReadField(r, f)'
         /\ pc'[r] = "refresh" => WrittenField(r, f)'
<1>1. /\ pc[r] = "read" /\ UNCHANGED <<settings, exceptions, call>>
      /\ Op(r) # "delete"
  BY DEF ReadRow, Patches
<1>2. Missing(r)' = Missing(r) /\ RowOf(r)' = RowOf(r)
  BY <1>1 DEF Missing, RowOf, Op, OrgFor, Target
<1>3. CASE pc'[r] \in {"update", "refresh"}
  <2>1. /\ read'[r] = RowOf(r)
        /\ pc'[r] = "refresh" => Merge(RowOf(r), call[r].new, call[r].sent) = RowOf(r)
        /\ ~ Missing(r)
    BY <1>1, <1>3 DEF ReadRow, Goto, Base, TypeOK, Found, Missing
  <2>2. f \in DOMAIN RowOf(r) BY <1>1, <2>1, SentFields
  <2>3. Merge(RowOf(r), call[r].new, call[r].sent)[f] = call[r].new[f]
    BY <2>2, MergeField
  <2> QED BY <1>1, <1>2, <2>1, <2>3 DEF ReadField, WrittenField
<1> QED BY <1>3

LEMMA CommitFields ==
  ASSUME Base, ReadInv, NEW r \in Requests, Commit(r), Patches(r), NEW f \in call[r].sent
  PROVE  WrittenField(r, f)'
<1>1. pc[r] = "commit" /\ call' = call BY CommitFrame
<1>2. [Next]_vars BY DEF Next, Handle
<1>3. ReadField(r, f) BY <1>1 DEF ReadInv, ReadField
<1>4. ~ Missing(r) BY <1>1 DEF Base, LockOf, Missing
<1>5. /\ Op(r) = "patch" => Target(r) \in Requests
      /\ Op(r) = "settings" => OrgFor(r) \in Orgs
      /\ f \in DOMAIN RowOf(r)
  BY <1>1, <1>4, SentFields
<1>6. RowOf(r)' = Written(r)
  <2>1. CASE Op(r) = "patch"
    <3>1. exceptions'[Target(r)] = [org |-> exceptions[Target(r)].org, range |-> Written(r)]
      BY <1>5, <2>1, CommitFrame
    <3> QED BY <1>1, <2>1, <3>1 DEF RowOf, Op, Target
  <2>2. CASE Op(r) = "settings"
    <3>1. settings'[OrgFor(r)] = Written(r) BY <1>5, <2>2, CommitFrame
    <3> QED BY <1>1, <2>2, <3>1 DEF RowOf, Op, OrgFor
  <2> QED BY <2>1, <2>2 DEF Patches
<1>7. Written(r)[f] = IF call[r].new[f] # read[r][f] THEN call[r].new[f] ELSE RowOf(r)[f]
  BY <1>5, MergeField DEF Written
<1>8. CASE Overwritten(r, f)
  BY <1>1, <1>2, <1>8, OverwrittenStays DEF WrittenField
<1>9. CASE RowOf(r)[f] = read[r][f]
  BY <1>1, <1>6, <1>7, <1>9 DEF WrittenField
<1> QED BY <1>3, <1>4, <1>8, <1>9 DEF ReadField

LEMMA UpdateStep == Base /\ UpdateInv /\ [Next]_vars => UpdateInv'
<1> SUFFICES ASSUME Base, UpdateInv, [Next]_vars PROVE UpdateInv' OBVIOUS
<1>1. SUFFICES ASSUME NEW r \in Requests, Patches(r)', NEW f \in call'[r].sent
      PROVE  /\ pc'[r] \in {"update", "commit"} => ReadField(r, f)'
             /\ pc'[r] \in {"refresh", "ok"} => WrittenField(r, f)'
  BY DEF UpdateInv, ReadInv, WrittenInv, ReadField, WrittenField
<1>2. CASE Arrive(r)
  BY <1>1, <1>2, ArriveFrame DEF Base, TypeOK, Goto, Patches, Op
<1>3. CASE ~ Arrive(r)
  <2>1. call'[r] = call[r]
    BY <1>3, NextCases, ArriveFrame, MoveFrame, CommitFrame DEF vars, Base, TypeOK
  <2>2. Patches(r) /\ f \in call[r].sent BY <1>1, <2>1 DEF Patches, Op
  <2>3. CASE ReadRow(r)
    <3>1. pc'[r] \notin {"commit", "ok"} BY <2>3 DEF ReadRow, Goto, Base, TypeOK
    <3> QED BY <2>2, <2>3, <3>1, ReadRowFields
  <2>4. CASE Commit(r)
    <3>1. pc'[r] \in {"ok", "refresh"} BY <2>4, CommitFrame DEF Base, TypeOK
    <3> QED BY <2>2, <2>4, <3>1, CommitFields DEF UpdateInv
  <2>5. CASE ~ ReadRow(r) /\ ~ Commit(r)
    <3>1. /\ read'[r] = read[r]
          /\ pc'[r] \in {"update", "commit"} => pc[r] \in {"update", "commit"}
          /\ pc'[r] \in {"refresh", "ok"} => pc[r] \in {"refresh", "ok"}
      <4>1. ASSUME NEW s \in Requests, s # r, Moves(s)
            PROVE  read'[r] = read[r] /\ pc'[r] = pc[r]
        <5>1. pc'[r] = pc[r] BY <4>1, MoveFrame DEF Base, TypeOK
        <5>2. ReadRow(s) => read'[r] = read[r] BY <4>1 DEF ReadRow, Base, TypeOK
        <5> QED BY <4>1, <5>1, <5>2, MoveFrame
      <4>2. ASSUME NEW s \in Requests, s # r, Arrive(s) \/ Commit(s)
            PROVE  read'[r] = read[r] /\ pc'[r] = pc[r]
        <5>1. CASE Arrive(s) BY <4>2, <5>1, ArriveFrame DEF Goto, Base, TypeOK
        <5>2. CASE Commit(s) BY <4>2, <5>2, CommitFrame DEF Base, TypeOK
        <5> QED BY <4>2, <5>1, <5>2
      <4>3. ASSUME Moves(r)
            PROVE  /\ read'[r] = read[r]
                   /\ pc'[r] \in {"update", "commit"} => pc[r] \in {"update", "commit"}
                   /\ pc'[r] \in {"refresh", "ok"} => pc[r] \in {"refresh", "ok"}
        <5>1. ~ LockRules(r) BY <2>2 DEF LockRules, Base, ControlOf, Patches
        <5> QED BY <2>5, <4>3, <5>1
                DEF Moves, FindRules, UpdateRow, Refresh, Fail, Goto, Base, TypeOK
      <4> QED BY <1>3, <2>5, <4>1, <4>2, <4>3, NextCases DEF vars
    <3>2. CASE PastRead(r)
      <4>1. /\ ReadField(r, f) => ReadField(r, f)'
            /\ WrittenField(r, f) => WrittenField(r, f)'
        BY <2>2, <2>5, <3>1, <3>2, FieldStays
      <4> QED BY <2>2, <3>1, <4>1
              DEF UpdateInv, ReadInv, WrittenInv, ReadField, WrittenField
    <3> QED BY <3>1, <3>2 DEF PastRead
  <2> QED BY <2>3, <2>4, <2>5
<1> QED BY <1>2, <1>3

\* A PATCH that was answered is in force until another of the same field or a
\* DELETE, though neither handler looks at the row it writes a second time.
THEOREM NoUpdateIsLost == Spec => []UpdatesAreNotLost
<1>1. Init => UpdateInv BY DEF Init, UpdateInv, ReadInv, WrittenInv
<1>2. UpdateInv => UpdatesAreNotLost
  <2>1. ASSUME WrittenInv, NEW r \in Requests, pc[r] = "ok", Op(r) \in {"patch", "settings"},
               NEW f \in call[r].sent
        PROVE  \/ Op(r) = "patch" /\ exceptions[Target(r)] = Null
               \/ RowOf(r)[f] = call[r].new[f]
               \/ \E s \in Requests \ {r} :
                    /\ pc[s] \in {"refresh", "ok", "error"} /\ Op(s) = Op(r) /\ f \in call[s].sent
                    /\ IF Op(r) = "patch" THEN Target(s) = Target(r) ELSE OrgFor(s) = OrgFor(r)
    BY <2>1 DEF WrittenInv, Missing, Overwritten, Past, Patches
  <2> QED BY <2>1 DEF UpdateInv, UpdatesAreNotLost
<1> QED BY <1>1, <1>2, UpdateStep, BaseAlways, PTL DEF Spec

-----------------------------------------------------------------------------
(***************************************************************************)
(* To those who only read it, the configuration changes in single steps.   *)
(***************************************************************************)
\* The configuration as Configuration knows it.
GridOf(o) == {row.rule : row \in {x \in rows : x.org = o}}
ClosedAt(o) == {exceptions[r].range : r \in
                  {x \in Requests : exceptions[x] # Null /\ exceptions[x].org = o}}
grids == [o \in Orgs |-> GridOf(o)]
closures == [o \in Orgs |-> ClosedAt(o)]

SettingsAsked == {Default} \cup {c.new : c \in Called("settings")}
GridsAsked == {{}} \cup {c.grid : c \in Called("put")}
RangesAsked == {e \in [start : Bounds("start"), end : Bounds("end")] : Sound(e)}

\* No exception lies where no call put it.
ChoiceInv ==
  \A t \in Requests : exceptions[t] # Null =>
    exceptions[t].range \in [start : Bounds("start"), end : Bounds("end")]

ConfigInv == Base /\ GridInv /\ RangesAreSound /\ ChoiceInv

LEMMA CallIsAsked ==
  ASSUME Base, NEW r \in Requests, pc[r] # "idle"
  PROVE  call[r] \in Called(Op(r))
<1>1. call[r] \in Calls[r] BY CallIsKnown
<1> QED BY <1>1 DEF Called, Op

LEMMA AskedBounds ==
  ASSUME Base, NEW r \in Requests, pc[r] # "idle", Op(r) \in {"post", "patch"}
  PROVE  /\ call[r].new \in Range
         /\ call[r].new.start \in Bounds("start") /\ call[r].new.end \in Bounds("end")
<1>1. call[r] \in Called("post") \cup Called("patch") BY CallIsAsked
<1>2. call[r].new \in Range BY CallIsKnown, CallFacts DEF Op
<1>3. call[r].new["start"] \in Bounds("start") /\ call[r].new["end"] \in Bounds("end")
  BY <1>1 DEF Bounds
<1> QED BY <1>2, <1>3 DEF Range

LEMMA MergeBounds ==
  ASSUME NEW S, NEW E, NEW old \in [start : S, end : E], NEW new \in Range,
         new.start \in S, new.end \in E, NEW sent
  PROVE  Merge(old, new, sent) \in [start : S, end : E]
BY DEF Merge, Range

LEMMA WrittenBounds ==
  ASSUME Base, ChoiceInv, NEW r \in Requests, pc[r] = "commit", Op(r) = "patch"
  PROVE  Written(r) \in [start : Bounds("start"), end : Bounds("end")]
<1>1. /\ call[r].new \in Range
      /\ call[r].new.start \in Bounds("start") /\ call[r].new.end \in Bounds("end")
  BY AskedBounds
<1>2. Target(r) \in Requests /\ exceptions[Target(r)] # Null
  BY PatchedRow DEF Base, LockOf
<1>3. RowOf(r) \in [start : Bounds("start"), end : Bounds("end")]
  BY <1>2 DEF ChoiceInv, RowOf
<1> QED BY <1>1, <1>3, MergeBounds DEF Written

LEMMA PostBounds ==
  ASSUME Base, NEW r \in Requests, pc[r] = "commit", Op(r) = "post"
  PROVE  call[r].new \in RangesAsked
<1>1. /\ call[r].new \in Range
      /\ call[r].new.start \in Bounds("start") /\ call[r].new.end \in Bounds("end")
  BY AskedBounds
<1>2. Sound(call[r].new) BY DEF Base, ControlOf, Acceptable, Op
<1> QED BY <1>1, <1>2 DEF RangesAsked, Range

LEMMA ChoiceStep == Base /\ ChoiceInv /\ [Next]_vars => ChoiceInv'
<1> SUFFICES ASSUME Base, ChoiceInv, [Next]_vars PROVE ChoiceInv' OBVIOUS
<1>0. Bounds("start")' = Bounds("start") /\ Bounds("end")' = Bounds("end")
  BY DEF Bounds, Called
<1>1. CASE UNCHANGED exceptions BY <1>0, <1>1 DEF ChoiceInv
<1>2. ASSUME NEW r \in Requests, Commit(r), NEW t \in Requests, exceptions'[t] # Null
      PROVE  exceptions'[t].range \in [start : Bounds("start"), end : Bounds("end")]
  <2>1. /\ pc[r] = "commit"
        /\ \/ exceptions'[t] = exceptions[t]
           \/ /\ Op(r) = "post"
              /\ exceptions'[t] = [org |-> OrgFor(r), range |-> call[r].new]
           \/ /\ Op(r) = "patch"
              /\ exceptions'[t] = [org |-> exceptions[t].org, range |-> Written(r)]
    BY <1>2, CommitFrame
  <2>2. Op(r) = "post" => call[r].new \in [start : Bounds("start"), end : Bounds("end")]
    BY <2>1, PostBounds DEF RangesAsked
  <2>3. Op(r) = "patch" => Written(r) \in [start : Bounds("start"), end : Bounds("end")]
    BY <2>1, WrittenBounds
  <2>4. exceptions'[t] = exceptions[t] =>
          exceptions'[t].range \in [start : Bounds("start"), end : Bounds("end")]
    BY <1>2 DEF ChoiceInv
  <2> QED BY <2>1, <2>2, <2>3, <2>4
<1>3. ASSUME NEW r \in Requests, Commit(r) PROVE ChoiceInv'
  BY <1>0, <1>2, <1>3 DEF ChoiceInv
<1> QED BY <1>1, <1>3, NextCases, ArriveFrame, MoveFrame DEF vars

\* A grid that is in force was asked for, and is part of what is in force.
LEMMA GridsInForce ==
  ASSUME Base, GridInv, NEW row \in rows
  PROVE  /\ call[row.put].grid \in GridsAsked
         /\ \A rule \in call[row.put].grid :
              \E x \in rows : x.put = row.put /\ x.org = row.org /\ x.rule = rule
<1>1. /\ row.put \in Requests /\ Past(row.put) /\ Op(row.put) = "put"
      /\ row \in Inserted(row.put) /\ Inserted(row.put) \subseteq rows
  BY DEF GridInv, MadeOfGrids
<1>2. call[row.put] \in Called("put")
  BY <1>1, CallIsAsked DEF Past
<1>3. ASSUME NEW rule \in call[row.put].grid
      PROVE  \E x \in rows : x.put = row.put /\ x.org = row.org /\ x.rule = rule
  <2>1. [put |-> row.put, org |-> OrgFor(row.put), rule |-> rule] \in rows
    BY <1>1, <1>3 DEF Inserted
  <2>2. row.org = OrgFor(row.put) BY <1>1, InsertedFields
  <2> QED BY <2>1, <2>2
<1> QED BY <1>2, <1>3 DEF GridsAsked

\* What a PUT leaves over of an organisation's rules are whole grids.
KeptBy(r) == {call[row.put].grid : row \in {x \in rows \ seen[r] : x.org = OrgFor(r)}}

LEMMA KeptRows ==
  ASSUME Base, GridInv, NEW r \in Requests
  PROVE  /\ KeptBy(r) \subseteq {grid \in GridsAsked : grid \subseteq GridOf(OrgFor(r))}
         /\ UNION KeptBy(r) = {row.rule : row \in {x \in rows \ seen[r] : x.org = OrgFor(r)}}
<1>1. ASSUME NEW row \in rows, row.org = OrgFor(r)
      PROVE  /\ call[row.put].grid \in GridsAsked
             /\ call[row.put].grid \subseteq GridOf(OrgFor(r))
  BY <1>1, GridsInForce DEF GridOf
<1>2. ASSUME NEW row \in rows \ seen[r], row.org = OrgFor(r)
      PROVE  row.rule \in call[row.put].grid
  <2>1. row \in Inserted(row.put) BY DEF GridInv, MadeOfGrids
  <2> QED BY <2>1, InsertedFields
<1>3. ASSUME NEW row \in rows \ seen[r], row.org = OrgFor(r), NEW rule \in call[row.put].grid
      PROVE  \E x \in rows \ seen[r] : x.org = OrgFor(r) /\ x.rule = rule
  <2>1. PICK x \in rows : x.put = row.put /\ x.org = row.org /\ x.rule = rule
    BY <1>3, GridsInForce
  <2>2. row \in Inserted(row.put) BY DEF GridInv, MadeOfGrids
  <2>3. x \notin seen[r]
    BY <1>3, <2>1, <2>2 DEF GridInv, MadeOfGrids
  <2> QED BY <1>3, <2>1, <2>3
<1>4. KeptBy(r) \subseteq {grid \in GridsAsked : grid \subseteq GridOf(OrgFor(r))}
  BY <1>1 DEF KeptBy
<1>5. UNION KeptBy(r) \subseteq {row.rule : row \in {x \in rows \ seen[r] : x.org = OrgFor(r)}}
  BY <1>3 DEF KeptBy
<1>6. {row.rule : row \in {x \in rows \ seen[r] : x.org = OrgFor(r)}} \subseteq UNION KeptBy(r)
  BY <1>2 DEF KeptBy
<1> QED BY <1>4, <1>5, <1>6

LEMMA PutGrids ==
  ASSUME ConfigInv, NEW r \in Requests, Commit(r), Op(r) = "put"
  PROVE  /\ OrgFor(r) \in Orgs /\ call[r].grid \in GridsAsked /\ WellFormed(call[r].grid)
         /\ grids' = [grids EXCEPT ![OrgFor(r)] = (UNION KeptBy(r)) \cup call[r].grid]
<1> USE DEF ConfigInv
<1>1. /\ pc[r] = "commit" /\ rows' = (rows \ seen[r]) \cup Inserted(r)
  BY CommitFrame
<1>2. OrgFor(r) \in Orgs BY <1>1, CallIsKnown, CallFacts DEF OrgFor
<1>3. call[r].grid \in GridsAsked
  <2>1. call[r] \in Called("put") BY <1>1, CallIsAsked
  <2> QED BY <2>1 DEF GridsAsked
<1>4. WellFormed(call[r].grid) BY <1>1 DEF Base, ControlOf, Acceptable, Op
<1>5. ASSUME NEW o, o = OrgFor(r) PROVE GridOf(o)' = (UNION KeptBy(r)) \cup call[r].grid
  <2>1. UNION KeptBy(r) = {row.rule : row \in {x \in rows \ seen[r] : x.org = OrgFor(r)}}
    BY KeptRows
  <2>3. {row.rule : row \in {x \in Inserted(r) : x.org = OrgFor(r)}} = call[r].grid
    <3>1. ASSUME NEW rule \in call[r].grid
          PROVE  \E x \in Inserted(r) : x.org = OrgFor(r) /\ x.rule = rule
      <4>1. [put |-> r, org |-> OrgFor(r), rule |-> rule] \in Inserted(r) BY DEF Inserted
      <4> QED BY <4>1
    <3> QED BY <3>1, InsertedFields
  <2>4. GridOf(o)' =
          {row.rule : row \in {x \in rows \ seen[r] : x.org = OrgFor(r)}}
            \cup {row.rule : row \in {x \in Inserted(r) : x.org = OrgFor(r)}}
    BY <1>1, <1>5 DEF GridOf
  <2> QED BY <2>1, <2>3, <2>4
<1>6. ASSUME NEW o \in Orgs, o # OrgFor(r) PROVE GridOf(o)' = GridOf(o)
  <2>1. ASSUME NEW x, x.org = o PROVE x \in rows' <=> x \in rows
    <3>1. x \notin Inserted(r) BY <1>6, <2>1, InsertedFields
    <3>2. x \notin seen[r] BY <1>6, <2>1 DEF GridInv
    <3> QED BY <1>1, <3>1, <3>2
  <2>2. {x \in rows : x.org = o}' = {x \in rows : x.org = o} BY <2>1
  <2> QED BY <2>2 DEF GridOf
<1>7. grids' = [grids EXCEPT ![OrgFor(r)] = (UNION KeptBy(r)) \cup call[r].grid]
  <2>1. /\ grids' = [o \in Orgs |-> grids'[o]] /\ DOMAIN grids = Orgs
        /\ \A o \in Orgs : grids'[o] = GridOf(o)' /\ grids[o] = GridOf(o)
    BY DEF grids, GridOf
  <2>2. ASSUME NEW o \in Orgs
        PROVE  grids'[o] = IF o = OrgFor(r) THEN (UNION KeptBy(r)) \cup call[r].grid ELSE grids[o]
    <3>1. CASE o = OrgFor(r) BY <1>5, <2>1, <3>1
    <3>2. CASE o # OrgFor(r) BY <1>6, <2>1, <3>2
    <3> QED BY <3>1, <3>2
  <2> QED BY <1>2, <2>1, <2>2
<1> QED BY <1>2, <1>3, <1>4, <1>7

\* The closures of an organisation, row by row.
LEMMA ClosuresByRow ==
  ASSUME NEW o \in Orgs, NEW e
  PROVE  e \in closures[o] <=>
           \E x \in Requests : exceptions[x] # Null /\ exceptions[x].org = o
                               /\ exceptions[x].range = e
BY DEF closures, ClosedAt

LEMMA ClosuresByRowNext ==
  ASSUME NEW o \in Orgs, NEW e
  PROVE  e \in closures'[o] <=>
           \E x \in Requests : exceptions'[x] # Null /\ exceptions'[x].org = o
                               /\ exceptions'[x].range = e
BY DEF closures, ClosedAt

\* A row that is there, in the terms of Configuration.
LEMMA ClosureAsked ==
  ASSUME ConfigInv, NEW t \in Requests, exceptions[t] # Null
  PROVE  /\ exceptions[t].org \in Orgs /\ exceptions[t].range \in RangesAsked
         /\ exceptions[t].range \in closures[exceptions[t].org]
<1>1. exceptions[t] \in ExceptionRows
  BY DEF ConfigInv, Base, TypeOK, ExceptionRows, Range
<1>2. exceptions[t].org \in Orgs BY <1>1 DEF ExceptionRows
<1>3. exceptions[t].range \in RangesAsked
  BY DEF ConfigInv, ChoiceInv, RangesAreSound, RangesAsked
<1> QED BY <1>2, <1>3, ClosuresByRow

\* One row of exceptions becomes another, or none.
LEMMA ClosuresAfter ==
  ASSUME NEW o \in Orgs, NEW S,
         \A e : e \in closures'[o] <=> e \in S,
         \A p \in Orgs : p # o => \A e : e \in closures'[p] <=> e \in closures[p]
  PROVE  closures' = [closures EXCEPT ![o] = S]
<1>1. closures' = [p \in Orgs |-> closures'[p]] /\ DOMAIN closures = Orgs
  BY DEF closures, ClosedAt
<1>2. closures'[o] = S
  <2>1. \A e : e \in closures'[o] <=> e \in S OBVIOUS
  <2> QED BY <2>1
<1>3. ASSUME NEW p \in Orgs, p # o PROVE closures'[p] = closures[p]
  <2>1. \A e : e \in closures'[p] <=> e \in closures[p] BY <1>3
  <2> QED BY <2>1
<1> QED BY <1>1, <1>2, <1>3

LEMMA PostClosures ==
  ASSUME ConfigInv, NEW r \in Requests, Commit(r), Op(r) = "post"
  PROVE  /\ OrgFor(r) \in Orgs
         /\ closures' = [closures EXCEPT ![OrgFor(r)] = @ \cup {call[r].new}]
<1> USE DEF ConfigInv
<1>1. /\ pc[r] = "commit" /\ exceptions[r] = Null
      /\ exceptions'[r] = [org |-> OrgFor(r), range |-> call[r].new]
      /\ \A x \in Requests : x # r => exceptions'[x] = exceptions[x]
  BY CommitFrame DEF Base, DataOf, Past
<1>2. OrgFor(r) \in Orgs /\ call[r].new \in Range
  BY <1>1, CallIsKnown, CallFacts DEF OrgFor, Op
<1>3. exceptions'[r] # Null /\ exceptions'[r].org = OrgFor(r) /\ exceptions'[r].range = call[r].new
  BY <1>1, <1>2, NullAssumption DEF Range
<1>4. ASSUME NEW o \in Orgs, NEW e
      PROVE  e \in closures'[o] <=> e \in closures[o] \/ (o = OrgFor(r) /\ e = call[r].new)
  BY <1>1, <1>3, ClosuresByRow, ClosuresByRowNext
<1>5. closures' = [closures EXCEPT ![OrgFor(r)] = closures[OrgFor(r)] \cup {call[r].new}]
  BY <1>2, <1>4, ClosuresAfter
<1> QED BY <1>2, <1>5

LEMMA DeleteClosures ==
  ASSUME ConfigInv, NEW r \in Requests, Commit(r), Op(r) = "delete"
  PROVE  \/ closures' = closures
         \/ \E o \in Orgs, e \in RangesAsked :
              e \in closures[o] /\ closures' = [closures EXCEPT ![o] = @ \ {e}]
<1> USE DEF ConfigInv
<1>1. /\ pc[r] = "commit"
      /\ \A x \in Requests : exceptions'[x] = IF x = Target(r) THEN Null ELSE exceptions[x]
  BY CommitFrame
<1>2. Target(r) \in Requests BY <1>1, CallIsKnown, CallFacts DEF Op, Target
<1>3. closures' = [o \in Orgs |-> closures'[o]] /\ closures = [o \in Orgs |-> closures[o]]
  BY DEF closures, ClosedAt
<1>4. CASE exceptions[Target(r)] = Null
  <2>1. ASSUME NEW o \in Orgs PROVE closures'[o] = closures[o]
    <3>1. ASSUME NEW e PROVE e \in closures'[o] <=> e \in closures[o]
      BY <1>1, <1>4, ClosuresByRow, ClosuresByRowNext
    <3> QED BY <3>1
  <2> QED BY <1>3, <2>1
<1>5. CASE exceptions[Target(r)] # Null
  <2>1. PICK o, e : o = exceptions[Target(r)].org /\ e = exceptions[Target(r)].range
    OBVIOUS
  <2>2. o \in Orgs /\ e \in RangesAsked /\ e \in closures[o]
    BY <1>2, <1>5, <2>1, ClosureAsked
  <2>3. ASSUME NEW p \in Orgs, NEW f, p # o \/ f # e
        PROVE  f \in closures'[p] <=> f \in closures[p]
    BY <1>1, <2>1, <2>3, ClosuresByRow, ClosuresByRowNext
  <2>4. CASE e \in closures'[o]
    <3>1. ASSUME NEW p \in Orgs PROVE closures'[p] = closures[p]
      <4>1. ASSUME NEW f PROVE f \in closures'[p] <=> f \in closures[p]
        BY <2>2, <2>3, <2>4
      <4> QED BY <4>1
    <3> QED BY <1>3, <3>1
  <2>5. CASE e \notin closures'[o]
    <3>1. \A f : f \in closures'[o] <=> f \in closures[o] \ {e}
      BY <2>2, <2>3, <2>5
    <3>2. closures' = [closures EXCEPT ![o] = closures[o] \ {e}]
      BY <2>2, <2>3, <3>1, ClosuresAfter
    <3> QED BY <2>2, <3>2
  <2> QED BY <2>4, <2>5
<1> QED BY <1>4, <1>5

LEMMA PatchClosures ==
  ASSUME ConfigInv, NEW r \in Requests, Commit(r), Op(r) = "patch"
  PROVE  \E o \in Orgs, e \in RangesAsked, f \in RangesAsked :
           /\ e \in closures[o]
           /\ \/ closures' = [closures EXCEPT ![o] = @ \cup {f}]
              \/ closures' = [closures EXCEPT ![o] = (@ \ {e}) \cup {f}]
<1> USE DEF ConfigInv
<1>1. pc[r] = "commit" BY CommitFrame
<1>2. /\ Target(r) \in Requests /\ exceptions[Target(r)] \in ExceptionRows
      /\ exceptions[Target(r)] # Null
      /\ Written(r) \in Range /\ Sound(Written(r))
  BY <1>1, PatchedRow, NullAssumption DEF ExceptionRows, Range
<1>3. PICK o, e, f : /\ o = exceptions[Target(r)].org /\ e = exceptions[Target(r)].range
                     /\ f = Written(r)
  OBVIOUS
<1>4. o \in Orgs /\ e \in RangesAsked /\ e \in closures[o]
  BY <1>2, <1>3, ClosureAsked
<1>5. f \in RangesAsked
  BY <1>1, <1>2, <1>3, WrittenBounds DEF RangesAsked
<1>6. /\ exceptions'[Target(r)] = [org |-> o, range |-> f]
      /\ \A x \in Requests : x # Target(r) => exceptions'[x] = exceptions[x]
  BY <1>2, <1>3, CommitFrame
<1>7. /\ exceptions'[Target(r)] # Null /\ exceptions'[Target(r)].org = o
      /\ exceptions'[Target(r)].range = f
  BY <1>2, <1>3, <1>4, <1>6, NullAssumption DEF Range
<1>8. ASSUME NEW p \in Orgs, NEW g, p # o \/ g \notin {e, f}
      PROVE  g \in closures'[p] <=> g \in closures[p]
  BY <1>2, <1>3, <1>6, <1>7, <1>8, ClosuresByRow, ClosuresByRowNext
<1>9. f \in closures'[o] BY <1>2, <1>4, <1>7, ClosuresByRowNext
<1>10. CASE e \in closures'[o]
  <2>1. \A g : g \in closures'[o] <=> g \in closures[o] \cup {f}
    BY <1>4, <1>8, <1>9, <1>10
  <2>2. closures' = [closures EXCEPT ![o] = closures[o] \cup {f}]
    BY <1>4, <1>8, <2>1, ClosuresAfter
  <2> QED BY <1>4, <1>5, <2>2
<1>11. CASE e \notin closures'[o]
  <2>1. \A g : g \in closures'[o] <=> g \in (closures[o] \ {e}) \cup {f}
    BY <1>4, <1>8, <1>9, <1>11
  <2>2. closures' = [closures EXCEPT ![o] = (closures[o] \ {e}) \cup {f}]
    BY <1>4, <1>8, <2>1, ClosuresAfter
  <2> QED BY <1>4, <1>5, <2>2
<1> QED BY <1>10, <1>11

\* What a PATCH of the settings writes is what it was sent, or what was there.
LEMMA SettingsFieldsWritten ==
  ASSUME NEW old \in Settings, NEW new \in Settings, NEW sent
  PROVE  Merge(old, new, sent) =
           [duration |-> IF "duration" \in sent THEN new["duration"] ELSE old["duration"],
            lead |-> IF "lead" \in sent THEN new["lead"] ELSE old["lead"],
            horizon |-> IF "horizon" \in sent THEN new["horizon"] ELSE old["horizon"]]
BY DEF Merge, Settings

LEMMA SettingsPatched ==
  ASSUME Base, NEW r \in Requests, Commit(r), Op(r) = "settings"
  PROVE  /\ OrgFor(r) \in Orgs /\ call[r].new \in SettingsAsked \cap Settings
         /\ \E patched \in SUBSET {"duration", "lead", "horizon"} :
              settings' = [settings EXCEPT ![OrgFor(r)] =
                Merge(settings[OrgFor(r)], call[r].new, patched)]
<1>1. pc[r] = "commit" BY CommitFrame
<1>2. OrgFor(r) \in Orgs /\ call[r].new \in Settings
  BY <1>1, CallIsKnown, CallFacts DEF OrgFor, Op
<1>3. call[r].new \in SettingsAsked
  BY <1>1, CallIsAsked DEF SettingsAsked
<1>4. PICK patched : patched = {f \in call[r].sent : call[r].new[f] # read[r][f]}
  OBVIOUS
<1>5. patched \in SUBSET {"duration", "lead", "horizon"}
  BY <1>1, <1>4, CallIsKnown, CallFacts DEF Op, SettingsFields
<1>6. Written(r) = Merge(settings[OrgFor(r)], call[r].new, patched)
  BY <1>4 DEF Written, RowOf
<1>7. settings' = [settings EXCEPT ![OrgFor(r)] = Written(r)] BY DEF Commit
<1> QED BY <1>2, <1>3, <1>5, <1>6, <1>7

LEMMA RefineCommit ==
  ASSUME ConfigInv, NEW r \in Requests, Commit(r)
  PROVE  Config!Configure \/ UNCHANGED <<settings, grids, closures>>
<1> USE DEF ConfigInv
<1>1. /\ pc[r] = "commit" /\ Op(r) \in {"put", "post", "patch", "delete", "settings"}
  BY CommitFrame, CallIsKnown, CallFacts DEF Op
<1>2. /\ Op(r) # "put" => grids' = grids
      /\ Op(r) \notin {"post", "patch", "delete"} => closures' = closures
      /\ Op(r) # "settings" => settings' = settings
  BY <1>1 DEF Commit, grids, GridOf, closures, ClosedAt
<1>3. CASE Op(r) = "put"
  <2>1. PICK o \in Orgs, grid \in GridsAsked, kept \in {UNION KeptBy(r)} :
          /\ o = OrgFor(r) /\ grid = call[r].grid /\ WellFormed(grid)
          /\ grids' = [grids EXCEPT ![o] = kept \cup grid]
    BY <1>3, PutGrids
  <2>2. kept \in Config!Leftovers(o)
    <3>1. KeptBy(r) \subseteq {g \in GridsAsked : g \subseteq grids[o]}
      BY <2>1, KeptRows DEF grids
    <3> QED BY <2>1, <3>1 DEF Config!Leftovers, grids, GridOf, GridsAsked
  <2>3. Config!WellFormed(grid)
    BY <2>1 DEF WellFormed, Config!WellFormed, Overlap, Config!Overlap
  <2>4. kept \cup grid \in Config!Replaced(o)
    <3>1. grid \in {g \in GridsAsked : Config!WellFormed(g)} BY <2>1, <2>3
    <3>2. kept \cup grid \in {k \cup grid : k \in Config!Leftovers(o)} BY <2>2
    <3> QED BY <3>1, <3>2 DEF Config!Replaced, GridsAsked
  <2>5. Config!ReplaceGrid(o)
    BY <1>2, <1>3, <2>1, <2>4
       DEF Config!ReplaceGrid, grids, GridOf, closures, ClosedAt
  <2> QED BY <2>1, <2>5 DEF Config!Configure
<1>4. CASE Op(r) = "post"
  <2>1. PICK o \in Orgs, e \in RangesAsked : closures' = [closures EXCEPT ![o] = @ \cup {e}]
    BY <1>1, <1>4, PostClosures, PostBounds
  <2>2. Config!CreateException(o, e)
    BY <1>2, <1>4, <2>1 DEF Config!CreateException, closures, ClosedAt, grids, GridOf
  <2> QED BY <2>1, <2>2 DEF Config!Configure, RangesAsked
<1>5. CASE Op(r) = "patch"
  <2>1. PICK o \in Orgs, e \in RangesAsked, f \in RangesAsked :
           /\ e \in closures[o]
           /\ \/ closures' = [closures EXCEPT ![o] = @ \cup {f}]
              \/ closures' = [closures EXCEPT ![o] = (@ \ {e}) \cup {f}]
    BY <1>5, PatchClosures
  <2>2. Config!CreateException(o, f) \/ Config!UpdateException(o, e, f)
    BY <1>2, <1>5, <2>1
       DEF Config!CreateException, Config!UpdateException, closures, ClosedAt, grids, GridOf
  <2> QED BY <2>1, <2>2 DEF Config!Configure, RangesAsked
<1>6. CASE Op(r) = "delete"
  <2>1. CASE closures' = closures BY <1>2, <1>6, <2>1
  <2>2. CASE \E o \in Orgs, e \in RangesAsked :
               e \in closures[o] /\ closures' = [closures EXCEPT ![o] = @ \ {e}]
    <3>1. PICK o \in Orgs, e \in RangesAsked :
            e \in closures[o] /\ closures' = [closures EXCEPT ![o] = @ \ {e}]
      BY <2>2
    <3>2. Config!DeleteException(o, e)
      BY <1>2, <1>6, <3>1 DEF Config!DeleteException, closures, ClosedAt, grids, GridOf
    <3> QED BY <3>1, <3>2 DEF Config!Configure, RangesAsked
  <2> QED BY <1>6, <2>1, <2>2, DeleteClosures
<1>7. CASE Op(r) = "settings"
  <2>1. PICK o \in Orgs, new \in SettingsAsked, patched \in SUBSET {"duration", "lead", "horizon"} :
          /\ new \in Settings
          /\ settings' = [settings EXCEPT ![o] = Merge(settings[o], new, patched)]
    BY <1>7, SettingsPatched
  <2>2. settings[o] \in Settings BY <2>1 DEF Base, TypeOK
  <2> DEFINE row ==
        [duration |-> IF "duration" \in patched THEN new["duration"] ELSE settings[o]["duration"],
         lead |-> IF "lead" \in patched THEN new["lead"] ELSE settings[o]["lead"],
         horizon |-> IF "horizon" \in patched THEN new["horizon"] ELSE settings[o]["horizon"]]
  <2>3. settings' = [settings EXCEPT ![o] = row]
    BY <2>1, <2>2, SettingsFieldsWritten
  <2>4. row \in [duration : {new.duration, settings[o].duration},
                lead : {new.lead, settings[o].lead},
                horizon : {new.horizon, settings[o].horizon}]
    OBVIOUS
  <2> HIDE DEF row
  <2>5. row \in Config!Patched(o)
    BY <2>1, <2>4 DEF Config!Patched, SettingsAsked
  <2>6. Config!UpdateOrg(o)
    BY <1>2, <1>7, <2>1, <2>3, <2>5
       DEF Config!UpdateOrg, closures, ClosedAt, grids, GridOf
  <2> QED BY <2>1, <2>6 DEF Config!Configure
<1> QED BY <1>1, <1>3, <1>4, <1>5, <1>6, <1>7

LEMMA RefineStep == ConfigInv /\ [Next]_vars => [Config!Configure]_(Config!config)
<1> SUFFICES ASSUME ConfigInv, [Next]_vars
             PROVE  Config!Configure \/ UNCHANGED <<settings, grids, closures>>
  BY DEF Config!config, grids, GridOf, closures, ClosedAt
<1>1. CASE UNCHANGED <<settings, rows, exceptions>>
  BY <1>1 DEF grids, GridOf, closures, ClosedAt
<1> QED BY <1>1, RefineCommit, NextCases, ArriveFrame, MoveFrame DEF vars

LEMMA RefineInit == Init => Config!ConfigInit
<1> SUFFICES ASSUME Init PROVE Config!ConfigInit OBVIOUS
<1>1. settings \in [Orgs -> SettingsAsked] BY DEF Init, SettingsAsked
<1>2. grids \in [Orgs -> {grid \in GridsAsked : Config!WellFormed(grid)}]
  <2>1. Config!WellFormed({}) /\ {} \in GridsAsked
    BY DEF Config!WellFormed, GridsAsked
  <2>2. \A o \in Orgs : GridOf(o) = {} BY DEF Init, GridOf
  <2> QED BY <2>1, <2>2 DEF grids
<1>3. closures = [o \in Orgs |-> {}] BY DEF Init, closures, ClosedAt
<1> QED BY <1>1, <1>2, <1>3
        DEF Config!ConfigInit, grids, GridOf, closures, ClosedAt, SettingsAsked, GridsAsked

\* The handlers of administrators, statement by statement, do to what others
\* read no more than Configuration allows in one step: what is proved of
\* BookingService and of the queries holds with the real administrators.
THEOREM ServiceImplementsConfiguration == Spec => ConfigSpec
<1>1. Init => RangesAreSound /\ ChoiceInv BY DEF Init, RangesAreSound, ChoiceInv
<1>2. Spec => []ConfigInv
  BY <1>1, BaseAlways, GridsAlways, RangesStep, ChoiceStep, PTL DEF Spec, ConfigInv
<1> QED BY <1>2, RefineInit, RefineStep, PTL DEF Spec, ConfigSpec, Config!ConfigSpec
==============================================================================
