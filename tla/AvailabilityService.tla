-------------------------- MODULE AvailabilityService --------------------------
(***************************************************************************)
(* What administrators do to a configuration, statement by statement:      *)
(* replace_grid and the exceptions of availability_service.py, and         *)
(* update_org of organization_service.py, over READ COMMITTED transactions *)
(* as in BookingService.                                                   *)
(*                                                                         *)
(* A rule's row is named by the PUT that inserted it, an exception's by    *)
(* its POST.  Every session flushes once and then commits, so the only     *)
(* locks are those of one UPDATE or DELETE.                                *)
(***************************************************************************)
EXTENDS Slots

CONSTANTS
  Orgs,
  Requests,   \* the requests administrators may send, each sent once
  Calls,      \* the calls each request may make
  Default,    \* the settings of a new organisation
  Null        \* SQL's NULL, and the absence of a row or of a call

RangeFields == {"start", "end"}
SettingsFields == {"duration", "lead", "horizon"}

\* A patch carries new values for the fields in sent.
CallType ==
       [op : {"put"}, org : Orgs, grid : SUBSET Rules]
  \cup [op : {"post"}, org : Orgs, new : [start : Int, end : Int]]
  \cup [op : {"patch"}, org : Orgs, target : Requests,
        new : [start : Int, end : Int], sent : SUBSET RangeFields]
  \cup [op : {"delete"}, org : Orgs, target : Requests]
  \cup [op : {"settings"}, org : Orgs, new : Settings, sent : SUBSET SettingsFields]

ASSUME AvailabilityAssumption ==
  Calls \in [Requests -> SUBSET CallType] /\ Default \in Settings

ASSUME NullAssumption == Null \notin [org : Orgs, range : [start : Int, end : Int]]

VARIABLES
  settings,     \* organizations: duration, lead, horizon
  rows,         \* availability_rules: [put, org, rule]
  exceptions,   \* exceptions: [org, range], by id
  pc,           \* the statement each request executes next, or its answer
  call,         \* what the request asks for
  seen,         \* the rules that the DELETE of a PUT found
  read          \* the row that a PATCH read

vars == <<settings, rows, exceptions, pc, call, seen, read>>

Steps == {"find", "lock", "read", "update", "commit", "refresh"}
Answers == {"ok", "notfound", "invalid", "error"}

Op(r) == call[r].op
OrgFor(r) == call[r].org
Target(r) == call[r].target

Sound(range) == range.end > range.start
WellFormed(g) == \A u, v \in g : u # v /\ u.dow = v.dow => ~ Overlap(u, v)
Merge(old, new, sent) == [f \in DOMAIN old |-> IF f \in sent THEN new[f] ELSE old[f]]

\* The row that a PATCH is for.
RowOf(r) == IF Op(r) = "settings" THEN settings[OrgFor(r)] ELSE exceptions[Target(r)].range

\* Mutant: an UPDATE of every column, from the row as it was read.
WrittenWhole(r) == Merge(read[r], call[r].new, call[r].sent)

\* The row after the UPDATE, which sets the columns whose value is not the one read.
Written(r) == Merge(RowOf(r), call[r].new, {f \in call[r].sent : call[r].new[f] # read[r][f]})

-----------------------------------------------------------------------------
(***************************************************************************)
(* What the database knows of the running transactions.                    *)
(***************************************************************************)
\* s has updated or deleted the row that r is about to, and not committed.
HoldsRow(s, r) ==
  /\ pc[s] = "commit" /\ s # r
  /\ \/ Op(s) = "settings" /\ Op(r) = "settings" /\ OrgFor(s) = OrgFor(r)
     \/ /\ Op(s) \in {"patch", "delete"} /\ Op(r) \in {"patch", "delete"}
        /\ Target(s) = Target(r)

\* Mutant: a session that keeps its locks when its request fails.
HoldsRulesForever(s, r) ==
  pc[s] \in {"commit", "error"} /\ s # r /\ Op(s) = "put" /\ seen[s] \cap seen[r] \cap rows # {}

\* s has deleted rules that r is about to delete, and not committed.
HoldsRules(s, r) ==
  pc[s] = "commit" /\ s # r /\ Op(s) = "put" /\ seen[s] \cap seen[r] \cap rows # {}

\* Mutant: a table without ck_exceptions_end_after_start.
Unchecked(r) == TRUE

\* ck_exceptions_end_after_start on the row r writes.
CheckHolds(r) ==
  Op(r) = "patch" => Sound(Written(r))

-----------------------------------------------------------------------------
Init ==
  /\ settings = [o \in Orgs |-> Default]
  /\ rows = {}
  /\ exceptions = [r \in Requests |-> Null]
  /\ pc = [r \in Requests |-> "idle"]
  /\ call = [r \in Requests |-> Null]
  /\ seen = [r \in Requests |-> {}]
  /\ read = [r \in Requests |-> Null]

Goto(r, step) == pc' = [pc EXCEPT ![r] = step]

\* Mutant: replace_grid without the test for overlapping rules.
AcceptableOverlap(c) == c.op = "post" => Sound(c.new)

\* What is refused before any statement.
Acceptable(c) == /\ c.op = "put" => WellFormed(c.grid)
                 /\ c.op = "post" => Sound(c.new)

Arrive(r) ==
  /\ pc[r] = "idle"
  /\ \E c \in Calls[r] :
       /\ call' = [call EXCEPT ![r] = c]
       /\ Goto(r, IF ~ Acceptable(c) THEN "invalid"
                  ELSE CASE c.op = "put" -> "find"
                         [] c.op = "post" -> "commit"
                         [] OTHER -> "read")
  /\ UNCHANGED <<settings, rows, exceptions, seen, read>>

\* Mutant: a DELETE of the weekdays of the new grid only.
FindRulesByDay(r) ==
  /\ pc[r] = "find"
  /\ seen' = [seen EXCEPT ![r] = {row \in rows : /\ row.org = OrgFor(r)
                                               /\ \E u \in call[r].grid : u.dow = row.rule.dow}]
  /\ Goto(r, "lock")
  /\ UNCHANGED <<settings, rows, exceptions, call, read>>

\* DELETE FROM availability_rules: its snapshot, then the locks of what it found.
FindRules(r) ==
  /\ pc[r] = "find"
  /\ seen' = [seen EXCEPT ![r] = {row \in rows : row.org = OrgFor(r)}]
  /\ Goto(r, "lock")
  /\ UNCHANGED <<settings, rows, exceptions, call, read>>

\* The locks of the DELETE, all together when the last is free: only PUTs could
\* meet the first of them sooner, and would wait.
LockRules(r) ==
  /\ pc[r] = "lock"
  /\ \A s \in Requests : ~ HoldsRules(s, r)
  /\ Goto(r, "commit")
  /\ UNCHANGED <<settings, rows, exceptions, call, seen, read>>

\* get_org, or get_exception and the test on the merged range.
Found(r) == Op(r) # "settings" =>
              exceptions[Target(r)] # Null /\ exceptions[Target(r)].org = OrgFor(r)

ReadRow(r) ==
  /\ pc[r] = "read"
  /\ \/ /\ ~ Found(r)
        /\ Goto(r, "notfound") /\ UNCHANGED read
     \/ /\ Found(r) /\ Op(r) = "delete"
        /\ Goto(r, "update") /\ UNCHANGED read
     \/ /\ Found(r) /\ Op(r) # "delete"
        /\ read' = [read EXCEPT ![r] = RowOf(r)]
        /\ LET patched == Merge(RowOf(r), call[r].new, call[r].sent)
           IN  Goto(r, IF Op(r) = "patch" /\ ~ Sound(patched) THEN "invalid"
                       ELSE IF patched = RowOf(r) THEN "refresh" ELSE "update")
  /\ UNCHANGED <<settings, rows, exceptions, call, seen>>

\* Mutant: a session.merge, which inserts the row it read if it is there no more.
UpdateOrInsertRow(r) ==
  /\ pc[r] = "update"
  /\ \A s \in Requests : ~ HoldsRow(s, r)
  /\ \/ /\ Op(r) = "patch" /\ exceptions[Target(r)] = Null
        /\ exceptions' = [exceptions EXCEPT ![Target(r)] =
             [org |-> OrgFor(r), range |-> Merge(read[r], call[r].new, call[r].sent)]]
        /\ Goto(r, "refresh")
     \/ /\ ~ (Op(r) = "patch" /\ exceptions[Target(r)] = Null)
        /\ Goto(r, IF CheckHolds(r) THEN "commit" ELSE "error")
        /\ UNCHANGED exceptions
  /\ UNCHANGED <<settings, rows, call, seen, read>>

\* UPDATE or DELETE by id: waits for the row's lock.  An UPDATE that finds no
\* row is a StaleDataError, and one that breaks the CHECK an IntegrityError,
\* which nothing catches here.  A DELETE that finds no row is a warning.
UpdateRow(r) ==
  /\ pc[r] = "update"
  /\ \A s \in Requests : ~ HoldsRow(s, r)
  /\ Goto(r, IF Op(r) = "patch" /\ (exceptions[Target(r)] = Null \/ ~ CheckHolds(r))
             THEN "error" ELSE "commit")
  /\ UNCHANGED <<settings, rows, exceptions, call, seen, read>>

\* Mutant: rules of no organisation.
InsertedUnscoped(r) == {[put |-> r, org |-> Null, rule |-> rule] : rule \in call[r].grid}

Inserted(r) == {[put |-> r, org |-> OrgFor(r), rule |-> rule] : rule \in call[r].grid}

Commit(r) ==
  /\ pc[r] = "commit"
  /\ \/ /\ Op(r) = "put"
        /\ rows' = (rows \ seen[r]) \cup Inserted(r)
        /\ UNCHANGED <<settings, exceptions>>
     \/ /\ Op(r) = "post"
        /\ exceptions' = [exceptions EXCEPT ![r] = [org |-> OrgFor(r), range |-> call[r].new]]
        /\ UNCHANGED <<settings, rows>>
     \/ /\ Op(r) = "patch"
        /\ exceptions' = [exceptions EXCEPT ![Target(r)].range = Written(r)]
        /\ UNCHANGED <<settings, rows>>
     \/ /\ Op(r) = "delete"
        /\ exceptions' = [exceptions EXCEPT ![Target(r)] = Null]
        /\ UNCHANGED <<settings, rows>>
     \/ /\ Op(r) = "settings"
        /\ settings' = [settings EXCEPT ![OrgFor(r)] = Written(r)]
        /\ UNCHANGED <<rows, exceptions>>
  /\ Goto(r, IF Op(r) = "delete" THEN "ok" ELSE "refresh")
  /\ UNCHANGED <<call, seen, read>>

\* db.refresh of what was written: an error if it is gone meanwhile.
Gone(r) == CASE Op(r) = "put" -> ~ Inserted(r) \subseteq rows
             [] Op(r) = "post" -> exceptions[r] = Null
             [] Op(r) = "patch" -> exceptions[Target(r)] = Null
             [] OTHER -> FALSE

Refresh(r) ==
  /\ pc[r] = "refresh"
  /\ Goto(r, IF Gone(r) THEN "error" ELSE "ok")
  /\ UNCHANGED <<settings, rows, exceptions, call, seen, read>>

\* As in BookingService: the session is rolled back.
Fail(r) ==
  /\ pc[r] \in Steps
  /\ Goto(r, "error")
  /\ UNCHANGED <<settings, rows, exceptions, call, seen, read>>

AllAnswered == (\A r \in Requests : pc[r] \in Answers) /\ UNCHANGED vars

Handle(r) == \/ FindRules(r) \/ LockRules(r) \/ ReadRow(r) \/ UpdateRow(r)
             \/ Commit(r) \/ Refresh(r)

Next == (\E r \in Requests : Arrive(r) \/ Handle(r) \/ Fail(r)) \/ AllAnswered

Spec == Init /\ [][Next]_vars
FairSpec == Spec /\ \A r \in Requests : WF_vars(Handle(r))

-----------------------------------------------------------------------------
(***************************************************************************)
(* Properties.                                                             *)
(***************************************************************************)
RuleRows == [put : Requests, org : Orgs, rule : Rules]

TypeOK ==
  /\ settings \in [Orgs -> Settings]
  /\ rows \subseteq RuleRows
  /\ exceptions \in [Requests -> [org : Orgs, range : [start : Int, end : Int]] \cup {Null}]
  /\ pc \in [Requests -> {"idle"} \cup Steps \cup Answers]
  /\ call \in [Requests -> CallType \cup {Null}]
  /\ seen \in [Requests -> SUBSET RuleRows]
  /\ read \in [Requests -> Settings \cup [start : Int, end : Int] \cup {Null}]

\* However half patches of an exception race, it never ends before it starts.
RangesAreSound == \A r \in Requests : exceptions[r] # Null => Sound(exceptions[r].range)

\* A day that was opened again stays open: an exception appears by its POST and
\* not by a PATCH that has read it before somebody else deleted it.
DeletedStayDeleted ==
  [][\A r \in Requests : exceptions[r] = Null /\ exceptions'[r] # Null
       => pc[r] = "commit" /\ Op(r) = "post"]_vars

\* The rules in force are whole grids: replacements that race may leave more
\* than one of them, but never a part of one.
GridsAreWhole ==
  \A r \in Requests : (\E row \in rows : row.put = r) => Inserted(r) \subseteq rows

\* A PATCH that was answered is in force, unless another PATCH of the same field
\* has written, or may have, or the row is deleted: an update of other fields
\* that races with it takes nothing back.
UpdatesAreNotLost ==
  \A r \in Requests : pc[r] = "ok" /\ Op(r) \in {"patch", "settings"} =>
    \A f \in call[r].sent :
      \/ Op(r) = "patch" /\ exceptions[Target(r)] = Null
      \/ RowOf(r)[f] = call[r].new[f]
      \/ \E s \in Requests \ {r} :
           /\ pc[s] \in {"refresh", "ok", "error"} /\ Op(s) = Op(r) /\ f \in call[s].sent
           /\ IF Op(r) = "patch" THEN Target(s) = Target(r) ELSE OrgFor(s) = OrgFor(r)

\* replace_grid rejects overlapping rules within a day, "09:00-13:00 and
\* 12:00-18:00 would produce duplicate slots otherwise": a grid has none.
NoDuplicateSlots ==
  \A x, y \in rows : x # y /\ x.org = y.org /\ x.rule.dow = y.rule.dow
                     => ~ Overlap(x.rule, y.rule)

\* Every administrator is answered: no lock is waited for for ever.
EveryWriteAnswered == \A r \in Requests : pc[r] # "idle" ~> pc[r] \in Answers

\* To the transactions that only read it, the configuration changes in the
\* single steps that Configuration allows.
Called(op) == UNION {{c \in Calls[r] : c.op = op} : r \in Requests}
Bounds(f) == {c.new[f] : c \in Called("post") \cup Called("patch")}

Config == INSTANCE Configuration
  WITH rules <- [o \in Orgs |-> {row.rule : row \in {x \in rows : x.org = o}}],
       exceptions <- [o \in Orgs |-> {exceptions[r].range : r \in
                        {x \in Requests : exceptions[x] # Null /\ exceptions[x].org = o}}],
       SettingsChoices <- {Default} \cup {c.new : c \in Called("settings")},
       GridChoices <- {{}} \cup {c.grid : c \in Called("put")},
       ExceptionChoices <- {e \in [start : Bounds("start"), end : Bounds("end")] : Sound(e)}

ConfigSpec == Config!ConfigSpec
==============================================================================
