---------------------------- MODULE Configuration ----------------------------
(***************************************************************************)
(* What administrators can make of an organisation's configuration, as the *)
(* transactions of others see it: settings, grid and exceptions change in  *)
(* one step, at the commit of organization_service.update_org and of the   *)
(* operations of availability_service.  BookingService takes its           *)
(* administrators from here; AvailabilityService, which runs the same      *)
(* operations statement by statement, implements it.                       *)
(***************************************************************************)
EXTENDS Slots

CONSTANTS
  Orgs,
  SettingsChoices,   \* what administrators may write into the settings,
  GridChoices,       \* the grids they may put,
  ExceptionChoices   \* and the exceptions they may declare

ASSUME ConfigurationAssumption ==
  /\ SettingsChoices \subseteq Settings
  /\ GridChoices \subseteq SUBSET Rules
  /\ ExceptionChoices \subseteq Ranges

VARIABLES
  settings,     \* organizations: duration, lead, horizon
  rules,        \* availability_rules of each organisation
  exceptions    \* exceptions of each organisation; two rows with one range
                \* are one exception

config == <<settings, rules, exceptions>>

\* The tables hold what their columns and CHECK constraints admit.
ConfigTypeOK ==
  /\ settings \in [Orgs -> Settings]
  /\ rules \in [Orgs -> SUBSET Rules]
  /\ exceptions \in [Orgs -> SUBSET Ranges]

\* replace_grid refuses rules of one day that overlap.
WellFormed(grid) == \A u, v \in grid : u # v /\ u.dow = v.dow => ~ Overlap(u, v)

ConfigInit ==
  /\ settings \in [Orgs -> SettingsChoices]
  /\ rules \in [Orgs -> {grid \in GridChoices : WellFormed(grid)}]
  /\ exceptions = [o \in Orgs |-> {}]

\* update_org writes the fields present in the patch.
Patched(o) ==
  UNION {[duration : {new.duration, settings[o].duration}, lead : {new.lead, settings[o].lead},
          horizon : {new.horizon, settings[o].horizon}] : new \in SettingsChoices}

UpdateOrg(o) ==
  /\ \E row \in Patched(o) : settings' = [settings EXCEPT ![o] = row]
  /\ UNCHANGED <<rules, exceptions>>

\* The DELETE of replace_grid sees the rules committed when it runs.  What
\* another replacement commits after that stays, grid by grid.
Leftovers(o) == {UNION S : S \in SUBSET {grid \in GridChoices : grid \subseteq rules[o]}}

Replaced(o) ==
  UNION {{kept \cup grid : kept \in Leftovers(o)} : grid \in {g \in GridChoices : WellFormed(g)}}

ReplaceGrid(o) ==
  /\ \E grid \in Replaced(o) : rules' = [rules EXCEPT ![o] = grid]
  /\ UNCHANGED <<settings, exceptions>>

CreateException(o, e) ==
  /\ exceptions' = [exceptions EXCEPT ![o] = @ \cup {e}]
  /\ UNCHANGED <<settings, rules>>

UpdateException(o, e, f) ==
  /\ e \in exceptions[o]
  /\ exceptions' = [exceptions EXCEPT ![o] = (@ \ {e}) \cup {f}]
  /\ UNCHANGED <<settings, rules>>

DeleteException(o, e) ==
  /\ e \in exceptions[o]
  /\ exceptions' = [exceptions EXCEPT ![o] = @ \ {e}]
  /\ UNCHANGED <<settings, rules>>

Configure ==
  \E o \in Orgs :
    \/ UpdateOrg(o) \/ ReplaceGrid(o)
    \/ \E e \in ExceptionChoices :
         \/ CreateException(o, e) \/ DeleteException(o, e)
         \/ \E f \in ExceptionChoices : UpdateException(o, e, f)

ConfigSpec == ConfigInit /\ [][Configure]_config
==============================================================================
