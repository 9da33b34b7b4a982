---------------------------- MODULE MCAvailability ----------------------------
(***************************************************************************)
(* Instances of AvailabilityService for TLC: four administrators' requests *)
(* of one organisation, and a stranger's of another.  Minute, Day and Week *)
(* are as in MCBooking.                                                    *)
(***************************************************************************)
EXTENDS AvailabilityService, TLC

CONSTANTS here, there, r1, r2, r3, r4

NewOrg == [duration |-> 2, lead |-> 0, horizon |-> 1]

Morning(d) == [dow |-> d, start |-> 0, end |-> 6]
Noon(d) == [dow |-> d, start |-> 4, end |-> 8]

Puts(grids) == [op : {"put"}, org : {here}, grid : grids]
Post(o, a, b) == [op |-> "post", org |-> o, new |-> [start |-> a, end |-> b]]
Patch(o, target, a, b, sent) ==
  [op |-> "patch", org |-> o, target |-> target, new |-> [start |-> a, end |-> b], sent |-> sent]
Delete(o, target) == [op |-> "delete", org |-> o, target |-> target]
SettingsPatch(d, l, h, sent) ==
  [op |-> "settings", org |-> here, sent |-> sent,
   new |-> [duration |-> d, lead |-> l, horizon |-> h]]

TwoGridCalls == r1 :> Puts({{Morning(0)}}) @@ r2 :> Puts({{Noon(0)}})

\* Grids of one day, of two, and one that overlaps itself.
SomeGrids == Puts({{Morning(0)}, {Noon(0), Morning(1)}, {Morning(0), Noon(0)}})

\* Three replace the grid; or patch the exception of the first, one end, the
\* other or both, some to what the row already holds, and delete it, with a
\* fourth; or patch the settings.  One of them may be another tenant's.
WriteCalls ==
  r1 :> SomeGrids \cup {Post(here, 2, 6), Post(here, 6, 2), SettingsPatch(4, 0, 1, {"duration"})}
  @@ r2 :> SomeGrids
        \cup {Patch(here, r1, 5, 0, {"start"}), Patch(here, r1, 2, 4, {"start", "end"}),
              Patch(there, r1, 5, 0, {"start"}), SettingsPatch(2, 3, 1, {"duration", "lead"})}
  @@ r3 :> SomeGrids
        \cup {Patch(here, r1, 0, 4, {"end"}), Delete(here, r1)}
  @@ r4 :> {Patch(here, r1, 0, 6, {"end"}), Delete(here, r1)}
==============================================================================
