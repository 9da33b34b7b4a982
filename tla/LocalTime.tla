------------------------------ MODULE LocalTime ------------------------------
(***************************************************************************)
(* Wall-clock time and UTC (backend/app/core/time.py).                     *)
(*                                                                         *)
(* An instant is an integer number of ticks in UTC.  A local time is a     *)
(* record [wall, fold]: wall is the reading of the local clock in ticks    *)
(* since local day 0, and fold = 1 marks the second pass through an hour   *)
(* that a backward clock change repeats (PEP 495).  A time zone            *)
(* [change, before, after] is the part of a zoneinfo zone that a model     *)
(* sees: the UTC offset is `before` until the instant `change` and `after` *)
(* from it on; before = after is a zone without clock changes.             *)
(***************************************************************************)
EXTENDS Integers

Zones == [change : Int, before : Int, after : Int]

\* The UTC offset zoneinfo reports at an instant.
UtcOffset(tz, t) == IF t < tz.change THEN tz.before ELSE tz.after

\* datetime.astimezone(tz) on a UTC instant.
ToLocal(tz, t) ==
  [wall |-> t + UtcOffset(tz, t),
   fold |-> IF t >= tz.change /\ t < tz.change + tz.before - tz.after THEN 1 ELSE 0]

\* datetime.astimezone(UTC) on a local time: fold = 0 reads the clock as the
\* one in use before the change for as long as either clock may be meant,
\* fold = 1 as the one in use after it.
ToUtc(tz, l) ==
  LET larger  == IF tz.before > tz.after THEN tz.before ELSE tz.after
      smaller == IF tz.before > tz.after THEN tz.after ELSE tz.before
      switch  == tz.change + IF l.fold = 0 THEN larger ELSE smaller
  IN  l.wall - IF l.wall < switch THEN tz.before ELSE tz.after

\* local_to_utc_or_none: the set holding the instant, empty for a local time
\* that a forward clock change skips.  The round trip compares wall readings.
LocalToUtcOrNone(tz, l) ==
  {t \in {ToUtc(tz, l)} : ToLocal(tz, t).wall = l.wall}
==============================================================================
