---------------------------- MODULE BookingLedger ----------------------------
(***************************************************************************)
(* What the booking service promises its clients, without requests,        *)
(* transactions or rows: a ledger of the bookings that stand.  A slot      *)
(* stands for at most one booking, each operation is one step, moving a    *)
(* booking neither loses it nor gives it to someone else, and a booking    *)
(* that has left the ledger never comes back under the same id.            *)
(***************************************************************************)
CONSTANTS Ids, Orgs, Users, Instants

VARIABLES
  ledger,   \* the standing bookings
  issued    \* every id a booking has ever had

Entries == [id : Ids, org : Orgs, user : Users, start : Instants]

Free(others, e) == \A f \in others : f.org # e.org \/ f.start # e.start

Init == ledger = {} /\ issued = {}

Book(e) ==
  /\ e.id \notin issued /\ Free(ledger, e)
  /\ ledger' = ledger \cup {e}
  /\ issued' = issued \cup {e.id}

Release(e) ==
  /\ e \in ledger
  /\ ledger' = ledger \ {e}
  /\ UNCHANGED issued

Move(e, f) ==
  /\ e \in ledger /\ f.user = e.user /\ f.org = e.org
  /\ f.id \notin issued /\ Free(ledger \ {e}, f)
  /\ ledger' = (ledger \ {e}) \cup {f}
  /\ issued' = issued \cup {f.id}

Next ==
  \/ \E e \in Entries : Book(e)
  \/ \E e \in ledger : Release(e) \/ \E f \in Entries : Move(e, f)

Spec == Init /\ [][Next]_<<ledger, issued>>
==============================================================================
