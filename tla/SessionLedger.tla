---------------------------- MODULE SessionLedger ----------------------------
(***************************************************************************)
(* What logging in, refreshing and logging out promise, without requests,  *)
(* transactions or rows.  A session is opened for one user and lives on in *)
(* the tokens that renew each other; it has the name of its first.  A      *)
(* token is renewed within its own session and for its own user, and has   *)
(* no further use then; nothing that happens to one session touches        *)
(* another; a token that has no more use never regains it.                 *)
(***************************************************************************)
CONSTANTS Ids, Users

VARIABLES
  live,     \* the tokens that can still be renewed
  issued    \* every token ever given

Init == live = {} /\ issued = {}

Fresh(i) == \A f \in issued : f.id # i

Open(i, u) ==
  LET e == [id |-> i, session |-> i, user |-> u]
  IN  /\ Fresh(i) /\ \A f \in issued : f.session # i
      /\ live' = live \cup {e}
      /\ issued' = issued \cup {e}

Renew(p, i) ==
  LET e == [p EXCEPT !.id = i]
  IN  /\ Fresh(i)
      /\ live' = (live \ {p}) \cup {e}
      /\ issued' = issued \cup {e}

\* Some tokens of a session, or all of them, lose their use.
Close(s, T) ==
  /\ T \subseteq {e \in live : e.session = s}
  /\ live' = live \ T
  /\ UNCHANGED issued

Next ==
  \/ \E i \in Ids : \/ \E u \in Users : Open(i, u)
                    \/ \E p \in issued : Renew(p, i)
  \/ \E s \in Ids : \E T \in SUBSET live : Close(s, T)

Spec == Init /\ [][Next]_<<live, issued>>
==============================================================================
