-------------------------------- MODULE MCAuth --------------------------------
(***************************************************************************)
(* Instances of AuthService for TLC.                                       *)
(***************************************************************************)
EXTENDS AuthService, TLC

CONSTANTS acme, beta, ann, Ann, bob, secret, guess, r1, r2, r3, r4, r5, r6

LowerCase == [e \in Emails |-> IF e = Ann THEN ann ELSE e]

Call(ops, slugs, emails, passwords) ==
  [op : ops, slug : slugs, email : emails, password : passwords]
Use(ops, targets) == [op : ops, token : targets]

Member(ops, emails, passwords) == Call(ops, {acme}, emails, passwords)

\* Two founders, who may want one name; users who register, perhaps with the
\* address of the founder, and log in; a session that may have expired.
AccountCalls ==
  r1 :> Member({"admin"}, {bob}, {secret})
  @@ r2 :> Call({"admin"}, {acme, beta}, {ann}, {secret})
  @@ r3 :> Member({"user"}, {Ann}, {secret}) \cup Member({"login"}, {Ann}, {secret, guess})
  @@ r4 :> Member({"user"}, {ann, Ann}, {secret}) \cup Use({"me"}, {r3})
           \cup Use({"refresh", "logout"}, {r3, Null})

\* A session that is renewed, once or twice, and what ends it, twice at once
\* perhaps; another session of its user.
SessionCalls ==
  r1 :> Member({"admin"}, {ann}, {secret})
  @@ r2 :> Member({"login"}, {Ann}, {secret})
  @@ r3 :> Use({"refresh"}, {r2})
  @@ r4 :> Use({"refresh"}, {r2, r3}) \cup Member({"login"}, {ann}, {secret})
  @@ r5 :> Use({"refresh"}, {r2}) \cup Use({"logout"}, {r3})
  @@ r6 :> Use({"refresh"}, {r2})
==============================================================================
