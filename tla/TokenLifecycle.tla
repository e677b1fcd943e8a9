--------------------------- MODULE TokenLifecycle ---------------------------
(***************************************************************************)
(* What the refresh tokens of this service promise, whatever the requests  *)
(* do that serve them: a token is granted at most once, a token that       *)
(* stopped being live never becomes live again, and one storage operation  *)
(* ends the sessions of one user only.  Sessions.tla implements it.        *)
(***************************************************************************)
EXTENDS Naturals

CONSTANTS Users,   \* the accounts
          Tokens   \* the refresh tokens, records with an owner in field sub

VARIABLES clock,   \* whole seconds
          granted, \* the tokens that ever became sessions
          live     \* the granted tokens a refresh would accept now

lvars == <<clock, granted, live>>

Init == clock = 0 /\ granted = {} /\ live = {}

(* A token becomes a session.  One that was signed long before it is stored
   may be past its lifetime already. *)
Grant(h) ==
  /\ h \notin granted
  /\ granted' = granted \cup {h}
  /\ live' \in {live, live \cup {h}}
  /\ UNCHANGED clock

(* Some sessions of one user end: logout, rotation, revocation of all. *)
End(u) ==
  /\ live' \subseteq live
  /\ \A h \in live \ live' : h.sub = u
  /\ UNCHANGED <<clock, granted>>

(* Time passes, and sessions may expire. *)
Pass ==
  /\ clock' = clock + 1
  /\ live' \subseteq live
  /\ UNCHANGED granted

Next == (\E h \in Tokens : Grant(h)) \/ (\E u \in Users : End(u)) \/ Pass

Spec == Init /\ [][Next]_lvars
=============================================================================
