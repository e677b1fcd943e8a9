------------------------------ MODULE Sessions ------------------------------
(***************************************************************************)
(* Refresh-token sessions: TokenService (issue, rotate, revoke,            *)
(* revokeAllForUser), SessionRepository (the PostgreSQL table, rows are    *)
(* never deleted), the Redis mirror of AuthCacheService, and the refresh   *)
(* and logout handlers of AuthController.                                  *)
(*                                                                         *)
(* A request is a slot of Requests.  Every awaited storage call is one     *)
(* step, so requests interleave between any two of them; Abort is a        *)
(* storage error or a lost process, after which what was written stays.    *)
(***************************************************************************)
EXTENDS Naturals

CONSTANTS Users,      \* accounts
          Requests,   \* slots for concurrent HTTP requests
          MaxTime,    \* the clock runs from 0 to MaxTime seconds
          RefreshTtl, \* JWT_REFRESH_EXPIRES_IN, in seconds
          None        \* no user, no token

Time == 0..MaxTime

(* A signed refresh token is a function of its claims, {sub, tokenType, iat,
   exp}: iat is in whole seconds and there is no jti.  Its SHA-256, the key
   of the session, is as good as the token itself. *)
Tokens == [sub : Users, iat : Time]
ExpiryOf(h) == h.iat + RefreshTtl

ASSUME SessionsAssumption ==
  /\ MaxTime \in Nat
  /\ RefreshTtl \in Nat \ {0}
  /\ None \notin Users \cup Tokens

VARIABLES
  now,         \* seconds since the start
  rows,        \* table sessions: the tokens that have a row
  revoked,     \* table sessions: the rows with revokedAt set
  mirror,      \* Redis: the tokens with a key session:{hash}
  pc, req,     \* the requests in flight: next storage call, and locals
  delivered,   \* history: tokens sent to a client
  rotated,     \* history: tokens whose rotation was answered
  loggedOut,   \* history: tokens whose logout was answered
  ended        \* history: tokens some answered revoke-all had to end

stored == <<now, rows, revoked, mirror>>
history == <<delivered, rotated, loggedOut, ended>>
vars == <<now, rows, revoked, mirror, pc, req,
          delivered, rotated, loggedOut, ended>>

RowsOf(u) == {h \in rows : h.sub = u}
Active(h) == h \in rows \ revoked /\ now < ExpiryOf(h)

Operations == {"none", "issue", "rotate", "logout", "revokeAll"}
Calls == {"idle", "sign", "create", "mirror", "find", "retire", "unmirror",
          "reuse", "list", "revoke", "wipe"}

(* before: the tokens the user held when the request began (history). *)
Locals == [user : Users \cup {None}, new : Tokens \cup {None},
           op : Operations, old : Tokens \cup {None},
           todo : SUBSET Tokens, before : SUBSET Tokens]
Blank == [user |-> None, new |-> None, op |-> "none", old |-> None,
          todo |-> {}, before |-> {}]

Init ==
  /\ now = 0
  /\ rows = {} /\ revoked = {} /\ mirror = {}
  /\ pc = [p \in Requests |-> "idle"]
  /\ req = [p \in Requests |-> Blank]
  /\ delivered = {} /\ rotated = {} /\ loggedOut = {} /\ ended = {}

Call(p, call) == pc' = [pc EXCEPT ![p] = call]
Goto(p, call) == Call(p, call) /\ req' = req
Finish(p) == Call(p, "idle") /\ req' = [req EXCEPT ![p] = Blank]

HeldBy(u) == {h \in delivered : h.sub = u}

(* Fault: the handler forgets whose request it is. *)
BeginUnowned(p, op, u, h, held, call) ==
  /\ pc[p] = "idle"
  /\ Call(p, call)
  /\ req' = [req EXCEPT ![p] = [Blank EXCEPT !.op = op, !.old = h,
                                  !.before = held]]
  /\ UNCHANGED <<stored, history>>

Begin(p, op, u, h, held, call) ==
  /\ pc[p] = "idle"
  /\ Call(p, call)
  /\ req' = [req EXCEPT ![p] = [user |-> u, new |-> None, op |-> op, old |-> h,
                                 todo |-> {}, before |-> held]]
  /\ UNCHANGED <<stored, history>>

-----------------------------------------------------------------------------
(* issue: sign, create the row, set the mirror, answer. *)

(* Register, login and the 2FA verification reach issue(). *)
StartIssue(p, u) == Begin(p, "issue", u, None, {}, "sign")

Sign(p) ==
  /\ pc[p] = "sign"
  /\ Call(p, "create")
  /\ req' = [req EXCEPT ![p].new = [sub |-> req[p].user, iat |-> now]]
  /\ UNCHANGED <<stored, history>>

(* Fault: the insert is an upsert that clears revokedAt. *)
Upsert(p) ==
  /\ pc[p] = "create"
  /\ rows' = rows \cup {req[p].new}
  /\ revoked' = revoked \ {req[p].new}
  /\ Goto(p, "mirror")
  /\ UNCHANGED <<now, mirror, history>>

(* The row's expiresAt is the token's, computed right after signing. *)
Create(p) ==
  /\ pc[p] = "create"
  /\ req[p].new \notin rows
  /\ rows' = rows \cup {req[p].new}
  /\ Goto(p, "mirror")
  /\ UNCHANGED <<now, revoked, mirror, history>>

(* refreshTokenHash is unique: the second row with one hash is refused. *)
CreateRefused(p) ==
  /\ pc[p] = "create"
  /\ req[p].new \in rows
  /\ Finish(p)
  /\ UNCHANGED <<stored, history>>

SetMirror(p) ==
  LET r == req[p] IN
  /\ pc[p] = "mirror"
  /\ mirror' = mirror \cup {r.new}
  /\ delivered' = delivered \cup {r.new}
  /\ rotated' = IF r.op = "rotate" THEN rotated \cup {r.old} ELSE rotated
  /\ Finish(p)
  /\ UNCHANGED <<now, rows, revoked, loggedOut, ended>>

-----------------------------------------------------------------------------
(* rotate (POST refresh) and revoke (POST logout). *)

(* The handler verifies signature, type and expiry of the JWT first. *)
StartRotate(p, h) ==
  /\ h \in delivered
  /\ now < ExpiryOf(h)
  /\ Begin(p, "rotate", h.sub, h, HeldBy(h.sub), "find")

(* Logout takes the token as it is, expired or not. *)
StartLogout(p, h) ==
  /\ h \in delivered
  /\ Begin(p, "logout", h.sub, h, {}, "retire")

FindActive(p) ==
  /\ pc[p] = "find"
  /\ Goto(p, IF Active(req[p].old) THEN "retire" ELSE "reuse")
  /\ UNCHANGED <<stored, history>>

(* Reuse: every row of the user is revoked, the mirrors stay, 'Refresh token
   invalid' is thrown. *)
ReuseDetected(p) ==
  /\ pc[p] = "reuse"
  /\ revoked' = revoked \cup RowsOf(req[p].user)
  /\ ended' = ended \cup req[p].before
  /\ Finish(p)
  /\ UNCHANGED <<now, rows, mirror, delivered, rotated, loggedOut>>

(* Fault: the row is deleted instead of marked. *)
DeleteByHash(p) ==
  /\ pc[p] = "retire"
  /\ rows' = rows \ {req[p].old}
  /\ Goto(p, "unmirror")
  /\ UNCHANGED <<now, revoked, mirror, history>>

RevokeByHash(p) ==
  /\ pc[p] = "retire"
  /\ revoked' = revoked \cup ({req[p].old} \cap rows)
  /\ Goto(p, "unmirror")
  /\ UNCHANGED <<now, rows, mirror, history>>

DeleteMirror(p) ==
  LET r == req[p] IN
  /\ pc[p] = "unmirror"
  /\ mirror' = mirror \ {r.old}
  /\ \/ /\ r.op = "rotate"
        /\ Goto(p, "sign")
        /\ UNCHANGED loggedOut
     \/ /\ r.op = "logout"
        /\ Finish(p)
        /\ loggedOut' = loggedOut \cup {r.old}
  /\ UNCHANGED <<now, rows, revoked, delivered, rotated, ended>>

-----------------------------------------------------------------------------
(* revokeAllForUser: password change and password reset end with it. *)

StartRevokeAll(p, u) == Begin(p, "revokeAll", u, None, HeldBy(u), "list")

ListActive(p) ==
  /\ pc[p] = "list"
  /\ Call(p, "revoke")
  /\ req' = [req EXCEPT ![p].todo = {h \in RowsOf(req[p].user) : Active(h)}]
  /\ UNCHANGED <<stored, history>>

(* Fault: only the rows that were active when listed are revoked. *)
RevokeListed(p) ==
  /\ pc[p] = "revoke"
  /\ revoked' = revoked \cup req[p].todo
  /\ Goto(p, "wipe")
  /\ UNCHANGED <<now, rows, mirror, history>>

RevokeAll(p) ==
  /\ pc[p] = "revoke"
  /\ revoked' = revoked \cup RowsOf(req[p].user)
  /\ Goto(p, "wipe")
  /\ UNCHANGED <<now, rows, mirror, history>>

(* Promise.all: the mirrors of the listed rows go in any order. *)
WipeOne(p, h) ==
  /\ pc[p] = "wipe"
  /\ h \in req[p].todo
  /\ mirror' = mirror \ {h}
  /\ req' = [req EXCEPT ![p].todo = @ \ {h}]
  /\ UNCHANGED <<now, rows, revoked, pc, history>>

WipeDone(p) ==
  /\ pc[p] = "wipe"
  /\ req[p].todo = {}
  /\ ended' = ended \cup req[p].before
  /\ Finish(p)
  /\ UNCHANGED <<stored, delivered, rotated, loggedOut>>

-----------------------------------------------------------------------------

(* A storage call throws, or the process dies, before the next call. *)
Abort(p) ==
  /\ pc[p] # "idle"
  /\ Finish(p)
  /\ UNCHANGED <<stored, history>>

(* The TTL of a mirror starts when it is set, so at or after signing. *)
ExpireMirror(h) ==
  /\ h \in mirror
  /\ now >= ExpiryOf(h)
  /\ mirror' = mirror \ {h}
  /\ UNCHANGED <<now, rows, revoked, pc, req, history>>

Tick ==
  /\ now < MaxTime
  /\ now' = now + 1
  /\ UNCHANGED <<rows, revoked, mirror, pc, req, history>>

(* One step of a request that has begun. *)
Proceed(p) ==
  \/ Sign(p) \/ Create(p) \/ CreateRefused(p) \/ SetMirror(p)
  \/ FindActive(p) \/ ReuseDetected(p) \/ RevokeByHash(p) \/ DeleteMirror(p)
  \/ ListActive(p) \/ RevokeAll(p) \/ WipeDone(p)
  \/ \E h \in Tokens : WipeOne(p, h)

Start(p) ==
  \/ \E u \in Users : StartIssue(p, u) \/ StartRevokeAll(p, u)
  \/ \E h \in Tokens : StartRotate(p, h) \/ StartLogout(p, h)

Next ==
  \/ Tick
  \/ \E h \in Tokens : ExpireMirror(h)
  \/ \E p \in Requests : Start(p) \/ Proceed(p) \/ Abort(p)

Spec == Init /\ [][Next]_vars

-----------------------------------------------------------------------------
(* Every variable holds a value of its kind. *)
TypeOK ==
  /\ now \in Time
  /\ rows \subseteq Tokens /\ revoked \subseteq rows /\ mirror \subseteq Tokens
  /\ pc \in [Requests -> Calls]
  /\ req \in [Requests -> Locals]
  /\ delivered \subseteq Tokens /\ rotated \subseteq Tokens
  /\ loggedOut \subseteq Tokens /\ ended \subseteq Tokens

(* Redis never vouches for a session PostgreSQL does not have: a mirror, and
   a token in a client's hands, has its row (issue writes the row first). *)
MirrorHasSession == mirror \cup delivered \subseteq rows

(* Once the logout or the rotation of a token was answered, its row stays
   revoked and its mirror stays deleted, whatever the other requests do:
   those that signed the same token in the same second included. *)
SpentIsFinal == rotated \cup loggedOut \subseteq revoked \ mirror

(* Once a revoke-all or the answer to a reused token was sent, every token
   the user held when that request began stays revoked. *)
EndedIsFinal == ended \subseteq revoked

(* token.service.ts:72 takes a second presentation of a token for reuse: a
   rotation is never answered with a second successor of one token. *)
RedeemedOnce ==
  [][\A p \in Requests :
       SetMirror(p) /\ req[p].op = "rotate" => req[p].old \notin rotated]_vars

(* The tokens do what TokenLifecycle promises. *)
Lifecycle == INSTANCE TokenLifecycle
               WITH clock <- now, granted <- rows,
                    live <- {h \in Tokens : Active(h)}
LifecycleSpec == Lifecycle!Spec
=============================================================================
