---------------------------- MODULE PasswordFlows ----------------------------
(***************************************************************************)
(* Passwords over sessions: LoginService with its lockout counter,         *)
(* PasswordChangeService.change, and PasswordResetService by link and by   *)
(* one-time code, each ending in an operation of Sessions.                 *)
(*                                                                         *)
(* A password stands for its bcrypt hash.  A slot of Requests runs one of  *)
(* these handlers, then the Sessions operation the handler ends with.      *)
(***************************************************************************)
EXTENDS Sessions

CONSTANTS Passwords,
          Suspended,  \* accounts whose status is not ACTIVE
          MaxFails,   \* AUTH_POLICY.loginMaxFails
          LockoutTtl, \* AUTH_POLICY.loginLockoutTtlSeconds, in coarse units
          Links       \* the reset links that can be issued

ASSUME PasswordAssumption ==
  /\ Suspended \subseteq Users
  /\ None \notin Passwords \cup Links
  /\ MaxFails \in Nat \ {0} /\ LockoutTtl \in Nat \ {0}

VARIABLES
  hash,      \* credentials: user -> password, None without EMAIL credential
  fails,     \* Redis login-fails: email -> count, 0 if absent
  lockout,   \* remaining TTL of that key
  links,     \* Redis pwd-reset: link -> user, None if absent
  issued,    \* links ever generated: 32 random bytes do not repeat
  mailed,    \* links the mailer took
  flow,      \* the handlers in flight: next storage call, and locals
  outdated,  \* history: tokens held when an answered change replaced the hash
  consumed   \* history: links whose reset was answered

pstored == <<hash, fails, lockout, links, issued, mailed>>
pvars == <<hash, fails, lockout, links, issued, mailed, flow, outdated, consumed>>
allvars == <<vars, pvars>>

Handlers == {"none", "login", "change", "forgot", "resetByLink", "resetByOtp"}
Places == {"idle", "readFails", "check", "recordFail", "clearFails", "issue",
           "compare", "readLink", "update", "deleteLink", "revoke", "tokens",
           "storeLink", "mailLink"}

(* held: the tokens the user held when the hash was replaced (history). *)
Frames == [at : Places, by : Handlers, user : Users \cup {None},
           given : Passwords \cup {None}, new : Passwords \cup {None},
           count : 0..MaxFails, link : Links \cup {None}, held : SUBSET Tokens]
Frame(place, handler, u, pw, new, l) ==
  [at |-> place, by |-> handler, user |-> u, given |-> pw, new |-> new,
   count |-> 0, link |-> l, held |-> {}]
NoFrame == Frame("idle", "none", None, None, None, None)

PInit ==
  /\ Init
  /\ hash \in [Users -> Passwords \cup {None}]
  /\ fails = [u \in Users |-> 0] /\ lockout = [u \in Users |-> 0]
  /\ links = [l \in Links |-> None] /\ issued = {} /\ mailed = {}
  /\ flow = [p \in Requests |-> NoFrame]
  /\ outdated = {} /\ consumed = {}

(* A handler starts, moves on, or returns without an effect of its own. *)
Enter(p, f) ==
  /\ flow[p].at = "idle" /\ pc[p] = "idle"
  /\ flow' = [flow EXCEPT ![p] = f]
  /\ UNCHANGED <<vars, pstored, outdated, consumed>>
At(p, place) == flow[p].at = place /\ UNCHANGED <<vars, outdated, consumed>>
Move(p, place) == flow' = [flow EXCEPT ![p].at = place]
Return(p) == flow' = [flow EXCEPT ![p] = NoFrame]

-----------------------------------------------------------------------------
(* POST login *)

StartLogin(p, u, pw) ==
  Enter(p, Frame("readFails", "login", u, pw, None, None))

(* Fault: the comparison with the maximum is off by one. *)
ReadFailsLate(p) ==
  LET u == flow[p].user IN
  /\ At(p, "readFails")
  /\ \/ fails[u] > MaxFails /\ Return(p)
     \/ /\ fails[u] <= MaxFails
        /\ flow' = [flow EXCEPT ![p].at = "check", ![p].count = fails[u]]
  /\ UNCHANGED pstored

(* Fault: a refused attempt counts too, and renews the TTL. *)
ReadFailsRenews(p) ==
  LET u == flow[p].user IN
  /\ At(p, "readFails")
  /\ \/ /\ fails[u] >= MaxFails
        /\ lockout' = [lockout EXCEPT ![u] = LockoutTtl]
        /\ Return(p)
     \/ /\ fails[u] < MaxFails
        /\ flow' = [flow EXCEPT ![p].at = "check", ![p].count = fails[u]]
        /\ UNCHANGED lockout
  /\ UNCHANGED <<hash, fails, links, issued, mailed>>

(* Too many failures: 429, and the counter and its TTL stay as they are. *)
ReadFails(p) ==
  LET u == flow[p].user IN
  /\ At(p, "readFails")
  /\ \/ fails[u] >= MaxFails /\ Return(p)
     \/ /\ fails[u] < MaxFails
        /\ flow' = [flow EXCEPT ![p].at = "check", ![p].count = fails[u]]
  /\ UNCHANGED pstored

(* Looks up account, status and credential, and compares.  No row these
   lookups read is ever deleted, so they are one step with the last read. *)
CheckPassword(p) ==
  LET f == flow[p] IN
  /\ At(p, "check")
  /\ \/ f.user \in Suspended /\ Return(p)
     \/ f.user \notin Suspended /\ f.given # hash[f.user] /\ Move(p, "recordFail")
     \/ f.user \notin Suspended /\ f.given = hash[f.user] /\ Move(p, "clearFails")
  /\ UNCHANGED pstored

(* Writes the count that was read, plus one, with a full TTL. *)
RecordFail(p) ==
  LET f == flow[p] IN
  /\ At(p, "recordFail")
  /\ fails' = [fails EXCEPT ![f.user] = f.count + 1]
  /\ lockout' = [lockout EXCEPT ![f.user] = LockoutTtl]
  /\ Return(p)
  /\ UNCHANGED <<hash, links, issued, mailed>>

(* Then tokens, or a 2FA challenge (TwoFactor) when a method is enabled. *)
ClearFails(p) ==
  LET u == flow[p].user IN
  /\ At(p, "clearFails")
  /\ fails' = [fails EXCEPT ![u] = 0]
  /\ lockout' = [lockout EXCEPT ![u] = 0]
  /\ Move(p, "issue") \/ Return(p)
  /\ UNCHANGED <<hash, links, issued, mailed>>

IssueTokens(p) ==
  /\ flow[p].at = "issue"
  /\ StartIssue(p, flow[p].user)
  /\ Move(p, "tokens")
  /\ UNCHANGED <<pstored, outdated, consumed>>

-----------------------------------------------------------------------------
(* POST password/change, password/reset and password/reset/otp *)

(* The access token is stateless: whoever has one may ask. *)
StartChange(p, u, current, new) ==
  Enter(p, Frame("compare", "change", u, current, new, None))

CompareCurrent(p) ==
  LET f == flow[p] IN
  /\ At(p, "compare")
  /\ IF hash[f.user] = f.given /\ f.given # f.new
       THEN Move(p, "update") ELSE Return(p)
  /\ UNCHANGED pstored

StartForgot(p, u) ==
  Enter(p, Frame("storeLink", "forgot", u, None, None, None))

(* Links bounds how many are issued; a request past the bound waits. *)
StoreLink(p) ==
  /\ At(p, "storeLink")
  /\ \E l \in Links \ issued :
       /\ links' = [links EXCEPT ![l] = flow[p].user]
       /\ issued' = issued \cup {l}
       /\ flow' = [flow EXCEPT ![p].at = "mailLink", ![p].link = l]
  /\ UNCHANGED <<hash, fails, lockout, mailed>>

(* A failing mailer is ignored. *)
MailLink(p) ==
  /\ At(p, "mailLink")
  /\ mailed' \in {mailed, mailed \cup {flow[p].link}}
  /\ Return(p)
  /\ UNCHANGED <<hash, fails, lockout, links, issued>>

StartReset(p, l, new) ==
  /\ l \in mailed
  /\ Enter(p, Frame("readLink", "resetByLink", None, None, new, l))

ReadLink(p) ==
  LET u == links[flow[p].link] IN
  /\ At(p, "readLink")
  /\ \/ /\ u # None /\ hash[u] # None
        /\ flow' = [flow EXCEPT ![p].at = "update", ![p].user = u]
     \/ u = None /\ Return(p)
     \/ u # None /\ hash[u] = None /\ Return(p)
  /\ UNCHANGED pstored

(* The one-time code was accepted: OtpService.verify is Otp.tla's. *)
StartOtpReset(p, u, new) ==
  /\ hash[u] # None
  /\ Enter(p, Frame("update", "resetByOtp", u, None, new, None))

(* Fault: the link survives the reset. *)
UpdateHashOnly(p) ==
  LET f == flow[p] IN
  /\ At(p, "update")
  /\ hash' = [hash EXCEPT ![f.user] = f.new]
  /\ flow' = [flow EXCEPT ![p].at = "revoke", ![p].held = HeldBy(f.user)]
  /\ UNCHANGED <<fails, lockout, links, issued, mailed>>

(* Fault: the update revokes the rows itself, past TokenService. *)
UpdateHashAndRows(p) ==
  LET f == flow[p] IN
  /\ flow[p].at = "update"
  /\ hash' = [hash EXCEPT ![f.user] = f.new]
  /\ revoked' = revoked \cup RowsOf(f.user)
  /\ Return(p)
  /\ UNCHANGED <<now, rows, mirror, pc, req, history, fails, lockout, links,
                 issued, mailed, outdated, consumed>>

(* The hash goes first; a link is deleted next; sessions end last. *)
UpdateHash(p) ==
  LET f == flow[p] IN
  /\ At(p, "update")
  /\ hash' = [hash EXCEPT ![f.user] = f.new]
  /\ flow' = [flow EXCEPT ![p].at = IF f.by = "resetByLink" THEN "deleteLink"
                                                           ELSE "revoke",
                          ![p].held = HeldBy(f.user)]
  /\ UNCHANGED <<fails, lockout, links, issued, mailed>>

DeleteLink(p) ==
  /\ At(p, "deleteLink")
  /\ links' = [links EXCEPT ![flow[p].link] = None]
  /\ Move(p, "revoke")
  /\ UNCHANGED <<hash, fails, lockout, issued, mailed>>

(* Fault: new tokens are issued and the old sessions are kept. *)
KeepSessions(p) ==
  /\ flow[p].at = "revoke"
  /\ StartIssue(p, flow[p].user)
  /\ Move(p, "tokens")
  /\ UNCHANGED <<pstored, outdated, consumed>>

RevokeSessions(p) ==
  /\ flow[p].at = "revoke"
  /\ StartRevokeAll(p, flow[p].user)
  /\ Move(p, "tokens")
  /\ UNCHANGED <<pstored, outdated, consumed>>

-----------------------------------------------------------------------------

(* The Sessions operation goes on; when it is over, so is the handler. *)
SessionStep(p) ==
  LET f == flow[p] IN
  /\ Proceed(p)
  /\ IF pc'[p] # "idle"
       THEN UNCHANGED <<flow, outdated, consumed>>
       ELSE /\ Return(p)
            /\ outdated' = outdated \cup f.held
            /\ consumed' = consumed \cup ({f.link} \ {None})
  /\ UNCHANGED pstored

(* A storage error or a lost process; no answer is sent. *)
PAbort(p) ==
  /\ flow[p].at # "idle" \/ pc[p] # "idle"
  /\ Return(p)
  /\ IF pc[p] = "idle" THEN UNCHANGED vars ELSE Abort(p)
  /\ UNCHANGED <<pstored, outdated, consumed>>

(* Refresh and logout are handlers of Sessions. *)
StartTokenHandler(p, h) ==
  /\ flow[p].at = "idle"
  /\ StartRotate(p, h) \/ StartLogout(p, h)
  /\ UNCHANGED pvars

ExpireLink(l) ==
  /\ links[l] # None
  /\ links' = [links EXCEPT ![l] = None]
  /\ UNCHANGED <<vars, hash, fails, lockout, issued, mailed, flow, outdated, consumed>>

(* The TTL of a counter runs; at its end Redis drops the key. *)
Elapse(u) ==
  /\ lockout[u] > 0
  /\ lockout' = [lockout EXCEPT ![u] = @ - 1]
  /\ fails' = [fails EXCEPT ![u] = IF lockout[u] = 1 THEN 0 ELSE @]
  /\ UNCHANGED <<vars, hash, links, issued, mailed, flow, outdated, consumed>>

SessionTime ==
  /\ Tick \/ \E h \in Tokens : ExpireMirror(h)
  /\ UNCHANGED pvars

PStart(p) ==
  \/ \E u \in Users :
       \/ StartForgot(p, u)
       \/ \E pw \in Passwords : StartLogin(p, u, pw) \/ StartOtpReset(p, u, pw)
       \/ \E pw, new \in Passwords : StartChange(p, u, pw, new)
  \/ \E l \in Links, new \in Passwords : StartReset(p, l, new)
  \/ \E h \in Tokens : StartTokenHandler(p, h)

PProceed(p) ==
  \/ ReadFails(p) \/ CheckPassword(p) \/ RecordFail(p) \/ ClearFails(p)
  \/ IssueTokens(p) \/ CompareCurrent(p) \/ StoreLink(p) \/ MailLink(p)
  \/ ReadLink(p) \/ UpdateHash(p) \/ DeleteLink(p) \/ RevokeSessions(p)
  \/ SessionStep(p)

PNext ==
  \/ SessionTime
  \/ \E l \in Links : ExpireLink(l)
  \/ \E u \in Users : Elapse(u)
  \/ \E p \in Requests : PStart(p) \/ PProceed(p) \/ PAbort(p)

PSpec == PInit /\ [][PNext]_allvars

(* Handlers are served, and the TTL of a counter runs out. *)
PFairSpec ==
  /\ PSpec
  /\ \A p \in Requests : WF_allvars(PProceed(p))
  /\ \A u \in Users : WF_allvars(Elapse(u))

-----------------------------------------------------------------------------
(* Every variable holds a value of its kind; a handler that handed over to
   Sessions, or none, is what a busy slot of Sessions belongs to. *)
PTypeOK ==
  /\ TypeOK
  /\ hash \in [Users -> Passwords \cup {None}]
  /\ fails \in [Users -> 0..MaxFails] /\ lockout \in [Users -> 0..LockoutTtl]
  /\ links \in [Links -> Users \cup {None}]
  /\ mailed \subseteq issued /\ issued \subseteq Links
  /\ flow \in [Requests -> Frames]
  /\ outdated \subseteq Tokens /\ consumed \subseteq Links
  /\ \A p \in Requests : pc[p] # "idle" => flow[p].at \in {"idle", "tokens"}

(* When a change or a reset of a password was answered, every session that
   was in a client's hands while the old hash was still in force is revoked,
   and stays so: the hash is replaced before the sessions are listed. *)
OutdatedSessionsEnd == outdated \subseteq revoked

(* A reset link whose reset was answered is gone from Redis for good. *)
ConsumedLinkGone == \A l \in consumed : l \in issued /\ links[l] = None

(* A lockout ends although logins keep coming and are refused. *)
LockoutEnds ==
  \A u \in Users : fails[u] >= MaxFails ~> fails[u] < MaxFails
=============================================================================
