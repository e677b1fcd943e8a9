------------------------------ MODULE Contact ------------------------------
(***************************************************************************)
(* Accounts and their addresses: RegisterService, EmailVerifyService,      *)
(* ChangeContactService for e-mail and PasswordChangeService.set, over the *)
(* columns of users (email, isEmailVerified), the EMAIL row of credentials *)
(* (its providerId) and the Redis records email-verify:{hash}.             *)
(*                                                                         *)
(* OtpService is what Otp shows about it: verify accepts no code but one   *)
(* sent for the user, channel and purpose, and may refuse any.             *)
(***************************************************************************)
EXTENDS Naturals

CONSTANTS Users, Emails,
          Relay,      \* addresses under APPLE_RELAY_DOMAIN
          OAuthOnly,  \* accounts present at start, without EMAIL credential
          Requests,   \* slots for concurrent requests
          Links,      \* the links that can be issued
          None

ASSUME ContactAssumption ==
  /\ OAuthOnly \subseteq Users /\ Relay \subseteq Emails
  /\ None \notin Users \cup Emails \cup Links \cup [user : Users, email : Emails]

VARIABLES
  present,    \* users: the accounts there are
  email,      \* users.email, None for null
  verified,   \* users.isEmailVerified
  provider,   \* credentials: providerId of the EMAIL row, None without one
  links,      \* Redis email-verify: link -> record, None if absent
  issued,     \* links ever generated: 32 random bytes do not repeat
  mailed,     \* links the mailer took
  req,        \* the requests in flight: next call, and locals
  sent,       \* history: <<user, address>> a verification code was sent for
  proven,     \* history: <<user, address>> whose link or code was presented
  origin,     \* history: the address an account began with
  disturbed   \* history: accounts with a change of address that failed half
              \* way, or that overlapped another writer of the account

rows == <<present, email, verified, provider>>
redis == <<links, issued, mailed>>
history == <<sent, proven, origin, disturbed>>
vars == <<rows, redis, req, history>>

LinkRecord == [user : Users, email : Emails]
Handlers == {"none", "register", "resend", "verify", "code", "change",
             "confirm", "set"}
Places == {"idle", "checkFree", "create", "storeLink", "mailLink",
           "findUnverified", "sendCode", "findResend", "readLink", "mark",
           "dropLink", "findAccount", "checkCode", "checkOwner", "update",
           "readCredential", "sync", "readUser", "readMissing", "pin"}
Frames == [user : Users \cup {None}, email : Emails \cup {None},
           at : Places, by : Handlers, link : Links \cup {None}]
Frame(at, by, u, e, l) ==
  [user |-> u, email |-> e, at |-> at, by |-> by, link |-> l]
NoFrame == Frame("idle", "none", None, None, None)

Owner(e) ==
  IF \E u \in present : email[u] = e
    THEN CHOOSE u \in present : email[u] = e ELSE None

(* Fault: the table has no unique constraints. *)
NoConstraint(column, e, u) == TRUE
(* email @unique and @@unique([provider, providerId]): no other row has e. *)
FreeFor(column, e, u) == \A v \in Users \ {u} : column[v] # e

Init ==
  /\ present = OAuthOnly
  /\ email \in [Users -> Emails \cup {None}]
  /\ \A u \in Users : u \notin OAuthOnly => email[u] = None
  /\ \A u \in Users : email[u] # None => FreeFor(email, email[u], u)
  /\ verified \in [Users -> BOOLEAN]
  /\ \A u \in Users : email[u] = None => ~verified[u]
  /\ provider = [u \in Users |-> None]
  /\ links = [l \in Links |-> None] /\ issued = {} /\ mailed = {}
  /\ req = [p \in Requests |-> NoFrame]
  /\ sent = {} /\ disturbed = {}
  /\ proven = {pair \in Users \X Emails : verified[pair[1]]
                                          /\ email[pair[1]] = pair[2]}
  /\ origin = email

(* A handler starts, moves on with its locals, or returns. *)
Enter(p, f) ==
  /\ req[p].at = "idle"
  /\ req' = [req EXCEPT ![p] = f]
  /\ UNCHANGED <<rows, redis, history>>
Go(p, place, u, e, l) ==
  req' = [req EXCEPT ![p] = Frame(place, req[p].by, u, e, l)]
Move(p, place) == Go(p, place, req[p].user, req[p].email, req[p].link)
Return(p) == req' = [req EXCEPT ![p] = NoFrame]

-----------------------------------------------------------------------------
(* POST register *)

StartRegister(p, e) == Enter(p, Frame("checkFree", "register", None, e, None))

CheckFree(p) ==
  /\ req[p].at = "checkFree"
  /\ IF Owner(req[p].email) = None THEN Move(p, "create") ELSE Return(p)
  /\ UNCHANGED <<rows, redis, history>>

(* One transaction: the account and its EMAIL credential, or neither. *)
Create(p) ==
  LET e == req[p].email IN
  /\ req[p].at = "create"
  /\ \E u \in Users \ present :
       /\ FreeFor(email, e, u) /\ FreeFor(provider, e, u)
       /\ present' = present \cup {u}
       /\ email' = [email EXCEPT ![u] = e]
       /\ provider' = [provider EXCEPT ![u] = e]
       /\ origin' = [origin EXCEPT ![u] = e]
       /\ Go(p, "storeLink", u, e, None)
  /\ UNCHANGED <<verified, redis, sent, proven, disturbed>>

CreateRefused(p) ==
  LET e == req[p].email IN
  /\ req[p].at = "create"
  /\ \E u \in Users : email[u] = e \/ provider[u] = e
  /\ Return(p)
  /\ UNCHANGED <<rows, redis, history>>

(* issueAndSend and issueOtpByEmail fail without failing the registration. *)
LinkFails(p) ==
  /\ req[p].by = "register" /\ req[p].at \in {"storeLink", "mailLink"}
  /\ Move(p, "findUnverified")
  /\ UNCHANGED <<rows, redis, history>>

-----------------------------------------------------------------------------
(* Links and codes: issueAndSend, issueOtpByEmail, POST email/verify/resend *)

(* Links bounds the number of links; past it a request waits. *)
StoreLink(p) ==
  LET r == req[p] IN
  /\ r.at = "storeLink"
  /\ \E l \in Links \ issued :
       /\ links' = [links EXCEPT ![l] = [user |-> r.user, email |-> r.email]]
       /\ issued' = issued \cup {l}
       /\ Go(p, "mailLink", r.user, r.email, l)
  /\ UNCHANGED <<rows, mailed, history>>

(* The link goes to the address in its record.  A change is answered then;
   a resend goes on only when a code was asked for too. *)
MailLink(p) ==
  /\ req[p].at = "mailLink"
  /\ mailed' = mailed \cup {req[p].link}
  /\ \/ req[p].by # "change" /\ Move(p, "findUnverified")
     \/ req[p].by # "register" /\ Return(p)
  /\ UNCHANGED <<rows, links, issued, history>>

FindUnverified(p) ==
  LET e == req[p].email
      u == Owner(e)
  IN
  /\ req[p].at = "findUnverified"
  /\ IF u = None THEN Return(p)
     ELSE IF verified[u] THEN Return(p) ELSE Go(p, "sendCode", u, e, None)
  /\ UNCHANGED <<rows, redis, history>>

(* otp.send, which may refuse: cooldown, throttle. *)
SendCode(p) ==
  LET r == req[p] IN
  /\ r.at = "sendCode"
  /\ sent' \in {sent, sent \cup {<<r.user, r.email>>}}
  /\ Return(p)
  /\ UNCHANGED <<rows, redis, proven, origin, disturbed>>

StartResend(p, e) == Enter(p, Frame("findResend", "resend", None, e, None))

FindResend(p) ==
  LET e == req[p].email
      u == Owner(e)
  IN
  /\ req[p].at = "findResend"
  /\ \/ /\ u # None /\ ~verified[u]
        /\ \E next \in {"storeLink", "findUnverified"} : Go(p, next, u, e, None)
     \/ Return(p)
  /\ UNCHANGED <<rows, redis, history>>

-----------------------------------------------------------------------------
(* POST email/verify and email/verify/otp *)

StartVerify(p, l) ==
  l \in mailed /\ Enter(p, Frame("readLink", "verify", None, None, l))

(* The record says which account and address the link was made for; confirm
   uses the account only. *)
ReadLink(p) ==
  LET l == req[p].link
      record == links[l]
      next == IF req[p].by = "verify" THEN "mark" ELSE "checkOwner"
  IN
  /\ req[p].at = "readLink"
  /\ \/ record = None /\ Return(p) /\ UNCHANGED proven
     \/ /\ record # None
        /\ Go(p, next, record.user, record.email, l)
        /\ proven' = proven \cup {<<record.user, record.email>>}
  /\ UNCHANGED <<rows, redis, sent, origin, disturbed>>

(* Fault: the mark of a change of address is left out. *)
MarkVerifyOnly(p) ==
  LET u == req[p].user IN
  /\ req[p].at = "mark"
  /\ verified' = IF req[p].by = "confirm" THEN verified
                 ELSE [verified EXCEPT ![u] = TRUE]
  /\ \/ req[p].by = "verify" /\ Move(p, "dropLink")
     \/ req[p].by = "confirm" /\ Move(p, "readCredential")
     \/ req[p].by = "code" /\ Return(p)
  /\ UNCHANGED <<present, email, provider, redis, history>>

(* markEmailVerified: whatever address the account has now. *)
Mark(p) ==
  /\ req[p].at = "mark"
  /\ verified' = [verified EXCEPT ![req[p].user] = TRUE]
  /\ \/ req[p].by = "verify" /\ Move(p, "dropLink")
     \/ req[p].by = "confirm" /\ Move(p, "readCredential")
     \/ req[p].by = "code" /\ Return(p)
  /\ UNCHANGED <<present, email, provider, redis, history>>

DropLink(p) ==
  /\ req[p].at = "dropLink"
  /\ links' = [links EXCEPT ![req[p].link] = None]
  /\ Return(p)
  /\ UNCHANGED <<rows, issued, mailed, history>>

StartVerifyCode(p, e) == Enter(p, Frame("findAccount", "code", None, e, None))

FindAccount(p) ==
  LET e == req[p].email
      u == Owner(e)
  IN
  /\ req[p].at = "findAccount"
  /\ IF u = None THEN Return(p) ELSE Go(p, "checkCode", u, e, None)
  /\ UNCHANGED <<rows, redis, history>>

(* Fault: the code is compared with those of every account. *)
CheckCodeOfAny(p) ==
  LET r == req[p] IN
  /\ r.at = "checkCode"
  /\ \/ Return(p) /\ UNCHANGED proven
     \/ \E pair \in sent :
          /\ proven' = proven \cup {pair}
          /\ Move(p, "mark")
  /\ UNCHANGED <<rows, redis, sent, origin, disturbed>>

(* otp.verify; the destination it returns is not looked at. *)
CheckCode(p) ==
  LET r == req[p] IN
  /\ r.at = "checkCode"
  /\ \/ Return(p) /\ UNCHANGED proven
     \/ \E e \in Emails :
          /\ <<r.user, e>> \in sent
          /\ proven' = proven \cup {<<r.user, e>>}
          /\ Move(p, "mark")
  /\ UNCHANGED <<rows, redis, sent, origin, disturbed>>

-----------------------------------------------------------------------------
(* POST email/change/request and email/change/confirm *)

StartChange(p, u, e) ==
  u \in present /\ Enter(p, Frame("checkOwner", "change", u, e, None))
StartConfirm(p, l) ==
  l \in mailed /\ Enter(p, Frame("readLink", "confirm", None, None, l))

(* Fault: the new address is written when it is asked for. *)
CheckOwnerThenUpdate(p) ==
  LET r == req[p] IN
  /\ r.at = "checkOwner"
  /\ IF Owner(r.email) \in {None, r.user} THEN Move(p, "update") ELSE Return(p)
  /\ UNCHANGED <<rows, redis, history>>

CheckOwner(p) ==
  LET r == req[p]
      next == IF r.by = "change" THEN "storeLink" ELSE "update"
  IN
  /\ r.at = "checkOwner"
  /\ IF Owner(r.email) \in {None, r.user} THEN Move(p, next) ELSE Return(p)
  /\ UNCHANGED <<rows, redis, history>>

(* Between these calls a request relies on the address it read or wrote. *)
Changing == {"mark", "readCredential", "sync"}
Relying(q) ==
  \/ req[q].by = "confirm" /\ req[q].at \in Changing \cup {"dropLink"}
  \/ req[q].by = "set" /\ req[q].at \in {"readMissing", "pin"}
Overlapped(p) ==
  \E q \in Requests \ {p} : Relying(q) /\ req[q].user = req[p].user

Update(p) ==
  LET r == req[p] IN
  /\ r.at = "update" /\ FreeFor(email, r.email, r.user)
  /\ email' = [email EXCEPT ![r.user] = r.email]
  /\ verified' = [verified EXCEPT ![r.user] = FALSE]
  /\ Move(p, "mark")
  /\ disturbed' = IF Overlapped(p) THEN disturbed \cup {r.user} ELSE disturbed
  /\ UNCHANGED <<present, provider, redis, sent, proven, origin>>

(* Fault: the credential is left as it is. *)
SkipCredential(p) ==
  /\ req[p].at = "readCredential"
  /\ Move(p, "dropLink")
  /\ UNCHANGED <<rows, redis, history>>

ReadCredential(p) ==
  LET r == req[p] IN
  /\ r.at = "readCredential"
  /\ IF provider[r.user] \in {None, r.email}
       THEN Move(p, "dropLink") ELSE Move(p, "sync")
  /\ UNCHANGED <<rows, redis, history>>

SyncCredential(p) ==
  LET r == req[p] IN
  /\ r.at = "sync" /\ FreeFor(provider, r.email, r.user)
  /\ provider' = [provider EXCEPT ![r.user] = r.email]
  /\ Move(p, "dropLink")
  /\ UNCHANGED <<present, email, verified, redis, history>>

-----------------------------------------------------------------------------
(* POST password/set *)

StartSet(p, u) ==
  u \in present /\ Enter(p, Frame("readUser", "set", u, None, None))

ReadUser(p) ==
  LET u == req[p].user IN
  /\ req[p].at = "readUser"
  /\ IF verified[u] /\ email[u] \notin Relay \cup {None}
       THEN Go(p, "readMissing", u, email[u], None) ELSE Return(p)
  /\ UNCHANGED <<rows, redis, history>>

ReadMissing(p) ==
  /\ req[p].at = "readMissing"
  /\ IF provider[req[p].user] = None THEN Move(p, "pin") ELSE Return(p)
  /\ UNCHANGED <<rows, redis, history>>

(* The credential is created under the address read two calls before. *)
Pin(p) ==
  LET r == req[p] IN
  /\ r.at = "pin" /\ provider[r.user] = None
  /\ FreeFor(provider, r.email, r.user)
  /\ provider' = [provider EXCEPT ![r.user] = r.email]
  /\ Return(p)
  /\ UNCHANGED <<present, email, verified, redis, history>>

-----------------------------------------------------------------------------

(* A constraint, a storage error, a refusing mailer or a lost process ends
   the request between two calls. *)
Abort(p) ==
  LET r == req[p] IN
  /\ r.at # "idle"
  /\ Return(p)
  /\ disturbed' = IF r.by = "confirm" /\ r.at \in Changing
                    THEN disturbed \cup {r.user} ELSE disturbed
  /\ UNCHANGED <<rows, redis, sent, proven, origin>>

(* emailVerifyTtlSeconds are over. *)
Expire(l) ==
  /\ links[l] # None
  /\ links' = [links EXCEPT ![l] = None]
  /\ UNCHANGED <<rows, issued, mailed, req, history>>

Start(p) ==
  \/ \E e \in Emails : \/ StartRegister(p, e) \/ StartResend(p, e)
                       \/ StartVerifyCode(p, e)
                       \/ \E u \in Users : StartChange(p, u, e)
  \/ \E l \in Links : StartVerify(p, l) \/ StartConfirm(p, l)
  \/ \E u \in Users : StartSet(p, u)

Proceed(p) ==
  \/ CheckFree(p) \/ Create(p) \/ CreateRefused(p) \/ LinkFails(p)
  \/ StoreLink(p) \/ MailLink(p) \/ FindUnverified(p) \/ SendCode(p)
  \/ FindResend(p) \/ ReadLink(p) \/ Mark(p) \/ DropLink(p) \/ FindAccount(p)
  \/ CheckCode(p) \/ CheckOwner(p) \/ Update(p) \/ ReadCredential(p)
  \/ SyncCredential(p) \/ ReadUser(p) \/ ReadMissing(p) \/ Pin(p)

Next ==
  \/ \E p \in Requests : Start(p) \/ Proceed(p) \/ Abort(p)
  \/ \E l \in Links : Expire(l)

Spec == Init /\ [][Next]_vars

-----------------------------------------------------------------------------
Distinct(column) ==
  \A u, v \in Users : u # v => column[u] # column[v] \/ column[u] = None

(* Every variable holds a value of its kind, and no two accounts have one
   address or one providerId. *)
TypeOK ==
  /\ present \subseteq Users
  /\ email \in [Users -> Emails \cup {None}]
  /\ verified \in [Users -> BOOLEAN]
  /\ provider \in [Users -> Emails \cup {None}]
  /\ links \in [Links -> LinkRecord \cup {None}]
  /\ issued \subseteq Links /\ mailed \subseteq issued
  /\ req \in [Requests -> Frames]
  /\ sent \subseteq Users \X Emails /\ proven \subseteq Users \X Emails
  /\ origin \in [Users -> Emails \cup {None}] /\ disturbed \subseteq Users
  /\ Distinct(email) /\ Distinct(provider)

(* Nobody is marked verified on another's account: a verified account
   presented a link or a code that was sent for that account. *)
VerifiedByOwnProof ==
  \A u \in Users : verified[u] => \E e \in Emails : <<u, e>> \in proven

(* An account's address is the one it began with or one whose link was
   presented, through failed, repeated and overlapping changes. *)
NewAddressProven ==
  \A u \in Users : email[u] # origin[u] => <<u, email[u]>> \in proven

(* A change of address that neither failed half way nor met another writer
   ends with the new address, marked verified, and with a password
   credential (change-contact.service.ts:76, 'Keep EMAIL credential
   providerId in sync') under that address. *)
ChangeTakesEffect ==
  \A p \in Requests :
    LET r == req[p] IN
    r.by = "confirm" /\ r.at = "dropLink" /\ r.user \notin disturbed =>
      /\ email[r.user] = r.email /\ verified[r.user]
      /\ provider[r.user] \in {None, r.email}

(* Outside such a change the credential of an account is under its address,
   so the address an account gave up can be registered again. *)
CredentialFollows ==
  \A u \in Users :
    \/ provider[u] \in {None, email[u]} \/ u \in disturbed
    \/ \E p \in Requests :
         req[p].by = "confirm" /\ req[p].at \in Changing /\ req[p].user = u

(* email-verify.service.ts:48, 'Click to verify your email', and
   change-contact.service.ts:54, 'Click to confirm your new email': an
   address marked verified is one whose link or code was presented. *)
VerifiedAddressProven ==
  \A u \in Users : verified[u] => <<u, email[u]>> \in proven
=============================================================================
