----------------------------- MODULE TwoFactor -----------------------------
(***************************************************************************)
(* Second factors: TwoFactorService and TotpService over their two tables  *)
(* and the challenges LoginService opens in Redis.                         *)
(*                                                                         *)
(* A secret stands for the authenticator codes made from it, a backup code *)
(* for its row and hash.  OtpService is taken at what Otp shows: it        *)
(* accepts no code but one sent for the user, channel and purpose.         *)
(***************************************************************************)
EXTENDS Naturals, FiniteSets

CONSTANTS Users,
          Types,       \* the method types in use
          Requests,    \* slots for concurrent requests
          MethodIds, Secrets, BackupCodes, Challenges, \* all that are generated
          BatchSize,   \* BACKUP_CODE_COUNT
          None

OtpTypes == Types \ {"TOTP"}

ASSUME TwoFactorAssumption ==
  /\ Types \subseteq {"TOTP", "EMAIL_OTP", "SMS_OTP"}
  /\ BatchSize \in Nat \ {0}
  /\ "otp" \notin Secrets \cup BackupCodes
  /\ Secrets \cap BackupCodes = {}
  /\ None \notin Users \cup MethodIds \cup Secrets \cup BackupCodes
  /\ None # "otp"

VARIABLES
  method,    \* two_factor_methods: user and type -> row
  backup,    \* two_factor_backup_codes: code -> row
  challenge, \* Redis 2fa-challenge: id -> user and method ids
  sent,      \* codes OtpService would accept: user, type, purpose
  req,       \* the requests in flight: next call, and locals
  owner,     \* history: method id, secret, backup code -> user, None if unused
  asked,     \* history: challenge -> what it was stored with
  removed,   \* history: ids of deleted methods
  proven,    \* history: secrets whose code enabled a method
  ever,      \* history: every code that was sent
  granted    \* history: the sessions given for challenges

stored == <<method, backup, challenge, sent>>
history == <<owner, asked, removed, proven, ever, granted>>
vars == <<stored, req, history>>

Purposes == {"login", "enroll-2fa"}
Generated == MethodIds \cup Secrets \cup BackupCodes
Givens == Secrets \cup BackupCodes \cup {"otp"}
Row(id, enabled, secret) == [id |-> id, enabled |-> enabled, secret |-> secret]
NoRow == Row(None, FALSE, None)
Rows == [id : MethodIds, enabled : BOOLEAN, secret : Secrets \cup {None}]
CodeRow(u, used) == [used |-> used, user |-> u]
NoCode == CodeRow(None, FALSE)
CodeRows == [used : BOOLEAN, user : Users]
NoChallenge == [user |-> None, ids |-> {}]
ChallengeRecords == [user : Users, ids : SUBSET MethodIds]
OtpCodes == [user : Users, type : Types, purpose : Purposes]

Places == {"idle", "readMethods", "storeChallenge", "readChallenge",
           "readEnabled", "sendOtp", "verifyOtp", "findBackup", "findAgain",
           "consumeBackup", "touch", "dropChallenge", "issue", "findExisting",
           "upsert", "findMethod", "enable", "countBackup", "findById",
           "delete", "readRemaining", "clear", "readOwned", "deleteOld",
           "insertNew"}
Goals == {"none", "login", "send", "verify", "enroll", "confirm", "disable",
          "regenerate"}
(* ids: method ids read; gone: methods removed before the request began
   (history); old: rows a replacement deletes. *)
Frames == [challenge : Challenges \cup {None}, id : MethodIds \cup {None},
           user : Users \cup {None}, ids : SUBSET MethodIds,
           type : Types \cup {None}, at : Places, for : Goals,
           given : Givens \cup {None}, gone : SUBSET MethodIds,
           old : SUBSET BackupCodes]
Frame(place, goal, u, t, code, c, id) ==
  [challenge |-> c, id |-> id, user |-> u, ids |-> {}, type |-> t,
   at |-> place, for |-> goal, given |-> code, gone |-> {}, old |-> {}]
NoFrame == Frame("idle", "none", None, None, None, None, None)

Init ==
  /\ method = [k \in Users \X Types |-> NoRow]
  /\ backup = [c \in BackupCodes |-> NoCode]
  /\ challenge = [c \in Challenges |-> NoChallenge]
  /\ sent = {}
  /\ req = [p \in Requests |-> NoFrame]
  /\ owner = [x \in Generated |-> None]
  /\ asked = [c \in Challenges |-> NoChallenge]
  /\ removed = {} /\ proven = {} /\ ever = {} /\ granted = {}

Unused(S) == {x \in S : owner[x] = None}
RowOf(p) == method[<<req[p].user, req[p].type>>]
EnabledIds(u) == {method[<<u, t>>].id : t \in {s \in Types : method[<<u, s>>].enabled}}
(* Rows are found by id in update and delete; without one Prisma throws. *)
HasRow(p) == RowOf(p).id = req[p].id
RowsOf(u) == {c \in BackupCodes : backup[c].user = u}

Begin(p, frame) ==
  /\ req[p].at = "idle"
  /\ req' = [req EXCEPT ![p] = frame]
  /\ UNCHANGED <<stored, history>>
Move(p, place) == req' = [req EXCEPT ![p].at = place]
Return(p) == req' = [req EXCEPT ![p] = NoFrame]

-----------------------------------------------------------------------------
(* Login with a matching password *)

StartLogin(p, u) ==
  Begin(p, Frame("readMethods", "login", u, None, None, None, None))

(* Without an enabled method the login ends in tokens at once. *)
ReadMethods(p) ==
  LET ids == EnabledIds(req[p].user) IN
  /\ req[p].at = "readMethods"
  /\ \/ ids = {} /\ Return(p)
     \/ /\ ids # {}
        /\ req' = [req EXCEPT ![p].at = "storeChallenge", ![p].ids = ids]
  /\ UNCHANGED <<stored, history>>

StoreChallenge(p) ==
  LET record == [user |-> req[p].user, ids |-> req[p].ids] IN
  /\ req[p].at = "storeChallenge"
  /\ \E c \in Challenges :
       /\ asked[c] = NoChallenge
       /\ challenge' = [challenge EXCEPT ![c] = record]
       /\ asked' = [asked EXCEPT ![c] = record]
  /\ Return(p)
  /\ UNCHANGED <<method, backup, sent, owner, removed, proven, ever, granted>>

-----------------------------------------------------------------------------
(* A challenge: sendChallengeCode and verifyChallenge *)

StartChallenge(p, goal, c, t, code) ==
  Begin(p, [Frame("readChallenge", goal, None, t, code, c, None)
              EXCEPT !.gone = removed])

ReadChallenge(p) ==
  LET record == challenge[req[p].challenge] IN
  /\ req[p].at = "readChallenge"
  /\ \/ record = NoChallenge /\ Return(p)
     \/ /\ record # NoChallenge
        /\ req' = [req EXCEPT ![p].at = "readEnabled", ![p].user = record.user,
                              ![p].ids = record.ids]
  /\ UNCHANGED <<stored, history>>

(* Fault: any enabled method of the type will do. *)
AnswersAny(row, ids) == row.enabled
(* The method must be enabled and one the challenge was issued for. *)
Answers(row, ids) == row.enabled /\ row.id \in ids

(* An authenticator code is compared at once, with the row just read. *)
ReadEnabled(p) ==
  LET r == req[p]
      row == RowOf(p)
      next == CASE r.for = "send" -> "sendOtp"
                [] r.for = "verify" /\ r.type # "TOTP" -> "verifyOtp"
                [] r.for = "verify" /\ r.type = "TOTP" /\ row.secret = r.given -> "touch"
                [] OTHER -> "findBackup"
  IN
  /\ r.at = "readEnabled"
  /\ \/ ~Answers(row, r.ids) /\ Return(p)
     \/ /\ Answers(row, r.ids)
        /\ req' = [req EXCEPT ![p].at = next, ![p].id = row.id]
  /\ UNCHANGED <<stored, history>>

PurposeOf(p) == IF req[p].for \in {"send", "verify"} THEN "login" ELSE "enroll-2fa"
OtpOf(p) ==
  {code \in sent : /\ code.user = req[p].user
                   /\ code.type = req[p].type
                   /\ code.purpose = PurposeOf(p)}

(* OtpService.send, which may refuse. *)
SendOtp(p) ==
  LET code == [user |-> req[p].user, type |-> req[p].type, purpose |-> PurposeOf(p)] IN
  /\ req[p].at = "sendOtp"
  /\ \/ sent' = sent \cup {code} /\ ever' = ever \cup {code}
     \/ UNCHANGED <<sent, ever>>
  /\ Return(p)
  /\ UNCHANGED <<method, backup, challenge, owner, asked, removed, proven, granted>>

(* OtpService.verify: an accepted code is deleted, unless a failing
   verification writes it back; any code may be refused. *)
AcceptOtp(p) ==
  /\ req[p].at = "verifyOtp" /\ req[p].given = "otp" /\ OtpOf(p) # {}
  /\ \/ sent' = sent \ OtpOf(p)
     \/ UNCHANGED sent
  /\ Move(p, IF req[p].for = "verify" THEN "touch" ELSE "enable")
  /\ UNCHANGED <<method, backup, challenge, history>>

RefuseOtp(p) ==
  /\ req[p].at = "verifyOtp"
  /\ IF req[p].for = "verify" THEN Move(p, "findBackup") ELSE Return(p)
  /\ UNCHANGED <<stored, history>>

(* findBackupCode finds it. *)
Valid(c, u) == backup[c] = CodeRow(u, FALSE)

(* A refused one-time code looks for a backup code twice. *)
FindBackup(p) ==
  LET r == req[p]
      found == r.given \in BackupCodes /\ Valid(r.given, r.user)
  IN
  /\ r.at \in {"findBackup", "findAgain"}
  /\ IF found THEN Move(p, "consumeBackup")
     ELSE IF r.at = "findBackup" /\ r.type # "TOTP" THEN Move(p, "findAgain")
     ELSE Return(p)
  /\ UNCHANGED <<stored, history>>

(* Fault: the update does not need the row. *)
ConsumeBackupGone(p) ==
  /\ req[p].at = "consumeBackup"
  /\ backup' = [backup EXCEPT ![req[p].given] = CodeRow(@.user, TRUE)]
  /\ Move(p, "touch")
  /\ UNCHANGED <<method, challenge, sent, history>>

(* Fault: usedAt is not set. *)
ConsumeBackupUnmarked(p) ==
  /\ req[p].at = "consumeBackup"
  /\ IF backup[req[p].given] = NoCode THEN Return(p) ELSE Move(p, "touch")
  /\ UNCHANGED <<stored, history>>

(* An update by id, used or not. *)
ConsumeBackup(p) ==
  LET c == req[p].given IN
  /\ req[p].at = "consumeBackup"
  /\ \/ backup[c] = NoCode /\ Return(p) /\ UNCHANGED backup
     \/ /\ backup[c] # NoCode
        /\ backup' = [backup EXCEPT ![c] = CodeRow(@.user, TRUE)]
        /\ Move(p, "touch")
  /\ UNCHANGED <<method, challenge, sent, history>>

(* touchLastUsed fails when the method is gone. *)
Touch(p) ==
  /\ req[p].at = "touch"
  /\ IF HasRow(p) THEN Move(p, "dropChallenge") ELSE Return(p)
  /\ UNCHANGED <<stored, history>>

(* Fault: the challenge is left to its TTL. *)
KeepChallenge(p) ==
  /\ req[p].at = "dropChallenge"
  /\ Move(p, "issue")
  /\ UNCHANGED <<stored, history>>

DropChallenge(p) ==
  /\ req[p].at = "dropChallenge"
  /\ challenge' = [challenge EXCEPT ![req[p].challenge] = NoChallenge]
  /\ Move(p, "issue")
  /\ UNCHANGED <<method, backup, sent, history>>

(* TokenService.issue *)
Issue(p) ==
  /\ req[p].at = "issue"
  /\ granted' = granted \cup
       {[challenge |-> req[p].challenge, id |-> req[p].id, user |-> req[p].user,
         type |-> req[p].type, gone |-> req[p].gone, by |-> req[p].given]}
  /\ Return(p)
  /\ UNCHANGED <<stored, owner, asked, removed, proven, ever>>

-----------------------------------------------------------------------------
(* Enrolment *)

(* Fault: the update half of the upsert leaves isEnabled alone. *)
UpsertKeeping(u, t, secret) ==
  LET row == method[<<u, t>>] IN
  \E id \in IF row = NoRow THEN Unused(MethodIds) ELSE {row.id} :
    /\ method' = [method EXCEPT ![<<u, t>>] = Row(id, row.enabled, secret)]
    /\ owner' = [x \in Generated |-> IF x \in {id, secret} THEN u ELSE owner[x]]

(* A new row has a new id; an old row keeps its id and is disabled. *)
Upsert(u, t, secret) ==
  LET row == method[<<u, t>>] IN
  \E id \in IF row = NoRow THEN Unused(MethodIds) ELSE {row.id} :
    /\ method' = [method EXCEPT ![<<u, t>>] = Row(id, FALSE, secret)]
    /\ owner' = [x \in Generated |-> IF x \in {id, secret} THEN u ELSE owner[x]]

(* TotpService.enroll: one call, whatever the state of the method. *)
EnrollTotp(p, u) ==
  /\ req[p].at = "idle" /\ "TOTP" \in Types
  /\ \E s \in Unused(Secrets) : Upsert(u, "TOTP", s)
  /\ UNCHANGED <<backup, challenge, sent, req, asked, removed, proven, ever, granted>>

StartEnroll(p, u, t) ==
  Begin(p, Frame("findExisting", "enroll", u, t, None, None, None))

FindExisting(p) ==
  /\ req[p].at = "findExisting"
  /\ IF RowOf(p).enabled THEN Return(p) ELSE Move(p, "upsert")
  /\ UNCHANGED <<stored, history>>

(* The row is written before the code is sent. *)
UpsertOtp(p) ==
  /\ req[p].at = "upsert"
  /\ Upsert(req[p].user, req[p].type, None)
  /\ Move(p, "sendOtp")
  /\ UNCHANGED <<backup, challenge, sent, asked, removed, proven, ever, granted>>

StartConfirm(p, u, t, code) ==
  Begin(p, Frame("findMethod", "confirm", u, t, code, None, None))

FindMethod(p) ==
  LET row == RowOf(p)
      r == req[p]
      refused == \/ row = NoRow \/ row.enabled
                 \/ r.type = "TOTP" /\ row.secret # r.given
  IN
  /\ r.at = "findMethod"
  /\ \/ refused /\ Return(p)
     \/ /\ ~refused
        /\ req' = [req EXCEPT ![p].id = row.id,
                     ![p].at = IF r.type = "TOTP" THEN "enable" ELSE "verifyOtp"]
  /\ UNCHANGED <<stored, history>>

(* An update by id: it fails when the row is gone. *)
Enable(p) ==
  LET key == <<req[p].user, req[p].type>> IN
  /\ req[p].at = "enable"
  /\ \/ ~HasRow(p) /\ Return(p) /\ UNCHANGED <<method, proven>>
     \/ /\ HasRow(p)
        /\ method' = [method EXCEPT ![key] = Row(@.id, TRUE, @.secret)]
        /\ proven' = proven \cup ({req[p].given} \cap Secrets)
        /\ Move(p, "countBackup")
  /\ UNCHANGED <<backup, challenge, sent, owner, asked, removed, ever, granted>>

-----------------------------------------------------------------------------
(* Backup codes *)

(* issueBackupCodesIfNone *)
CountBackup(p) ==
  /\ req[p].at = "countBackup"
  /\ IF \E c \in BackupCodes : Valid(c, req[p].user)
       THEN Return(p) ELSE Move(p, "deleteOld")
  /\ UNCHANGED <<stored, history>>

StartRegenerate(p, u) ==
  Begin(p, Frame("readOwned", "regenerate", u, None, None, None, None))

ReadOwned(p) ==
  /\ req[p].at = "readOwned"
  /\ IF EnabledIds(req[p].user) = {} THEN Return(p) ELSE Move(p, "deleteOld")
  /\ UNCHANGED <<stored, history>>

(* The transaction deletes the rows its first statement sees.  They are gone
   for others when it commits, and rows committed meanwhile survive. *)
DeleteOld(p) ==
  /\ req[p].at = "deleteOld"
  /\ req' = [req EXCEPT ![p].at = "insertNew", ![p].old = RowsOf(req[p].user)]
  /\ UNCHANGED <<stored, history>>

InsertNew(p) ==
  LET u == req[p].user IN
  /\ req[p].at = "insertNew"
  /\ \E new \in SUBSET Unused(BackupCodes) :
       /\ Cardinality(new) = BatchSize
       /\ backup' = [c \in BackupCodes |->
            IF c \in new THEN CodeRow(u, FALSE)
            ELSE IF c \in req[p].old THEN NoCode ELSE backup[c]]
       /\ owner' = [x \in Generated |-> IF x \in new THEN u ELSE owner[x]]
  /\ Return(p)
  /\ UNCHANGED <<method, challenge, sent, asked, removed, proven, ever, granted>>

-----------------------------------------------------------------------------
(* Disabling *)

StartDisable(p, u, id) ==
  Begin(p, Frame("findById", "disable", u, None, None, None, id))

FindById(p) ==
  /\ req[p].at = "findById"
  /\ \/ \E t \in Types :
          /\ method[<<req[p].user, t>>].id = req[p].id
          /\ req' = [req EXCEPT ![p].at = "delete", ![p].type = t]
     \/ /\ \A t \in Types : method[<<req[p].user, t>>].id # req[p].id
        /\ Return(p)
  /\ UNCHANGED <<stored, history>>

(* Fault: the row is disabled instead. *)
DeleteSoftly(p) ==
  LET key == <<req[p].user, req[p].type>> IN
  /\ req[p].at = "delete"
  /\ HasRow(p)
  /\ method' = [method EXCEPT ![key] = Row(@.id, FALSE, @.secret)]
  /\ removed' = removed \cup {req[p].id}
  /\ Move(p, "readRemaining")
  /\ UNCHANGED <<backup, challenge, sent, owner, asked, proven, ever, granted>>

Delete(p) ==
  /\ req[p].at = "delete"
  /\ \/ ~HasRow(p) /\ Return(p) /\ UNCHANGED <<method, removed>>
     \/ /\ HasRow(p)
        /\ method' = [method EXCEPT ![<<req[p].user, req[p].type>>] = NoRow]
        /\ removed' = removed \cup {req[p].id}
        /\ Move(p, "readRemaining")
  /\ UNCHANGED <<backup, challenge, sent, owner, asked, proven, ever, granted>>

ReadRemaining(p) ==
  /\ req[p].at = "readRemaining"
  /\ IF EnabledIds(req[p].user) = {} THEN Move(p, "clear") ELSE Return(p)
  /\ UNCHANGED <<stored, history>>

Clear(p) ==
  /\ req[p].at = "clear"
  /\ backup' = [c \in BackupCodes |->
                  IF c \in RowsOf(req[p].user) THEN NoCode ELSE backup[c]]
  /\ Return(p)
  /\ UNCHANGED <<method, challenge, sent, history>>

-----------------------------------------------------------------------------

(* A storage error or a lost process; a transaction leaves nothing. *)
Abort(p) ==
  /\ req[p].at # "idle"
  /\ Return(p)
  /\ UNCHANGED <<stored, history>>

(* A TTL ends. *)
ExpireChallenge(c) ==
  /\ challenge[c] # NoChallenge
  /\ challenge' = [challenge EXCEPT ![c] = NoChallenge]
  /\ UNCHANGED <<method, backup, sent, req, history>>
ExpireOtp(code) ==
  /\ sent' = sent \ {code}
  /\ UNCHANGED <<method, backup, challenge, req, history>>

Start(p) ==
  \/ \E u \in Users : StartLogin(p, u) \/ StartRegenerate(p, u) \/ EnrollTotp(p, u)
  \/ \E c \in Challenges :
       \/ \E t \in OtpTypes : StartChallenge(p, "send", c, t, None)
       \/ \E t \in Types, code \in Givens : StartChallenge(p, "verify", c, t, code)
  \/ \E u \in Users, t \in OtpTypes : StartEnroll(p, u, t)
  \/ \E u \in Users, t \in Types, code \in Givens : StartConfirm(p, u, t, code)
  \/ \E u \in Users, id \in MethodIds : StartDisable(p, u, id)

Proceed(p) ==
  \/ ReadMethods(p) \/ StoreChallenge(p) \/ ReadChallenge(p) \/ ReadEnabled(p)
  \/ SendOtp(p) \/ AcceptOtp(p) \/ RefuseOtp(p) \/ FindBackup(p)
  \/ ConsumeBackup(p) \/ Touch(p) \/ DropChallenge(p) \/ Issue(p)
  \/ FindExisting(p) \/ UpsertOtp(p) \/ FindMethod(p) \/ Enable(p)
  \/ CountBackup(p) \/ ReadOwned(p) \/ DeleteOld(p) \/ InsertNew(p)
  \/ FindById(p) \/ Delete(p) \/ ReadRemaining(p) \/ Clear(p)

Next ==
  \/ \E p \in Requests : Start(p) \/ Proceed(p) \/ Abort(p)
  \/ \E c \in Challenges : ExpireChallenge(c)
  \/ \E code \in sent : ExpireOtp(code)

Spec == Init /\ [][Next]_vars

-----------------------------------------------------------------------------
(* Every variable holds a value of its kind, and a row's id, secret and
   backup codes were generated for its user. *)
TypeOK ==
  /\ method \in [Users \X Types -> Rows \cup {NoRow}]
  /\ backup \in [BackupCodes -> CodeRows \cup {NoCode}]
  /\ challenge \in [Challenges -> ChallengeRecords \cup {NoChallenge}]
  /\ asked \in [Challenges -> ChallengeRecords \cup {NoChallenge}]
  /\ sent \subseteq OtpCodes /\ ever \subseteq OtpCodes
  /\ req \in [Requests -> Frames]
  /\ owner \in [Generated -> Users \cup {None}]
  /\ removed \subseteq MethodIds /\ proven \subseteq Secrets
  /\ granted \subseteq [challenge : Challenges, id : MethodIds, user : Users,
                        type : Types, gone : SUBSET MethodIds, by : Givens]

(* A session given for a challenge goes to the user whose password opened the
   challenge, through a method the challenge was issued for, against a code
   of that user: one of an own secret, an own backup code, or a one-time code
   sent to log in with that type. *)
GrantedAsChallenged ==
  \A g \in granted :
    /\ asked[g.challenge].user = g.user /\ g.id \in asked[g.challenge].ids
    /\ \/ g.by \in Secrets \cup BackupCodes /\ owner[g.by] = g.user
       \/ /\ g.by = "otp"
          /\ [user |-> g.user, type |-> g.type, purpose |-> "login"] \in ever

(* A method that was disabled before a verification began gives it no session,
   whatever is enrolled in its place and whichever challenge is shown. *)
RemovedGrantsNothing == \A g \in granted : g.id \notin g.gone

(* two-factor.prisma:40, usedAt "null = still valid": requests that follow one
   another get one session of a backup code, whichever challenges they answer
   and however the codes are replaced, cleared and lost in between. *)
BackupCodeOnce ==
  [][\A p \in Requests :
       Issue(p) /\ req[p].given \in BackupCodes =>
         \A g \in granted : g.by # req[p].given]_vars

(* Requests that follow one another get one session of a challenge. *)
ChallengeOnce ==
  [][\A p \in Requests :
       Issue(p) => \A g \in granted : g.challenge # req[p].challenge]_vars

(* Requests that follow one another: an enabled authenticator has the secret
   whose code its user presented. *)
EnabledSecretProven ==
  \A k \in Users \X Types :
    k[2] = "TOTP" /\ method[k].enabled => method[k].secret \in proven
=============================================================================
