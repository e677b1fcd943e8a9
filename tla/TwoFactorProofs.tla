--------------------------- MODULE TwoFactorProofs ---------------------------
(***************************************************************************)
(* Proofs about second factors, for any number of users, values and        *)
(* concurrent requests: every variable keeps a value of its kind, and a    *)
(* challenge gives a session only as it allows and never through a method  *)
(* that was removed before.  At the end, what holds of requests that do    *)
(* not overlap: backup codes and challenges count once, and an enabled     *)
(* authenticator has a secret its user has proven.                         *)
(***************************************************************************)
EXTENDS TwoFactor, TLAPS

(* A row's id and secret were generated for its user; its id is no other
   row's, and no removed method's. *)
RowOwned(row, u, t) ==
  /\ owner[row.id] = u /\ row.id \notin removed
  /\ row.secret # None => owner[row.secret] = u
  /\ \A v \in Users, s \in Types :
       method[<<v, s>>].id = row.id => v = u /\ s = t
RowsOwned ==
  \A u \in Users, t \in Types :
    method[<<u, t>>].id # None => RowOwned(method[<<u, t>>], u, t)

(* So was each backup code. *)
CodesOwned ==
  \A c \in BackupCodes : backup[c].user # None => owner[c] = backup[c].user

(* A challenge is what it was stored with; an id that was removed had been
   generated; a code that can be used was sent. *)
Recorded ==
  /\ \A c \in Challenges : challenge[c] # NoChallenge => challenge[c] = asked[c]
  /\ \A id \in removed : owner[id] # None
  /\ sent \subseteq ever

(* Places of a verification that knows its challenge, of one that knows its
   method, and of one whose code was accepted. *)
Passed == {"touch", "dropChallenge", "issue"}
Verifying == {"findBackup", "findAgain", "consumeBackup"} \cup Passed
Reached(r) == r.at \in Verifying \/ (r.at = "verifyOtp" /\ r.for = "verify")

(* Where a request has the values it uses, and which handlers reach a place
   that several could. *)
Located(p) ==
  LET r == req[p] IN
  /\ r.at \notin {"idle", "readChallenge"} => r.user \in Users
  /\ r.at \in {"readChallenge", "readEnabled", "sendOtp", "verifyOtp", "upsert",
               "findExisting", "findMethod", "enable", "delete"} \cup Verifying =>
       r.type \in Types
  /\ r.at \in {"verifyOtp", "enable", "findById", "delete"} \cup Verifying =>
       r.id \in MethodIds
  /\ r.at \in Verifying => r.for = "verify"
  /\ r.at \in {"readChallenge", "readEnabled"} => r.for \in {"send", "verify"}
  /\ r.at = "verifyOtp" => r.for \in {"verify", "confirm"}
  /\ r.at = "findMethod" => r.for = "confirm"
  /\ r.for = "verify" => r.given \in Givens

(* A verification acts for the user of its challenge, by a method the
   challenge names and that was there when it began; past the comparison it
   holds a code of that user. *)
Challenged(p) ==
  LET r == req[p] IN
  /\ r.gone \subseteq removed
  /\ r.at = "readChallenge" => r.challenge \in Challenges
  /\ r.at = "readEnabled" \/ Reached(r) =>
       /\ r.challenge \in Challenges
       /\ asked[r.challenge] = [user |-> r.user, ids |-> r.ids]
  /\ Reached(r) => r.id \in r.ids /\ r.id \notin r.gone
  /\ r.at = "consumeBackup" => r.given \in BackupCodes /\ owner[r.given] = r.user
  /\ r.at \in Passed =>
       \/ r.given \in Secrets \cup BackupCodes /\ owner[r.given] = r.user
       \/ /\ r.given = "otp"
          /\ [user |-> r.user, type |-> r.type, purpose |-> "login"] \in ever

RequestOK(p) == Located(p) /\ Challenged(p)

(* The inductive invariant. *)
IInv ==
  /\ TypeOK /\ RowsOwned /\ CodesOwned /\ Recorded
  /\ GrantedAsChallenged /\ RemovedGrantsNothing
  /\ \A p \in Requests : RequestOK(p)

USE TwoFactorAssumption

-----------------------------------------------------------------------------
(* A row that has an id is a row of the table. *)
LEMMA RowKinds ==
  ASSUME NEW row \in Rows \cup {NoRow}
  PROVE  /\ row.id \in MethodIds \cup {None} /\ row.secret \in Secrets \cup {None}
         /\ row.enabled \in BOOLEAN
         /\ row # NoRow => row \in Rows /\ row.id \in MethodIds
         /\ row.enabled \/ row.id # None => row \in Rows /\ row.id \in MethodIds
<1>1. CASE row \in Rows
  BY <1>1 DEF Rows
<1>2. CASE row = NoRow
  BY <1>2 DEF NoRow, Row
<1> QED
  BY <1>1, <1>2

(* The enabled methods have ids. *)
LEMMA EnabledAreIds ==
  ASSUME TypeOK, NEW u \in Users
  PROVE  EnabledIds(u) \subseteq MethodIds
<1>1. ASSUME NEW t \in Types, method[<<u, t>>].enabled
      PROVE  method[<<u, t>>].id \in MethodIds
  <2>1. method[<<u, t>>] \in Rows \cup {NoRow}
    BY DEF TypeOK
  <2> QED
    BY <1>1, <2>1, RowKinds
<1> QED
  BY <1>1 DEF EnabledIds

(* What requests and sessions rely on only grows: a generated value keeps its
   user, a challenge what it was stored with. *)
Grows ==
  /\ \A x \in Generated : owner[x] # None => owner'[x] = owner[x]
  /\ \A c \in Challenges : asked[c] # NoChallenge => asked'[c] = asked[c]
  /\ removed \subseteq removed' /\ ever \subseteq ever'

(* A request moves on without its locals. *)
SameLocals(p) ==
  /\ req'[p].user = req[p].user /\ req'[p].type = req[p].type
  /\ req'[p].id = req[p].id /\ req'[p].ids = req[p].ids
  /\ req'[p].for = req[p].for /\ req'[p].given = req[p].given
  /\ req'[p].challenge = req[p].challenge /\ req'[p].gone = req[p].gone

(* The other requests keep their slots. *)
Others(p) == \A q \in Requests : q # p => req'[q] = req[q]

(* A request that moves on keeps its locals. *)
LEMMA MoveFrame ==
  ASSUME TypeOK, NEW p \in Requests, NEW place \in Places, Move(p, place)
  PROVE  /\ req' \in [Requests -> Frames] /\ Others(p)
         /\ req'[p].at = place /\ SameLocals(p)
<1>1. req \in [Requests -> Frames] /\ req[p] \in Frames
  BY DEF TypeOK
<1> QED
  BY <1>1 DEF Move, Frames, SameLocals, Others

(* A request that returns leaves an empty slot. *)
LEMMA ReturnFrame ==
  ASSUME TypeOK, NEW p \in Requests, Return(p)
  PROVE  req' \in [Requests -> Frames] /\ Others(p) /\ RequestOK(p)'
<1>1. /\ NoFrame \in Frames /\ NoFrame.at = "idle" /\ NoFrame.for = "none"
      /\ NoFrame.gone = {}
  BY DEF NoFrame, Frame, Frames, Places, Goals
<1>2. req' \in [Requests -> Frames] /\ req'[p] = NoFrame /\ Others(p)
  BY <1>1 DEF TypeOK, Return, Others
<1>3. RequestOK(p)'
  BY <1>1, <1>2 DEF RequestOK, Located, Challenged, Reached, Verifying, Passed
<1> QED
  BY <1>2, <1>3

(* The other requests notice nothing. *)
LEMMA OthersOK ==
  ASSUME IInv, Grows, NEW p \in Requests, Others(p)
  PROVE  \A q \in Requests : q # p => RequestOK(q)'
<1> SUFFICES ASSUME NEW q \in Requests, q # p
             PROVE  RequestOK(q)'
  OBVIOUS
<1>1. req'[q] = req[q] /\ RequestOK(q)
  BY DEF IInv, Others
<1>2. Located(q)'
  BY <1>1 DEF RequestOK, Located
<1>3. ASSUME req[q].at = "readEnabled" \/ Reached(req[q])
      PROVE  asked'[req[q].challenge] = asked[req[q].challenge]
  <2>1. req[q].user \in Users
    BY <1>1, <1>3 DEF RequestOK, Located, Reached, Verifying, Passed
  <2>2. /\ req[q].challenge \in Challenges
        /\ asked[req[q].challenge].user = req[q].user
    BY <1>1, <1>3 DEF RequestOK, Challenged
  <2> QED
    BY <2>1, <2>2 DEF Grows, NoChallenge
<1>4. ASSUME req[q].at \in Verifying, req[q].given \in Secrets \cup BackupCodes,
             owner[req[q].given] = req[q].user
      PROVE  owner'[req[q].given] = req[q].user
  <2>1. req[q].user \in Users
    BY <1>1, <1>4 DEF RequestOK, Located, Verifying, Passed
  <2> QED
    BY <1>4, <2>1 DEF Grows, Generated
<1>5. req[q].at = "consumeBackup" => req[q].given \in BackupCodes /\ owner'[req[q].given] = req[q].user
  BY <1>1, <1>4 DEF RequestOK, Challenged, Verifying
<1>6. req[q].at \in Passed =>
        \/ req[q].given \in Secrets \cup BackupCodes /\ owner'[req[q].given] = req[q].user
        \/ /\ req[q].given = "otp"
           /\ [user |-> req[q].user, type |-> req[q].type, purpose |-> "login"] \in ever'
  BY <1>1, <1>4 DEF RequestOK, Challenged, Verifying, Grows
<1>7. Challenged(q)'
  BY <1>1, <1>3, <1>5, <1>6 DEF RequestOK, Challenged, Grows
<1> QED
  BY <1>2, <1>7 DEF RequestOK

(* The sessions given so far stay right. *)
LEMMA GrantedKept ==
  ASSUME IInv, Grows, UNCHANGED granted
  PROVE  GrantedAsChallenged' /\ RemovedGrantsNothing'
<1>1. ASSUME NEW g \in granted
      PROVE  /\ asked'[g.challenge].user = g.user /\ g.id \in asked'[g.challenge].ids
             /\ \/ g.by \in Secrets \cup BackupCodes /\ owner'[g.by] = g.user
                \/ /\ g.by = "otp"
                   /\ [user |-> g.user, type |-> g.type, purpose |-> "login"] \in ever'
  <2>1. g.challenge \in Challenges /\ g.user \in Users
    BY DEF IInv, TypeOK
  <2>2. /\ asked[g.challenge].user = g.user /\ g.id \in asked[g.challenge].ids
        /\ \/ g.by \in Secrets \cup BackupCodes /\ owner[g.by] = g.user
           \/ /\ g.by = "otp"
              /\ [user |-> g.user, type |-> g.type, purpose |-> "login"] \in ever
    BY DEF IInv, GrantedAsChallenged
  <2>3. asked'[g.challenge] = asked[g.challenge]
    BY <2>1, <2>2 DEF Grows, NoChallenge
  <2> QED
    BY <2>1, <2>2, <2>3 DEF Grows, Generated
<1>2. GrantedAsChallenged'
  BY <1>1 DEF GrantedAsChallenged
<1> QED
  BY <1>2 DEF IInv, RemovedGrantsNothing

(* The rows that stay as they are stay owned. *)
LEMMA RowsKept ==
  ASSUME TypeOK, RowsOwned, Grows, UNCHANGED <<method, removed>>
  PROVE  RowsOwned'
<1>1. method' = method /\ removed' = removed
  OBVIOUS
<1>2. ASSUME NEW u \in Users, NEW t \in Types, method[<<u, t>>].id # None
      PROVE  RowOwned(method[<<u, t>>], u, t)'
  <2> DEFINE row == method[<<u, t>>]
  <2>1. RowOwned(row, u, t) /\ row \in Rows \cup {NoRow}
    BY <1>2 DEF RowsOwned, TypeOK
  <2>2. row.id \in MethodIds /\ row.secret \in Secrets \cup {None}
    BY <1>2, <2>1, RowKinds
  <2>3. owner'[row.id] = u /\ row.id \notin removed
    BY <2>1, <2>2 DEF RowOwned, Grows, Generated
  <2>4. row.secret # None => owner'[row.secret] = u
    BY <2>1, <2>2 DEF RowOwned, Grows, Generated
  <2>5. \A v \in Users, s \in Types : method[<<v, s>>].id = row.id => v = u /\ s = t
    BY <2>1 DEF RowOwned
  <2> QED
    BY <1>1, <2>3, <2>4, <2>5 DEF RowOwned
<1> QED
  BY <1>1, <1>2 DEF RowsOwned

(* A step of a request, put together. *)
LEMMA Together ==
  ASSUME IInv, Grows, UNCHANGED granted, NEW p \in Requests, Others(p),
         TypeOK', RowsOwned', CodesOwned', Recorded', RequestOK(p)'
  PROVE  IInv'
<1>1. \A q \in Requests : RequestOK(q)'
  BY OthersOK
<1> QED
  BY <1>1, GrantedKept DEF IInv

(* Only the requests changed. *)
LEMMA RequestsOnly ==
  ASSUME IInv, UNCHANGED <<stored, history>>, NEW p \in Requests,
         req' \in [Requests -> Frames], Others(p), RequestOK(p)'
  PROVE  IInv'
<1>1. UNCHANGED <<method, backup, challenge, sent, owner, asked, removed, proven,
                  ever, granted>>
  BY DEF stored, history
<1>2. Grows
  BY <1>1 DEF Grows
<1>3. TypeOK' /\ Recorded'
  BY <1>1 DEF IInv, TypeOK, Recorded
<1>4. CodesOwned'
  BY <1>1 DEF IInv, CodesOwned
<1>5. RowsOwned'
  BY <1>1, <1>2, RowsKept DEF IInv
<1> QED
  BY <1>1, <1>2, <1>3, <1>4, <1>5, Together

(* A request that returns and leaves everything else as it is. *)
LEMMA ReturnPreserves ==
  ASSUME IInv, NEW p \in Requests, Return(p), UNCHANGED <<stored, history>>
  PROVE  IInv'
BY ReturnFrame, RequestsOnly DEF IInv

(* Nothing is stored and no request is in flight at first. *)
LEMMA Initially == Init => IInv
<1> SUFFICES ASSUME Init PROVE IInv
  OBVIOUS
<1>1. /\ NoFrame \in Frames /\ NoFrame.at = "idle" /\ NoFrame.for = "none"
      /\ NoFrame.gone = {}
  BY DEF NoFrame, Frame, Frames, Places, Goals
<1>2. TypeOK
  BY <1>1 DEF Init, TypeOK, Generated
<1>3. RowsOwned /\ CodesOwned /\ Recorded
  BY DEF Init, RowsOwned, RowOwned, CodesOwned, Recorded, NoRow, Row, NoCode, CodeRow
<1>4. GrantedAsChallenged /\ RemovedGrantsNothing
  BY DEF Init, GrantedAsChallenged, RemovedGrantsNothing
<1>5. \A p \in Requests : RequestOK(p)
  BY <1>1 DEF Init, RequestOK, Located, Challenged, Reached, Verifying, Passed
<1> QED
  BY <1>2, <1>3, <1>4, <1>5 DEF IInv

-----------------------------------------------------------------------------
(* Steps that change nothing but the request. *)

(* A request starts. *)
LEMMA BeginPreserves ==
  ASSUME IInv, NEW p \in Requests, NEW f \in Frames, Begin(p, f),
         f.at \in {"readMethods", "readOwned", "readChallenge", "findExisting",
                  "findMethod", "findById"},
         f.at # "readChallenge" => f.user \in Users,
         f.at = "readChallenge" => /\ f.challenge \in Challenges
                                   /\ f.for \in {"send", "verify"},
         f.at \in {"readChallenge", "findExisting", "findMethod"} => f.type \in Types,
         f.at = "findById" => f.id \in MethodIds,
         f.at = "findMethod" => f.for = "confirm",
         f.for = "verify" => f.given \in Givens, f.gone \subseteq removed
  PROVE  IInv'
<1>1. req' \in [Requests -> Frames] /\ req'[p] = f /\ Others(p)
  BY DEF Begin, IInv, TypeOK, Others
<1>2. UNCHANGED <<stored, history>> /\ UNCHANGED removed
  BY DEF Begin, history
<1>3. RequestOK(p)'
  BY <1>1, <1>2 DEF RequestOK, Located, Challenged, Reached, Verifying, Passed
<1> QED
  BY <1>1, <1>2, <1>3, RequestsOnly

(* A request starts with the values of its call. *)
LEMMA QuietStartPreserves ==
  ASSUME IInv, NEW p \in Requests,
         \/ \E u \in Users : StartLogin(p, u) \/ StartRegenerate(p, u)
         \/ \E u \in Users, t \in OtpTypes : StartEnroll(p, u, t)
         \/ \E u \in Users, t \in Types, code \in Givens : StartConfirm(p, u, t, code)
         \/ \E u \in Users, id \in MethodIds : StartDisable(p, u, id)
  PROVE  IInv'
<1>1. ASSUME NEW u \in Users, StartLogin(p, u) PROVE IInv'
  BY <1>1, BeginPreserves DEF StartLogin, Frame, Frames, Places, Goals
<1>2. ASSUME NEW u \in Users, StartRegenerate(p, u) PROVE IInv'
  BY <1>2, BeginPreserves DEF StartRegenerate, Frame, Frames, Places, Goals
<1>3. ASSUME NEW u \in Users, NEW t \in OtpTypes, StartEnroll(p, u, t) PROVE IInv'
  BY <1>3, BeginPreserves DEF StartEnroll, Frame, Frames, Places, Goals, OtpTypes
<1>4. ASSUME NEW u \in Users, NEW t \in Types, NEW code \in Givens,
             StartConfirm(p, u, t, code)
      PROVE  IInv'
  BY <1>4, BeginPreserves DEF StartConfirm, Frame, Frames, Places, Goals
<1>5. ASSUME NEW u \in Users, NEW id \in MethodIds, StartDisable(p, u, id) PROVE IInv'
  BY <1>5, BeginPreserves DEF StartDisable, Frame, Frames, Places, Goals
<1> QED
  BY <1>1, <1>2, <1>3, <1>4, <1>5

(* So does one that shows a challenge. *)
LEMMA StartChallengePreserves ==
  ASSUME IInv, NEW p \in Requests, NEW c \in Challenges, NEW t \in Types,
         NEW goal \in {"send", "verify"}, NEW code \in Givens \cup {None},
         goal = "verify" => code \in Givens, StartChallenge(p, goal, c, t, code)
  PROVE  IInv'
<1> DEFINE f == [Frame("readChallenge", goal, None, t, code, c, None)
                   EXCEPT !.gone = removed]
<1>1. /\ f \in Frames /\ f.at = "readChallenge" /\ f.challenge = c /\ f.for = goal
      /\ f.type = t /\ f.given = code /\ f.gone = removed
  BY DEF Frame, Frames, Places, Goals, IInv, TypeOK
<1>2. Begin(p, f)
  BY DEF StartChallenge
<1> HIDE DEF f
<1> QED
  BY <1>1, <1>2, BeginPreserves

(* A request moves on and relies on nothing new. *)
LEMMA MovePreserves ==
  ASSUME IInv, NEW p \in Requests, NEW place \in Places, Move(p, place),
         UNCHANGED <<stored, history>>,
         req[p].at # "readChallenge", req[p].at # "idle",
         place \in {"upsert", "delete"} => req[p].type \in Types,
         place = "delete" => req[p].id \in MethodIds,
         place \in {"upsert", "countBackup", "deleteOld", "readRemaining", "clear"}
  PROVE  IInv'
<1>1. /\ req' \in [Requests -> Frames] /\ Others(p)
      /\ req'[p].at = place /\ SameLocals(p)
  BY MoveFrame DEF IInv
<1>2. RequestOK(p) /\ removed' = removed
  BY DEF IInv, history
<1>3. RequestOK(p)'
  BY <1>1, <1>2
  DEF RequestOK, Located, Challenged, Reached, Verifying, Passed, SameLocals
<1> QED
  BY <1>1, <1>3, RequestsOnly

(* A login reads the methods it will ask for. *)
LEMMA ReadMethodsPreserves ==
  ASSUME IInv, NEW p \in Requests, ReadMethods(p)
  PROVE  IInv'
<1> DEFINE ids == EnabledIds(req[p].user)
<1>1. /\ UNCHANGED <<stored, history>> /\ removed' = removed
      /\ req[p].at = "readMethods" /\ RequestOK(p) /\ TypeOK
  BY DEF ReadMethods, IInv, history
<1>2. CASE Return(p)
  BY <1>1, <1>2, ReturnPreserves
<1>3. CASE req' = [req EXCEPT ![p].at = "storeChallenge", ![p].ids = ids]
  <2>1. ids \subseteq MethodIds /\ req \in [Requests -> Frames] /\ req[p] \in Frames
    BY <1>1, EnabledAreIds DEF RequestOK, Located, TypeOK
  <2> HIDE DEF ids
  <2>2. req' \in [Requests -> Frames] /\ Others(p)
    BY <1>3, <2>1 DEF Frames, Places, Others
  <2>3. /\ req'[p].at = "storeChallenge" /\ req'[p].user = req[p].user
        /\ req'[p].for = req[p].for /\ req'[p].given = req[p].given
        /\ req'[p].gone = req[p].gone
    BY <1>3, <2>1 DEF Frames
  <2>4. RequestOK(p)'
    BY <1>1, <2>3 DEF RequestOK, Located, Challenged, Reached, Verifying, Passed
  <2> QED
    BY <1>1, <2>2, <2>4, RequestsOnly
<1> QED
  BY <1>2, <1>3 DEF ReadMethods

(* A verification reads the challenge it was shown. *)
LEMMA ReadChallengePreserves ==
  ASSUME IInv, NEW p \in Requests, ReadChallenge(p)
  PROVE  IInv'
<1> DEFINE record == challenge[req[p].challenge]
<1>1. /\ UNCHANGED <<stored, history>> /\ removed' = removed /\ asked' = asked
      /\ req[p].at = "readChallenge" /\ RequestOK(p) /\ TypeOK /\ Recorded
      /\ req \in [Requests -> Frames] /\ req[p] \in Frames
  BY DEF ReadChallenge, IInv, history, TypeOK
<1>2. CASE Return(p)
  BY <1>1, <1>2, ReturnPreserves
<1>3. CASE /\ record # NoChallenge
           /\ req' = [req EXCEPT ![p].at = "readEnabled", ![p].user = record.user,
                                 ![p].ids = record.ids]
  <2>1. /\ req[p].challenge \in Challenges /\ record \in ChallengeRecords
        /\ asked[req[p].challenge] = record
    BY <1>1, <1>3 DEF RequestOK, Challenged, Recorded, TypeOK
  <2>2. /\ record.user \in Users /\ record.ids \subseteq MethodIds
        /\ record = [user |-> record.user, ids |-> record.ids]
    BY <2>1 DEF ChallengeRecords
  <2> HIDE DEF record
  <2>3. req' \in [Requests -> Frames] /\ Others(p)
    BY <1>1, <1>3, <2>2 DEF Frames, Places, Others
  <2>4. /\ req'[p].at = "readEnabled" /\ req'[p].user = record.user
        /\ req'[p].ids = record.ids /\ req'[p].challenge = req[p].challenge
        /\ req'[p].for = req[p].for /\ req'[p].given = req[p].given
        /\ req'[p].gone = req[p].gone /\ req'[p].type = req[p].type
    BY <1>1, <1>3 DEF Frames
  <2>5. RequestOK(p)'
    BY <1>1, <2>1, <2>2, <2>4
    DEF RequestOK, Located, Challenged, Reached, Verifying, Passed
  <2> QED
    BY <1>1, <2>3, <2>5, RequestsOnly
<1> QED
  BY <1>2, <1>3 DEF ReadChallenge

(* The method it names is enabled, one of the challenge's, and so was never
   removed; an authenticator's code that matches is of its user's secret. *)
LEMMA ReadEnabledPreserves ==
  ASSUME IInv, NEW p \in Requests, ReadEnabled(p)
  PROVE  IInv'
<1> DEFINE r == req[p]
           row == RowOf(p)
<1>1. /\ UNCHANGED <<stored, history>> /\ TypeOK /\ RowsOwned /\ RequestOK(p)
      /\ UNCHANGED <<removed, asked, owner, ever>>
      /\ r.at = "readEnabled" /\ req \in [Requests -> Frames] /\ r \in Frames
  BY DEF ReadEnabled, IInv, history, TypeOK
<1>2. CASE Return(p)
  BY <1>1, <1>2, ReturnPreserves
<1>3. ASSUME NEW next \in {"sendOtp", "verifyOtp", "touch", "findBackup"},
             next = "sendOtp" => r.for = "send",
             next # "sendOtp" => r.for = "verify",
             next = "touch" => row.secret = r.given,
             Answers(row, r.ids),
             req' = [req EXCEPT ![p].at = next, ![p].id = row.id]
      PROVE  IInv'
  <2>1. r.user \in Users /\ r.type \in Types /\ row \in Rows \cup {NoRow}
    BY <1>1 DEF RequestOK, Located, TypeOK, RowOf
  <2>2. row.enabled /\ row.id \in r.ids
    BY <1>3 DEF Answers
  <2>3. row.id \in MethodIds /\ row.secret \in Secrets \cup {None}
    BY <2>1, <2>2, RowKinds
  <2>4. RowOwned(row, r.user, r.type)
    BY <1>1, <2>1, <2>3 DEF RowsOwned, RowOf
  <2>5. /\ row.id \notin removed
        /\ row.secret # None => owner[row.secret] = r.user
    BY <2>4 DEF RowOwned
  <2> HIDE DEF row
  <2>6. req' \in [Requests -> Frames] /\ Others(p)
    <3>1. next \in Places /\ req' = [req EXCEPT ![p].at = next, ![p].id = row.id]
      BY <1>3 DEF Places
    <3>2. [r EXCEPT !.at = next, !.id = row.id] \in Frames
      BY <1>1, <2>3, <3>1 DEF Frames
    <3> QED
      BY <1>1, <3>1, <3>2 DEF Others
  <2>7. /\ req'[p].at = next /\ req'[p].user = r.user /\ req'[p].id = row.id
        /\ req'[p].ids = r.ids /\ req'[p].challenge = r.challenge
        /\ req'[p].for = r.for /\ req'[p].given = r.given
        /\ req'[p].gone = r.gone /\ req'[p].type = r.type
    BY <1>1, <1>3 DEF Frames
  <2>8. Located(p)'
    BY <1>1, <1>3, <2>1, <2>3, <2>7
    DEF RequestOK, Located, Verifying, Passed
  <2>9. next = "touch" => r.given \in Secrets /\ owner[r.given] = r.user
    BY <1>1, <1>3, <2>3, <2>5 DEF RequestOK, Located, Givens
  <2>10. Challenged(p)'
    BY <1>1, <1>3, <2>2, <2>5, <2>7, <2>9
    DEF RequestOK, Challenged, Reached, Verifying, Passed
  <2> QED
    BY <1>1, <2>6, <2>8, <2>10, RequestsOnly DEF RequestOK
<1>4. r.for \in {"send", "verify"}
  BY <1>1 DEF RequestOK, Located
<1> DEFINE next == CASE r.for = "send" -> "sendOtp"
                     [] r.for = "verify" /\ r.type # "TOTP" -> "verifyOtp"
                     [] r.for = "verify" /\ r.type = "TOTP" /\ row.secret = r.given -> "touch"
                     [] OTHER -> "findBackup"
<1>5. \/ Return(p)
      \/ /\ Answers(row, r.ids)
         /\ req' = [req EXCEPT ![p].at = next, ![p].id = row.id]
  BY DEF ReadEnabled
<1>6. /\ next \in {"sendOtp", "verifyOtp", "touch", "findBackup"}
      /\ next = "sendOtp" => r.for = "send"
      /\ next # "sendOtp" => r.for = "verify"
      /\ next = "touch" => row.secret = r.given
  <2> HIDE DEF row
  <2>1. CASE r.for = "send"
    BY <2>1
  <2>2. CASE r.for = "verify" /\ r.type # "TOTP"
    BY <2>2
  <2>3. CASE r.for = "verify" /\ r.type = "TOTP" /\ row.secret = r.given
    BY <2>3
  <2>4. CASE r.for = "verify" /\ r.type = "TOTP" /\ row.secret # r.given
    BY <2>4
  <2> QED
    BY <1>4, <2>1, <2>2, <2>3, <2>4
<1> HIDE DEF next
<1> QED
  BY <1>2, <1>3, <1>5, <1>6

(* A refused one-time code: a verification looks for a backup code. *)
LEMMA RefuseOtpPreserves ==
  ASSUME IInv, NEW p \in Requests, RefuseOtp(p)
  PROVE  IInv'
<1>1. /\ UNCHANGED <<stored, history>> /\ TypeOK /\ RequestOK(p)
      /\ UNCHANGED <<removed, asked>> /\ req[p].at = "verifyOtp"
  BY DEF RefuseOtp, IInv, history
<1>2. CASE Return(p)
  BY <1>1, <1>2, ReturnPreserves
<1>3. CASE req[p].for = "verify" /\ Move(p, "findBackup")
  <2>1. /\ req' \in [Requests -> Frames] /\ Others(p)
        /\ req'[p].at = "findBackup" /\ SameLocals(p)
    BY <1>1, <1>3, MoveFrame DEF Places
  <2>2. RequestOK(p)'
    BY <1>1, <1>3, <2>1
    DEF RequestOK, Located, Challenged, Reached, Verifying, Passed, SameLocals
  <2> QED
    BY <1>1, <2>1, <2>2, RequestsOnly
<1> QED
  BY <1>2, <1>3 DEF RefuseOtp

(* A backup code that is found is one of the user's. *)
LEMMA FindBackupPreserves ==
  ASSUME IInv, NEW p \in Requests, FindBackup(p)
  PROVE  IInv'
<1> DEFINE r == req[p]
           found == r.given \in BackupCodes /\ Valid(r.given, r.user)
<1>1. /\ UNCHANGED <<stored, history>> /\ TypeOK /\ RequestOK(p) /\ CodesOwned
      /\ UNCHANGED <<removed, asked, owner>> /\ r.at \in {"findBackup", "findAgain"}
      /\ r.user \in Users
  BY DEF FindBackup, IInv, history, RequestOK, Located, Verifying, Passed
<1>2. CASE Return(p)
  BY <1>1, <1>2, ReturnPreserves
<1>3. CASE Move(p, "findAgain")
  <2>1. /\ req' \in [Requests -> Frames] /\ Others(p)
        /\ req'[p].at = "findAgain" /\ SameLocals(p)
    BY <1>1, <1>3, MoveFrame DEF Places
  <2>2. RequestOK(p)'
    BY <1>1, <2>1
    DEF RequestOK, Located, Challenged, Reached, Verifying, Passed, SameLocals
  <2> QED
    BY <1>1, <2>1, <2>2, RequestsOnly
<1>4. CASE found /\ Move(p, "consumeBackup")
  <2>1. /\ req' \in [Requests -> Frames] /\ Others(p)
        /\ req'[p].at = "consumeBackup" /\ SameLocals(p)
    BY <1>1, <1>4, MoveFrame DEF Places
  <2>2. backup[r.given].user = r.user
    BY <1>4 DEF Valid, CodeRow
  <2>3. r.given \in BackupCodes /\ owner[r.given] = r.user
    BY <1>1, <1>4, <2>2 DEF CodesOwned
  <2>4. RequestOK(p)'
    BY <1>1, <2>1, <2>3
    DEF RequestOK, Located, Challenged, Reached, Verifying, Passed, SameLocals
  <2> QED
    BY <1>1, <2>1, <2>4, RequestsOnly
<1> QED
  BY <1>2, <1>3, <1>4 DEF FindBackup

(* The method is touched, or is gone. *)
LEMMA TouchPreserves ==
  ASSUME IInv, NEW p \in Requests, Touch(p)
  PROVE  IInv'
<1>1. /\ UNCHANGED <<stored, history>> /\ TypeOK /\ RequestOK(p)
      /\ UNCHANGED <<removed, asked, owner, ever>> /\ req[p].at = "touch"
  BY DEF Touch, IInv, history
<1>2. CASE Return(p)
  BY <1>1, <1>2, ReturnPreserves
<1>3. CASE Move(p, "dropChallenge")
  <2>1. /\ req' \in [Requests -> Frames] /\ Others(p)
        /\ req'[p].at = "dropChallenge" /\ SameLocals(p)
    BY <1>1, <1>3, MoveFrame DEF Places
  <2>2. RequestOK(p)'
    BY <1>1, <2>1
    DEF RequestOK, Located, Challenged, Reached, Verifying, Passed, SameLocals
  <2> QED
    BY <1>1, <2>1, <2>2, RequestsOnly
<1> QED
  BY <1>2, <1>3 DEF Touch

(* Enrolment finds no enabled method, confirmation a disabled one. *)
LEMMA FindExistingPreserves ==
  ASSUME IInv, NEW p \in Requests, FindExisting(p)
  PROVE  IInv'
<1>1. UNCHANGED <<stored, history>> /\ req[p].at = "findExisting" /\ RequestOK(p)
  BY DEF FindExisting, IInv
<1>2. req[p].type \in Types
  BY <1>1 DEF RequestOK, Located
<1> QED
  BY <1>1, <1>2, ReturnPreserves, MovePreserves DEF FindExisting, Places

(* The confirmed method has a row, whose id the request keeps. *)
LEMMA FindMethodPreserves ==
  ASSUME IInv, NEW p \in Requests, FindMethod(p)
  PROVE  IInv'
<1> DEFINE r == req[p]
           row == RowOf(p)
           next == IF r.type = "TOTP" THEN "enable" ELSE "verifyOtp"
<1>1. /\ UNCHANGED <<stored, history>> /\ TypeOK /\ RequestOK(p) /\ removed' = removed
      /\ r.at = "findMethod" /\ req \in [Requests -> Frames] /\ r \in Frames
  BY DEF FindMethod, IInv, history, TypeOK
<1>2. CASE Return(p)
  BY <1>1, <1>2, ReturnPreserves
<1>3. CASE row # NoRow /\ req' = [req EXCEPT ![p].id = row.id, ![p].at = next]
  <2>1. r.user \in Users /\ r.type \in Types /\ row \in Rows \cup {NoRow}
    BY <1>1 DEF RequestOK, Located, TypeOK, RowOf
  <2>2. row.id \in MethodIds
    BY <1>3, <2>1, RowKinds
  <2>3. next \in {"enable", "verifyOtp"}
    OBVIOUS
  <2> HIDE DEF row, next
  <2>4. [r EXCEPT !.id = row.id, !.at = next] \in Frames
    BY <1>1, <2>2, <2>3 DEF Frames, Places
  <2>5. req' \in [Requests -> Frames] /\ Others(p)
    BY <1>1, <1>3, <2>4 DEF Others
  <2>6. /\ req'[p].at = next /\ req'[p].user = r.user /\ req'[p].id = row.id
        /\ req'[p].for = r.for /\ req'[p].given = r.given
        /\ req'[p].gone = r.gone /\ req'[p].type = r.type
    BY <1>1, <1>3 DEF Frames
  <2>7. r.for = "confirm"
    BY <1>1 DEF RequestOK, Located
  <2>8. RequestOK(p)'
    BY <1>1, <2>1, <2>2, <2>3, <2>6, <2>7
    DEF RequestOK, Located, Challenged, Reached, Verifying, Passed
  <2> QED
    BY <1>1, <2>5, <2>8, RequestsOnly
<1> QED
  BY <1>2, <1>3 DEF FindMethod

(* Steps that count, list or read the rest of a user's rows. *)
LEMMA CountingPreserves ==
  ASSUME IInv, NEW p \in Requests,
         CountBackup(p) \/ ReadOwned(p) \/ ReadRemaining(p)
  PROVE  IInv'
BY ReturnPreserves, MovePreserves DEF CountBackup, ReadOwned, ReadRemaining, Places

(* The rows a replacement deletes are backup codes. *)
LEMMA DeleteOldPreserves ==
  ASSUME IInv, NEW p \in Requests, DeleteOld(p)
  PROVE  IInv'
<1> DEFINE old == RowsOf(req[p].user)
<1>1. /\ UNCHANGED <<stored, history>> /\ TypeOK /\ RequestOK(p) /\ removed' = removed
      /\ req[p].at = "deleteOld" /\ req \in [Requests -> Frames] /\ req[p] \in Frames
      /\ req' = [req EXCEPT ![p].at = "insertNew", ![p].old = old]
  BY DEF DeleteOld, IInv, history, TypeOK
<1>2. old \subseteq BackupCodes
  BY DEF RowsOf
<1> HIDE DEF old
<1>3. [req[p] EXCEPT !.at = "insertNew", !.old = old] \in Frames
  BY <1>1, <1>2 DEF Frames, Places
<1>4. req' \in [Requests -> Frames] /\ Others(p)
  BY <1>1, <1>3 DEF Others
<1>5. req'[p].at = "insertNew" /\ SameLocals(p)
  BY <1>1 DEF Frames, SameLocals
<1>6. RequestOK(p)'
  BY <1>1, <1>5
  DEF RequestOK, Located, Challenged, Reached, Verifying, Passed, SameLocals
<1> QED
  BY <1>1, <1>4, <1>6, RequestsOnly

(* The method to disable is one of the user's rows. *)
LEMMA FindByIdPreserves ==
  ASSUME IInv, NEW p \in Requests, FindById(p)
  PROVE  IInv'
<1>1. /\ UNCHANGED <<stored, history>> /\ TypeOK /\ RequestOK(p) /\ removed' = removed
      /\ req[p].at = "findById" /\ req \in [Requests -> Frames] /\ req[p] \in Frames
  BY DEF FindById, IInv, history, TypeOK
<1>2. CASE Return(p)
  BY <1>1, <1>2, ReturnPreserves
<1>3. ASSUME NEW t \in Types,
             req' = [req EXCEPT ![p].at = "delete", ![p].type = t]
      PROVE  IInv'
  <2>1. [req[p] EXCEPT !.at = "delete", !.type = t] \in Frames
    BY <1>1 DEF Frames, Places
  <2>2. req' \in [Requests -> Frames] /\ Others(p)
    BY <1>1, <1>3, <2>1 DEF Others
  <2>3. /\ req'[p].at = "delete" /\ req'[p].type = t
        /\ req'[p].user = req[p].user /\ req'[p].id = req[p].id
        /\ req'[p].for = req[p].for /\ req'[p].given = req[p].given
        /\ req'[p].gone = req[p].gone
    BY <1>1, <1>3 DEF Frames
  <2>4. RequestOK(p)'
    BY <1>1, <2>3 DEF RequestOK, Located, Challenged, Reached, Verifying, Passed
  <2> QED
    BY <1>1, <2>2, <2>4, RequestsOnly
<1> QED
  BY <1>2, <1>3 DEF FindById

-----------------------------------------------------------------------------
(* Steps that write. *)

(* A step that leaves the rows of methods and what was removed alone. *)
LEMMA MethodsAlone ==
  ASSUME IInv, Grows, UNCHANGED <<method, removed, granted>>, NEW p \in Requests,
         Others(p), TypeOK', CodesOwned', Recorded', RequestOK(p)'
  PROVE  IInv'
BY RowsKept, Together DEF IInv

(* A fresh challenge records what it was stored with. *)
LEMMA StoreChallengePreserves ==
  ASSUME IInv, NEW p \in Requests, StoreChallenge(p)
  PROVE  IInv'
<1> DEFINE record == [user |-> req[p].user, ids |-> req[p].ids]
<1>1. /\ TypeOK /\ Recorded /\ CodesOwned /\ RequestOK(p) /\ req[p] \in Frames
      /\ req[p].at = "storeChallenge"
      /\ UNCHANGED <<method, backup, sent, owner, removed, proven, ever, granted>>
  BY DEF IInv, StoreChallenge, TypeOK
<1>2. PICK c \in Challenges :
        /\ asked[c] = NoChallenge
        /\ challenge' = [challenge EXCEPT ![c] = record]
        /\ asked' = [asked EXCEPT ![c] = record]
  BY DEF StoreChallenge
<1>3. record \in ChallengeRecords
  BY <1>1 DEF RequestOK, Located, ChallengeRecords, Frames
<1> HIDE DEF record
<1>4. req' \in [Requests -> Frames] /\ Others(p) /\ RequestOK(p)'
  BY <1>1, ReturnFrame DEF StoreChallenge
<1>5. TypeOK'
  BY <1>1, <1>2, <1>3, <1>4 DEF TypeOK
<1>6. Recorded' /\ CodesOwned'
  BY <1>1, <1>2 DEF Recorded, CodesOwned, TypeOK
<1>7. Grows
  BY <1>1, <1>2 DEF Grows, TypeOK
<1> QED
  BY <1>1, <1>4, <1>5, <1>6, <1>7, MethodsAlone

(* A code may be sent for the user, type and purpose of the request. *)
LEMMA SendOtpPreserves ==
  ASSUME IInv, NEW p \in Requests, SendOtp(p)
  PROVE  IInv'
<1> DEFINE code == [user |-> req[p].user, type |-> req[p].type, purpose |-> PurposeOf(p)]
<1>1. /\ TypeOK /\ Recorded /\ CodesOwned /\ RequestOK(p) /\ req[p].at = "sendOtp"
      /\ UNCHANGED <<method, backup, challenge, owner, asked, removed, proven, granted>>
  BY DEF IInv, SendOtp
<1>2. code \in OtpCodes
  BY <1>1 DEF RequestOK, Located, OtpCodes, PurposeOf, Purposes
<1>3. \/ sent' = sent \cup {code} /\ ever' = ever \cup {code}
      \/ UNCHANGED <<sent, ever>>
  BY DEF SendOtp
<1> HIDE DEF code
<1>4. req' \in [Requests -> Frames] /\ Others(p) /\ RequestOK(p)'
  BY <1>1, ReturnFrame DEF SendOtp
<1>5. TypeOK'
  BY <1>1, <1>2, <1>3, <1>4 DEF TypeOK
<1>6. Recorded' /\ CodesOwned'
  BY <1>1, <1>3 DEF Recorded, CodesOwned
<1>7. Grows
  BY <1>1, <1>3 DEF Grows
<1> QED
  BY <1>1, <1>4, <1>5, <1>6, <1>7, MethodsAlone

(* An accepted code was sent to log in, when it is a verification's. *)
LEMMA AcceptOtpPreserves ==
  ASSUME IInv, NEW p \in Requests, AcceptOtp(p)
  PROVE  IInv'
<1> DEFINE r == req[p]
           next == IF r.for = "verify" THEN "touch" ELSE "enable"
<1>1. /\ TypeOK /\ Recorded /\ CodesOwned /\ RequestOK(p) /\ r.at = "verifyOtp"
      /\ r.given = "otp" /\ OtpOf(p) # {} /\ sent' \subseteq sent /\ Move(p, next)
      /\ UNCHANGED <<method, backup, challenge>> /\ UNCHANGED history
  BY DEF IInv, AcceptOtp
<1>2. UNCHANGED <<owner, asked, removed, proven, ever, granted>>
  BY <1>1 DEF history
<1>3. next \in Places
  BY DEF Places
<1>4. /\ req' \in [Requests -> Frames] /\ Others(p) /\ req'[p].at = next
      /\ SameLocals(p)
  BY <1>1, <1>3, MoveFrame
<1>5. r.user \in Users /\ r.type \in Types /\ r.id \in MethodIds
      /\ r.for \in {"verify", "confirm"}
  BY <1>1 DEF RequestOK, Located
<1>6. r.for = "verify" =>
        [user |-> r.user, type |-> r.type, purpose |-> "login"] \in ever
  <2>1. PICK code \in sent : /\ code.user = r.user /\ code.type = r.type
                             /\ code.purpose = PurposeOf(p)
    BY <1>1 DEF OtpOf
  <2>2. code \in OtpCodes /\ code \in ever
    BY <1>1 DEF TypeOK, Recorded
  <2>3. r.for = "verify" => code.purpose = "login"
    BY <2>1 DEF PurposeOf
  <2>4. code = [user |-> code.user, type |-> code.type, purpose |-> code.purpose]
    BY <2>2 DEF OtpCodes
  <2> QED
    BY <2>1, <2>2, <2>3, <2>4
<1>7. RequestOK(p)'
  BY <1>1, <1>2, <1>4, <1>5, <1>6
  DEF RequestOK, Located, Challenged, Reached, Verifying, Passed, SameLocals
<1>8. TypeOK'
  BY <1>1, <1>2, <1>4 DEF TypeOK
<1>9. Recorded' /\ CodesOwned'
  BY <1>1, <1>2 DEF Recorded, CodesOwned
<1>10. Grows
  BY <1>2 DEF Grows
<1> QED
  BY <1>1, <1>2, <1>4, <1>7, <1>8, <1>9, <1>10, MethodsAlone

(* A backup code is marked used where it is, or is gone; a code that was found
   is of the user, whoever's row it is by now. *)
LEMMA ConsumeBackupPreserves ==
  ASSUME IInv, NEW p \in Requests, ConsumeBackup(p)
  PROVE  IInv'
<1> DEFINE c == req[p].given
<1>1. /\ TypeOK /\ Recorded /\ CodesOwned /\ RequestOK(p)
      /\ req[p].at = "consumeBackup"
      /\ UNCHANGED <<method, challenge, sent>> /\ UNCHANGED history
  BY DEF IInv, ConsumeBackup
<1>2. UNCHANGED <<owner, asked, removed, proven, ever, granted>>
  BY <1>1 DEF history
<1>3. c \in BackupCodes /\ owner[c] = req[p].user
  BY <1>1 DEF RequestOK, Challenged
<1>4. CASE Return(p) /\ UNCHANGED backup
  <2>1. UNCHANGED <<stored, history>>
    BY <1>1, <1>4 DEF stored
  <2> QED
    BY <1>4, <2>1, ReturnPreserves
<1>5. CASE /\ backup[c] # NoCode
           /\ backup' = [backup EXCEPT ![c] = CodeRow(@.user, TRUE)]
           /\ Move(p, "touch")
  <2>1. backup[c] \in CodeRows
    BY <1>1, <1>3, <1>5 DEF TypeOK
  <2>2. CodeRow(backup[c].user, TRUE) \in CodeRows
    BY <2>1 DEF CodeRow, CodeRows
  <2>3. CodeRow(backup[c].user, TRUE).user = backup[c].user
    BY DEF CodeRow
  <2>4. /\ backup' \in [BackupCodes -> CodeRows \cup {NoCode}]
        /\ \A d \in BackupCodes : backup'[d].user = backup[d].user
    BY <1>1, <1>3, <1>5, <2>2, <2>3 DEF TypeOK
  <2>5. /\ req' \in [Requests -> Frames] /\ Others(p) /\ req'[p].at = "touch"
        /\ SameLocals(p)
    BY <1>1, <1>5, MoveFrame DEF Places
  <2>6. RequestOK(p)'
    BY <1>1, <1>2, <1>3, <2>5
    DEF RequestOK, Located, Challenged, Reached, Verifying, Passed, SameLocals
  <2>7. TypeOK'
    BY <1>1, <1>2, <2>4, <2>5 DEF TypeOK
  <2>8. Recorded' /\ CodesOwned'
    BY <1>1, <1>2, <2>4 DEF Recorded, CodesOwned
  <2>9. Grows
    BY <1>2 DEF Grows
  <2> QED
    BY <1>1, <1>2, <2>5, <2>6, <2>7, <2>8, <2>9, MethodsAlone
<1> QED
  BY <1>4, <1>5 DEF ConsumeBackup

(* A challenge goes, by its verification or by its TTL. *)
LEMMA ChallengeGone ==
  ASSUME TypeOK, Recorded, NEW c, challenge' = [challenge EXCEPT ![c] = NoChallenge],
         UNCHANGED <<method, backup, sent>>, UNCHANGED history,
         req' \in [Requests -> Frames]
  PROVE  TypeOK' /\ Recorded'
<1>1. UNCHANGED <<owner, asked, removed, proven, ever, granted>>
  BY DEF history
<1>2. TypeOK'
  BY <1>1 DEF TypeOK
<1>3. Recorded'
  BY <1>1 DEF Recorded, TypeOK
<1> QED
  BY <1>2, <1>3

(* The answered challenge is deleted. *)
LEMMA DropChallengePreserves ==
  ASSUME IInv, NEW p \in Requests, DropChallenge(p)
  PROVE  IInv'
<1>1. /\ TypeOK /\ CodesOwned /\ Recorded /\ RequestOK(p) /\ req[p].at = "dropChallenge"
      /\ UNCHANGED <<method, backup, sent>> /\ UNCHANGED history
      /\ challenge' = [challenge EXCEPT ![req[p].challenge] = NoChallenge]
  BY DEF IInv, DropChallenge
<1>2. UNCHANGED <<owner, asked, removed, proven, ever, granted>>
  BY <1>1 DEF history
<1>3. /\ req' \in [Requests -> Frames] /\ Others(p) /\ req'[p].at = "issue"
      /\ SameLocals(p)
  BY <1>1, MoveFrame DEF DropChallenge, Places
<1>4. RequestOK(p)'
  BY <1>1, <1>2, <1>3
  DEF RequestOK, Located, Challenged, Reached, Verifying, Passed, SameLocals
<1>5. TypeOK' /\ Recorded'
  BY <1>1, <1>3, ChallengeGone
<1>6. CodesOwned' /\ Grows
  BY <1>1, <1>2 DEF CodesOwned, Grows
<1> QED
  BY <1>1, <1>2, <1>3, <1>4, <1>5, <1>6, MethodsAlone

(* The session goes to the user of the challenge, through its method. *)
LEMMA IssuePreserves ==
  ASSUME IInv, NEW p \in Requests, Issue(p)
  PROVE  IInv'
<1> DEFINE r == req[p]
           g == [challenge |-> r.challenge, id |-> r.id, user |-> r.user,
                 type |-> r.type, gone |-> r.gone, by |-> r.given]
<1>1. /\ TypeOK /\ RowsOwned /\ CodesOwned /\ Recorded /\ RequestOK(p)
      /\ r.at = "issue" /\ r \in Frames /\ granted' = granted \cup {g}
      /\ UNCHANGED stored /\ UNCHANGED <<owner, asked, removed, proven, ever>>
  BY DEF IInv, Issue, TypeOK
<1>2. UNCHANGED <<method, backup, challenge, sent>>
  BY <1>1 DEF stored
<1>3. /\ r.user \in Users /\ r.type \in Types /\ r.id \in MethodIds
      /\ r.challenge \in Challenges /\ r.given \in Givens /\ r.gone \subseteq MethodIds
      /\ asked[r.challenge] = [user |-> r.user, ids |-> r.ids]
      /\ r.id \in r.ids /\ r.id \notin r.gone
      /\ \/ r.given \in Secrets \cup BackupCodes /\ owner[r.given] = r.user
         \/ /\ r.given = "otp"
            /\ [user |-> r.user, type |-> r.type, purpose |-> "login"] \in ever
  BY <1>1 DEF RequestOK, Located, Challenged, Reached, Verifying, Passed, Frames
<1>4. /\ g.challenge = r.challenge /\ g.id = r.id /\ g.user = r.user
      /\ g.type = r.type /\ g.gone = r.gone /\ g.by = r.given
      /\ g \in [challenge : Challenges, id : MethodIds, user : Users,
                type : Types, gone : SUBSET MethodIds, by : Givens]
  BY <1>3
<1> HIDE DEF g
<1>5. /\ req' \in [Requests -> Frames] /\ Others(p) /\ RequestOK(p)'
  BY <1>1, ReturnFrame DEF Issue
<1>6. TypeOK'
  BY <1>1, <1>2, <1>4, <1>5 DEF TypeOK
<1>7. CodesOwned' /\ Recorded' /\ Grows
  BY <1>1, <1>2 DEF CodesOwned, Recorded, Grows
<1>8. RowsOwned'
  BY <1>1, <1>2, <1>7, RowsKept
<1>9. GrantedAsChallenged'
  <2>1. /\ asked[g.challenge].user = g.user /\ g.id \in asked[g.challenge].ids
        /\ \/ g.by \in Secrets \cup BackupCodes /\ owner[g.by] = g.user
           \/ /\ g.by = "otp"
              /\ [user |-> g.user, type |-> g.type, purpose |-> "login"] \in ever
    BY <1>3, <1>4
  <2> QED
    BY <1>1, <2>1 DEF IInv, GrantedAsChallenged
<1>10. RemovedGrantsNothing'
  BY <1>1, <1>3, <1>4 DEF IInv, RemovedGrantsNothing
<1>11. \A q \in Requests : RequestOK(q)'
  BY <1>5, <1>7, OthersOK
<1> QED
  BY <1>6, <1>7, <1>8, <1>9, <1>10, <1>11 DEF IInv

(* Rows that keep their ids and secrets stay owned. *)
LEMMA SameIdsKept ==
  ASSUME TypeOK, RowsOwned, Grows, removed' = removed,
         \A v \in Users, s \in Types :
           /\ method'[<<v, s>>].id = method[<<v, s>>].id
           /\ method'[<<v, s>>].secret = method[<<v, s>>].secret
  PROVE  RowsOwned'
<1>1. ASSUME NEW u \in Users, NEW t \in Types, method'[<<u, t>>].id # None
      PROVE  RowOwned(method[<<u, t>>], u, t)'
  <2> DEFINE row == method[<<u, t>>]
             new == method'[<<u, t>>]
  <2>1. new.id = row.id /\ new.secret = row.secret
    OBVIOUS
  <2>2. RowOwned(row, u, t) /\ row \in Rows \cup {NoRow}
    BY <1>1, <2>1 DEF RowsOwned, TypeOK
  <2>3. row.id \in MethodIds /\ row.secret \in Secrets \cup {None}
    BY <1>1, <2>1, <2>2, RowKinds
  <2>4. owner'[new.id] = u /\ new.id \notin removed'
    BY <2>1, <2>2, <2>3 DEF RowOwned, Grows, Generated
  <2>5. new.secret # None => owner'[new.secret] = u
    BY <2>1, <2>2, <2>3 DEF RowOwned, Grows, Generated
  <2>6. \A v \in Users, s \in Types : method[<<v, s>>].id = row.id => v = u /\ s = t
    BY <2>2 DEF RowOwned
  <2>7. \A v \in Users, s \in Types : method'[<<v, s>>].id = new.id => v = u /\ s = t
    BY <2>1, <2>6
  <2> QED
    BY <2>4, <2>5, <2>7 DEF RowOwned
<1> QED
  BY <1>1 DEF RowsOwned

(* An enrolment writes the row of its user and type: under a fresh id when
   there is none, under its own otherwise, with a fresh secret or none. *)
LEMMA UpsertRows ==
  ASSUME TypeOK, RowsOwned, Recorded, NEW u \in Users, NEW t \in Types,
         NEW secret \in Unused(Secrets) \cup {None}, Upsert(u, t, secret),
         removed' = removed, asked' = asked, ever' = ever
  PROVE  /\ Grows /\ RowsOwned' /\ owner' \in [Generated -> Users \cup {None}]
         /\ method' \in [Users \X Types -> Rows \cup {NoRow}]
<1> DEFINE row == method[<<u, t>>]
<1>1. PICK id \in IF row = NoRow THEN Unused(MethodIds) ELSE {row.id} :
        /\ method' = [method EXCEPT ![<<u, t>>] = Row(id, FALSE, secret)]
        /\ owner' = [x \in Generated |-> IF x \in {id, secret} THEN u ELSE owner[x]]
  BY DEF Upsert
<1>2. row \in Rows \cup {NoRow}
  BY DEF TypeOK
<1>3. /\ id \in MethodIds /\ id \notin removed
      /\ owner[id] \in {None, u}
      /\ \A v \in Users, s \in Types : method[<<v, s>>].id = id => v = u /\ s = t
  <2>1. CASE row = NoRow
    <3>1. id \in MethodIds /\ owner[id] = None
      BY <1>1, <2>1 DEF Unused
    <3>2. id \notin removed
      BY <3>1 DEF Recorded
    <3>3. ASSUME NEW v \in Users, NEW s \in Types PROVE method[<<v, s>>].id # id
      <4>1. method[<<v, s>>].id # None => owner[method[<<v, s>>].id] = v
        BY DEF RowsOwned, RowOwned
      <4> QED
        BY <3>1, <4>1
    <3> QED
      BY <3>1, <3>2, <3>3
  <2>2. CASE row # NoRow
    <3>1. id = row.id /\ id \in MethodIds
      BY <1>1, <1>2, <2>2, RowKinds
    <3>2. RowOwned(row, u, t)
      BY <3>1 DEF RowsOwned
    <3> QED
      BY <3>1, <3>2 DEF RowOwned
  <2> QED
    BY <2>1, <2>2
<1>4. secret \in Secrets \cup {None} /\ (secret # None => owner[secret] = None)
  BY DEF Unused
<1>5. Grows
  <2>1. ASSUME NEW x \in Generated, owner[x] # None PROVE owner'[x] = owner[x]
    <3>1. x # secret /\ (x = id => owner[x] = u)
      BY <1>3, <1>4, <2>1 DEF Generated
    <3>2. owner'[x] = IF x \in {id, secret} THEN u ELSE owner[x]
      BY <1>1
    <3> QED
      BY <3>1, <3>2
  <2> QED
    BY <2>1 DEF Grows
<1>6. owner' \in [Generated -> Users \cup {None}]
  BY <1>1 DEF TypeOK
<1> DEFINE new == Row(id, FALSE, secret)
<1>7. new \in Rows /\ new.id = id /\ new.secret = secret
  BY <1>3, <1>4 DEF Row, Rows
<1> HIDE DEF new
<1>8. method' \in [Users \X Types -> Rows \cup {NoRow}]
  BY <1>1, <1>7 DEF TypeOK, new
<1>9. /\ method'[<<u, t>>] = new
      /\ \A v \in Users, s \in Types :
           ~(v = u /\ s = t) => method'[<<v, s>>] = method[<<v, s>>]
  BY <1>1 DEF TypeOK, new
<1>10. ASSUME NEW v \in Users, NEW s \in Types, method'[<<v, s>>].id # None
       PROVE  RowOwned(method[<<v, s>>], v, s)'
  <2>1. CASE v = u /\ s = t
    <3>1. method'[<<v, s>>] = new
      BY <1>9, <2>1
    <3>2. owner'[id] = v /\ (secret # None => owner'[secret] = v)
      BY <1>1, <1>3, <1>4, <2>1 DEF Generated
    <3>3. \A w \in Users, r \in Types : method'[<<w, r>>].id = id => w = v /\ r = s
      BY <1>3, <1>9, <2>1
    <3> QED
      BY <1>3, <1>7, <3>1, <3>2, <3>3 DEF RowOwned
  <2>2. CASE ~(v = u /\ s = t)
    <3> DEFINE old == method[<<v, s>>]
    <3>1. method'[<<v, s>>] = old
      BY <1>9, <2>2
    <3>2. RowOwned(old, v, s) /\ old \in Rows \cup {NoRow}
      BY <1>10, <3>1 DEF RowsOwned, TypeOK
    <3>3. old.id \in MethodIds /\ old.secret \in Secrets \cup {None} /\ old.id # id
      BY <1>3, <1>10, <2>2, <3>1, <3>2, RowKinds
    <3>4. owner'[old.id] = v /\ (old.secret # None => owner'[old.secret] = v)
      BY <1>5, <3>2, <3>3 DEF RowOwned, Grows, Generated
    <3>5. old.id \notin removed
      BY <3>2 DEF RowOwned
    <3>6. \A w \in Users, r \in Types : method'[<<w, r>>].id = old.id => w = v /\ r = s
      <4>1. \A w \in Users, r \in Types : method[<<w, r>>].id = old.id => w = v /\ r = s
        BY <3>2 DEF RowOwned
      <4> QED
        BY <1>7, <1>9, <3>3, <4>1
    <3> HIDE DEF old
    <3> QED
      BY <3>1, <3>4, <3>5, <3>6 DEF RowOwned
  <2> QED
    BY <2>1, <2>2
<1>11. RowsOwned'
  BY <1>10 DEF RowsOwned
<1> QED
  BY <1>5, <1>6, <1>8, <1>11

(* An authenticator is enrolled with a fresh secret. *)
LEMMA EnrollTotpPreserves ==
  ASSUME IInv, NEW p \in Requests, NEW u \in Users, EnrollTotp(p, u)
  PROVE  IInv'
<1>1. /\ TypeOK /\ RowsOwned /\ CodesOwned /\ Recorded /\ "TOTP" \in Types
      /\ UNCHANGED <<backup, challenge, sent, req, asked, removed, proven, ever, granted>>
  BY DEF IInv, EnrollTotp
<1>2. PICK s \in Unused(Secrets) : Upsert(u, "TOTP", s)
  BY DEF EnrollTotp
<1>3. /\ Grows /\ RowsOwned' /\ owner' \in [Generated -> Users \cup {None}]
      /\ method' \in [Users \X Types -> Rows \cup {NoRow}]
  BY <1>1, <1>2, UpsertRows
<1>4. TypeOK'
  BY <1>1, <1>3 DEF TypeOK
<1>5. Recorded'
  BY <1>1, <1>3 DEF Recorded, Grows, TypeOK, Generated
<1>6. CodesOwned'
  BY <1>1, <1>3 DEF CodesOwned, Grows, TypeOK, Generated, NoCode, CodeRow, CodeRows
<1>7. Others(p) /\ \A q \in Requests : q # p => RequestOK(q)'
  BY <1>1, <1>3, OthersOK DEF Others
<1>8. RequestOK(p)'
  <2>1. RequestOK(p) /\ req'[p] = req[p] /\ req[p].at = "idle" /\ removed' = removed
    BY <1>1 DEF IInv, EnrollTotp
  <2> QED
    BY <2>1 DEF RequestOK, Located, Challenged, Reached, Verifying, Passed
<1> QED
  BY <1>1, <1>3, <1>4, <1>5, <1>6, <1>7, <1>8, Together

(* A row for one-time codes is written without a secret. *)
LEMMA UpsertOtpPreserves ==
  ASSUME IInv, NEW p \in Requests, UpsertOtp(p)
  PROVE  IInv'
<1> DEFINE r == req[p]
<1>1. /\ TypeOK /\ RowsOwned /\ CodesOwned /\ Recorded /\ RequestOK(p)
      /\ r.at = "upsert" /\ Upsert(r.user, r.type, None) /\ Move(p, "sendOtp")
      /\ UNCHANGED <<backup, challenge, sent, asked, removed, proven, ever, granted>>
  BY DEF IInv, UpsertOtp
<1>2. r.user \in Users /\ r.type \in Types
  BY <1>1 DEF RequestOK, Located
<1>3. /\ Grows /\ RowsOwned' /\ owner' \in [Generated -> Users \cup {None}]
      /\ method' \in [Users \X Types -> Rows \cup {NoRow}]
  BY <1>1, <1>2, UpsertRows
<1>4. /\ req' \in [Requests -> Frames] /\ Others(p) /\ req'[p].at = "sendOtp"
      /\ SameLocals(p)
  BY <1>1, MoveFrame DEF Places
<1>5. TypeOK'
  BY <1>1, <1>3, <1>4 DEF TypeOK
<1>6. Recorded'
  BY <1>1, <1>3 DEF Recorded, Grows, TypeOK, Generated
<1>7. CodesOwned'
  BY <1>1, <1>3 DEF CodesOwned, Grows, TypeOK, Generated, NoCode, CodeRow, CodeRows
<1>8. RequestOK(p)'
  BY <1>1, <1>2, <1>4
  DEF RequestOK, Located, Challenged, Reached, Verifying, Passed, SameLocals
<1> QED
  BY <1>1, <1>3, <1>4, <1>5, <1>6, <1>7, <1>8, Together

(* A row that is enabled keeps its id and its secret. *)
LEMMA EnablePreserves ==
  ASSUME IInv, NEW p \in Requests, Enable(p)
  PROVE  IInv'
<1> DEFINE key == <<req[p].user, req[p].type>>
           row == method[key]
           new == Row(row.id, TRUE, row.secret)
<1>1. /\ TypeOK /\ RowsOwned /\ CodesOwned /\ Recorded /\ RequestOK(p)
      /\ req[p].at = "enable"
      /\ UNCHANGED <<backup, challenge, sent, owner, asked, removed, ever, granted>>
  BY DEF IInv, Enable
<1>2. CASE Return(p) /\ UNCHANGED <<method, proven>>
  <2>1. UNCHANGED <<stored, history>>
    BY <1>1, <1>2 DEF stored, history
  <2> QED
    BY <1>2, <2>1, ReturnPreserves
<1>3. CASE /\ HasRow(p)
           /\ method' = [method EXCEPT ![key] = new]
           /\ proven' = proven \cup ({req[p].given} \cap Secrets)
           /\ Move(p, "countBackup")
  <2>1. /\ req[p].user \in Users /\ req[p].type \in Types
        /\ row.id \in MethodIds /\ row \in Rows \cup {NoRow}
    BY <1>1, <1>3 DEF RequestOK, Located, HasRow, RowOf, TypeOK
  <2>2. row.secret \in Secrets \cup {None}
    BY <2>1, RowKinds
  <2>3. new \in Rows /\ new.id = row.id /\ new.secret = row.secret
    BY <2>1, <2>2 DEF Row, Rows
  <2> HIDE DEF new
  <2>4. method' \in [Users \X Types -> Rows \cup {NoRow}]
    BY <1>1, <1>3, <2>1, <2>3 DEF TypeOK
  <2>5. \A v \in Users, s \in Types : /\ method'[<<v, s>>].id = method[<<v, s>>].id
                                      /\ method'[<<v, s>>].secret = method[<<v, s>>].secret
    BY <1>1, <1>3, <2>1, <2>3 DEF TypeOK
  <2>6. Grows
    BY <1>1 DEF Grows
  <2>7. RowsOwned'
    BY <1>1, <2>5, <2>6, SameIdsKept
  <2>8. /\ req' \in [Requests -> Frames] /\ Others(p) /\ req'[p].at = "countBackup"
        /\ SameLocals(p)
    BY <1>1, <1>3, MoveFrame DEF Places
  <2>9. RequestOK(p)'
    BY <1>1, <2>1, <2>8
    DEF RequestOK, Located, Challenged, Reached, Verifying, Passed, SameLocals
  <2>10. TypeOK'
    BY <1>1, <1>3, <2>4, <2>8 DEF TypeOK
  <2>11. Recorded' /\ CodesOwned'
    BY <1>1 DEF Recorded, CodesOwned
  <2> QED
    BY <1>1, <2>6, <2>7, <2>8, <2>9, <2>10, <2>11, Together
<1> QED
  BY <1>2, <1>3 DEF Enable

(* A method that is deleted counts as removed; no other row has its id. *)
LEMMA DeletePreserves ==
  ASSUME IInv, NEW p \in Requests, Delete(p)
  PROVE  IInv'
<1> DEFINE r == req[p]
           key == <<r.user, r.type>>
<1>1. /\ TypeOK /\ RowsOwned /\ CodesOwned /\ Recorded /\ RequestOK(p)
      /\ r.at = "delete"
      /\ UNCHANGED <<backup, challenge, sent, owner, asked, proven, ever, granted>>
  BY DEF IInv, Delete
<1>2. CASE Return(p) /\ UNCHANGED <<method, removed>>
  <2>1. UNCHANGED <<stored, history>>
    BY <1>1, <1>2 DEF stored, history
  <2> QED
    BY <1>2, <2>1, ReturnPreserves
<1>3. CASE /\ HasRow(p) /\ method' = [method EXCEPT ![key] = NoRow]
           /\ removed' = removed \cup {r.id} /\ Move(p, "readRemaining")
  <2>1. r.user \in Users /\ r.type \in Types /\ r.id \in MethodIds /\ method[key].id = r.id
    BY <1>1, <1>3 DEF RequestOK, Located, HasRow, RowOf
  <2>2. RowOwned(method[key], r.user, r.type)
    BY <1>1, <2>1 DEF RowsOwned
  <2>3. owner[r.id] = r.user
    BY <2>1, <2>2 DEF RowOwned
  <2>4. method' \in [Users \X Types -> Rows \cup {NoRow}]
    BY <1>1, <1>3 DEF TypeOK
  <2>5. method'[key].id = None
    BY <1>1, <1>3, <2>1 DEF TypeOK, NoRow, Row
  <2>6. \A v \in Users, s \in Types :
          ~(v = r.user /\ s = r.type) => method'[<<v, s>>] = method[<<v, s>>]
    BY <1>1, <1>3 DEF TypeOK
  <2>7. ASSUME NEW v \in Users, NEW s \in Types, method'[<<v, s>>].id # None
        PROVE  RowOwned(method[<<v, s>>], v, s)'
    <3> DEFINE old == method[<<v, s>>]
    <3>1. ~(v = r.user /\ s = r.type) /\ method'[<<v, s>>] = old
      BY <2>5, <2>6, <2>7
    <3>2. RowOwned(old, v, s)
      BY <1>1, <2>7, <3>1 DEF RowsOwned
    <3>3. owner'[old.id] = v /\ (old.secret # None => owner'[old.secret] = v)
      BY <1>1, <3>2 DEF RowOwned
    <3>4. old.id # r.id
      BY <2>1, <2>2, <3>1 DEF RowOwned
    <3>5. old.id \notin removed'
      BY <1>3, <3>2, <3>4 DEF RowOwned
    <3>6. \A w \in Users, t \in Types : method'[<<w, t>>].id = old.id => w = v /\ t = s
      <4>1. \A w \in Users, t \in Types : method[<<w, t>>].id = old.id => w = v /\ t = s
        BY <3>2 DEF RowOwned
      <4>2. old.id # None
        BY <2>7, <3>1
      <4> QED
        BY <2>5, <2>6, <4>1, <4>2
    <3> HIDE DEF old
    <3> QED
      BY <3>1, <3>3, <3>5, <3>6 DEF RowOwned
  <2>8. RowsOwned'
    BY <2>7 DEF RowsOwned
  <2>9. Grows
    BY <1>1, <1>3 DEF Grows
  <2>10. /\ req' \in [Requests -> Frames] /\ Others(p) /\ req'[p].at = "readRemaining"
         /\ SameLocals(p)
    BY <1>1, <1>3, MoveFrame DEF Places
  <2>11. RequestOK(p)'
    BY <1>1, <2>1, <2>9, <2>10
    DEF RequestOK, Located, Challenged, Reached, Verifying, Passed, SameLocals, Grows
  <2>12. TypeOK'
    BY <1>1, <1>3, <2>1, <2>4, <2>10 DEF TypeOK
  <2>13. Recorded' /\ CodesOwned'
    BY <1>1, <1>3, <2>1, <2>3 DEF Recorded, CodesOwned
  <2> QED
    BY <1>1, <2>8, <2>9, <2>10, <2>11, <2>12, <2>13, Together
<1> QED
  BY <1>2, <1>3 DEF Delete

(* New backup codes are fresh and the user's; the old ones go. *)
LEMMA InsertNewPreserves ==
  ASSUME IInv, NEW p \in Requests, InsertNew(p)
  PROVE  IInv'
<1> DEFINE u == req[p].user
           old == req[p].old
<1>1. /\ TypeOK /\ RowsOwned /\ CodesOwned /\ Recorded /\ RequestOK(p) /\ u \in Users
      /\ UNCHANGED <<method, challenge, sent, asked, removed, proven, ever, granted>>
  BY DEF IInv, InsertNew, RequestOK, Located
<1>2. PICK new \in SUBSET Unused(BackupCodes) :
        /\ backup' = [c \in BackupCodes |->
             IF c \in new THEN CodeRow(u, FALSE)
             ELSE IF c \in old THEN NoCode ELSE backup[c]]
        /\ owner' = [x \in Generated |-> IF x \in new THEN u ELSE owner[x]]
  BY DEF InsertNew
<1>3. \A c \in new : c \in BackupCodes /\ owner[c] = None
  BY <1>2 DEF Unused
<1>4. CodeRow(u, FALSE) \in CodeRows /\ CodeRow(u, FALSE).user = u /\ NoCode.user = None
  BY <1>1 DEF CodeRow, CodeRows, NoCode
<1> HIDE DEF u, old
<1>5. req' \in [Requests -> Frames] /\ Others(p) /\ RequestOK(p)'
  BY <1>1, ReturnFrame DEF InsertNew
<1>6. Grows
  BY <1>1, <1>2, <1>3 DEF Grows
<1>7. owner' \in [Generated -> Users \cup {None}]
  BY <1>1, <1>2 DEF TypeOK
<1>8. backup' \in [BackupCodes -> CodeRows \cup {NoCode}]
  BY <1>1, <1>2, <1>4 DEF TypeOK
<1>9. TypeOK'
  BY <1>1, <1>5, <1>7, <1>8 DEF TypeOK
<1>10. CodesOwned'
  <2> SUFFICES ASSUME NEW c \in BackupCodes, backup'[c].user # None
               PROVE  owner'[c] = backup'[c].user
    BY DEF CodesOwned
  <2>1. CASE c \in new
    BY <1>2, <1>4, <2>1 DEF Generated
  <2>2. CASE c \notin new
    <3>1. backup'[c] = backup[c] /\ owner'[c] = owner[c]
      BY <1>2, <1>4, <2>2 DEF Generated
    <3> QED
      BY <1>1, <3>1 DEF CodesOwned
  <2> QED
    BY <2>1, <2>2
<1>11. Recorded'
  <2>1. \A id \in removed : owner'[id] # None
    BY <1>1, <1>6 DEF Recorded, Grows, TypeOK, Generated
  <2> QED
    BY <1>1, <2>1 DEF Recorded
<1> QED
  BY <1>1, <1>5, <1>6, <1>9, <1>10, <1>11, MethodsAlone

(* With the last method the user's backup codes go. *)
LEMMA ClearPreserves ==
  ASSUME IInv, NEW p \in Requests, Clear(p)
  PROVE  IInv'
<1> DEFINE gone == RowsOf(req[p].user)
<1>1. /\ TypeOK /\ CodesOwned /\ Recorded
      /\ UNCHANGED <<method, challenge, sent>> /\ UNCHANGED history
      /\ backup' = [c \in BackupCodes |-> IF c \in gone THEN NoCode ELSE backup[c]]
  BY DEF IInv, Clear
<1>2. UNCHANGED <<owner, asked, removed, proven, ever, granted>>
  BY <1>1 DEF history
<1>3. NoCode.user = None
  BY DEF NoCode, CodeRow
<1> HIDE DEF gone
<1>4. req' \in [Requests -> Frames] /\ Others(p) /\ RequestOK(p)'
  BY <1>1, ReturnFrame DEF Clear
<1>5. TypeOK'
  BY <1>1, <1>2, <1>4 DEF TypeOK
<1>6. CodesOwned' /\ Recorded' /\ Grows
  BY <1>1, <1>2, <1>3 DEF CodesOwned, Recorded, Grows
<1> QED
  BY <1>1, <1>2, <1>4, <1>5, <1>6, MethodsAlone

(* A TTL ends; no request is involved. *)
LEMMA ExpirePreserves ==
  ASSUME IInv,
         \/ \E c \in Challenges : ExpireChallenge(c)
         \/ \E code \in sent : ExpireOtp(code)
  PROVE  IInv'
<1>1. UNCHANGED <<method, backup, req>> /\ UNCHANGED history
  BY DEF ExpireChallenge, ExpireOtp
<1>2. UNCHANGED <<owner, asked, removed, proven, ever, granted>>
  BY <1>1 DEF history
<1>3. TypeOK' /\ Recorded'
  <2>1. CASE \E c \in Challenges : ExpireChallenge(c)
    BY <1>1, <2>1, ChallengeGone DEF ExpireChallenge, IInv, TypeOK
  <2>2. CASE \E code \in sent : ExpireOtp(code)
    BY <1>2, <2>2 DEF ExpireOtp, IInv, TypeOK, Recorded
  <2> QED
    BY <2>1, <2>2
<1>4. CodesOwned' /\ Grows
  BY <1>1, <1>2 DEF IInv, CodesOwned, Grows
<1>5. RowsOwned'
  BY <1>1, <1>2, <1>4, RowsKept DEF IInv
<1>6. GrantedAsChallenged' /\ RemovedGrantsNothing'
  BY <1>2, <1>4, GrantedKept
<1>7. \A p \in Requests : RequestOK(p)'
  BY <1>1, <1>2 DEF IInv, RequestOK, Located, Challenged
<1> QED
  BY <1>3, <1>4, <1>5, <1>6, <1>7 DEF IInv

-----------------------------------------------------------------------------
(* A request starts. *)
LEMMA StartPreserves ==
  ASSUME IInv, NEW p \in Requests, Start(p)
  PROVE  IInv'
<1>1. ASSUME NEW c \in Challenges, NEW t \in OtpTypes, StartChallenge(p, "send", c, t, None)
      PROVE  IInv'
  BY <1>1, StartChallengePreserves DEF OtpTypes
<1>2. ASSUME NEW c \in Challenges, NEW t \in Types, NEW code \in Givens,
             StartChallenge(p, "verify", c, t, code)
      PROVE  IInv'
  BY <1>2, StartChallengePreserves
<1> QED
  BY <1>1, <1>2, QuietStartPreserves, EnrollTotpPreserves DEF Start

(* A step of a request. *)
LEMMA ProceedPreserves ==
  ASSUME IInv, NEW p \in Requests, Proceed(p)
  PROVE  IInv'
BY ReadMethodsPreserves, StoreChallengePreserves, ReadChallengePreserves,
   ReadEnabledPreserves, SendOtpPreserves, AcceptOtpPreserves,
   RefuseOtpPreserves, FindBackupPreserves, ConsumeBackupPreserves,
   TouchPreserves, DropChallengePreserves, IssuePreserves,
   FindExistingPreserves, UpsertOtpPreserves, FindMethodPreserves,
   EnablePreserves, CountingPreserves, DeleteOldPreserves, InsertNewPreserves,
   FindByIdPreserves, DeletePreserves, ClearPreserves
DEF Proceed

(* Every step keeps the invariant, a stuttering one included. *)
LEMMA StepPreserves == IInv /\ [Next]_vars => IInv'
<1> SUFFICES ASSUME IInv, [Next]_vars
             PROVE  IInv'
  OBVIOUS
<1>1. ASSUME NEW p \in Requests, Abort(p) PROVE IInv'
  BY <1>1, ReturnPreserves DEF Abort
<1>2. CASE Next
  BY <1>1, <1>2, StartPreserves, ProceedPreserves, ExpirePreserves DEF Next
<1>3. CASE UNCHANGED vars
  <2>1. UNCHANGED <<method, backup, challenge, sent, req>>
        /\ UNCHANGED <<owner, asked, removed, proven, ever, granted>>
    BY <1>3 DEF vars, stored, history
  <2>2. TypeOK' /\ Recorded' /\ CodesOwned' /\ Grows
    BY <2>1 DEF IInv, TypeOK, Recorded, CodesOwned, Grows
  <2>3. RowsOwned'
    BY <2>1, <2>2, RowsKept DEF IInv
  <2>4. GrantedAsChallenged' /\ RemovedGrantsNothing'
    BY <2>1, <2>2, GrantedKept
  <2>5. \A p \in Requests : RequestOK(p)'
    BY <2>1 DEF IInv, RequestOK, Located, Challenged
  <2> QED
    BY <2>2, <2>3, <2>4, <2>5 DEF IInv
<1> QED
  BY <1>2, <1>3

(* The invariant always holds. *)
THEOREM Invariance == Spec => []IInv
BY Initially, StepPreserves, PTL DEF Spec

(* Every variable always holds a value of its kind. *)
THEOREM TypeCorrect == Spec => []TypeOK
<1>1. IInv => TypeOK
  BY DEF IInv
<1> QED
  BY Invariance, <1>1, PTL

(* A challenge gives a session to the user who opened it only, through a method
   it was issued for, against a code of that user. *)
THEOREM SessionsAsChallenged == Spec => []GrantedAsChallenged
<1>1. IInv => GrantedAsChallenged
  BY DEF IInv
<1> QED
  BY Invariance, <1>1, PTL

(* A method that was removed before a verification began gives it no
   session. *)
THEOREM RemovedMethodsGrantNothing == Spec => []RemovedGrantsNothing
<1>1. IInv => RemovedGrantsNothing
  BY DEF IInv
<1> QED
  BY Invariance, <1>1, PTL

-----------------------------------------------------------------------------
(* What holds of requests that do not get in each other's way.  Each of the
   next theorems names the one overlap that must not happen. *)

(* A place a request reaches without what the next theorems are about. *)
Aside == {"readMethods", "storeChallenge", "readOwned", "sendOtp", "countBackup",
          "deleteOld", "insertNew", "findById", "delete", "readRemaining", "clear"}

(* The ways on that keep what was presented, and for what. *)
Ways == {<<"readEnabled", "touch">>, <<"readEnabled", "findBackup">>,
         <<"verifyOtp", "touch">>, <<"verifyOtp", "findBackup">>,
         <<"verifyOtp", "enable">>, <<"consumeBackup", "touch">>,
         <<"touch", "dropChallenge">>, <<"findExisting", "upsert">>}
SamePresented(p) ==
  /\ req'[p].type = req[p].type /\ req'[p].given = req[p].given
  /\ req'[p].for = req[p].for /\ req'[p].challenge = req[p].challenge

(* A call, as it begins. *)
Begun(r) ==
  \/ r.at = "readChallenge"
  \/ r.at = "findExisting" /\ r.type # "TOTP"
  \/ r.at = "findMethod" /\ r.given \in Givens

(* How a request gets where it is. *)
Arrives(p) ==
  \/ req'[p] = req[p] \/ req'[p].at = "idle" \/ req'[p].at \in Aside
  \/ Begun(req'[p])
  \/ SamePresented(p) /\ <<req[p].at, req'[p].at>> \in Ways
  \/ /\ SamePresented(p) /\ req[p].at = "readEnabled"
     /\ req'[p].at = "verifyOtp" /\ req[p].type # "TOTP"
  \/ ReadChallenge(p) \/ FindBackup(p) \/ FindMethod(p) \/ DropChallenge(p)

(* A request that returns is idle. *)
LEMMA Returned ==
  ASSUME TypeOK, NEW p \in Requests, Return(p)
  PROVE  Others(p) /\ req'[p].at = "idle"
  BY DEF TypeOK, Return, Others, NoFrame, Frame

(* A call begins. *)
LEMMA StartArrives ==
  ASSUME IInv, NEW p \in Requests, Start(p)
  PROVE  Others(p) /\ Arrives(p)
<1>1. req \in [Requests -> Frames]
  BY DEF IInv, TypeOK
<1>2. ASSUME NEW f, Begin(p, f) PROVE Others(p) /\ req'[p] = f
  BY <1>1, <1>2 DEF Begin, Others
<1>3. ASSUME NEW u \in Users, StartLogin(p, u) \/ StartRegenerate(p, u)
      PROVE  Others(p) /\ Arrives(p)
  BY <1>2, <1>3 DEF StartLogin, StartRegenerate, Frame, Arrives, Aside
<1>4. ASSUME NEW u \in Users, EnrollTotp(p, u)
      PROVE  Others(p) /\ Arrives(p)
  BY <1>4 DEF EnrollTotp, Others, Arrives
<1>5. ASSUME NEW goal, NEW c, NEW t, NEW code, StartChallenge(p, goal, c, t, code)
      PROVE  Others(p) /\ Arrives(p)
  BY <1>2, <1>5 DEF StartChallenge, Frame, Arrives, Begun
<1>6. ASSUME NEW u \in Users, NEW t \in OtpTypes, StartEnroll(p, u, t)
      PROVE  Others(p) /\ Arrives(p)
  BY <1>2, <1>6 DEF StartEnroll, Frame, Arrives, Begun, OtpTypes
<1>7. ASSUME NEW u \in Users, NEW t \in Types, NEW code \in Givens,
             StartConfirm(p, u, t, code)
      PROVE  Others(p) /\ Arrives(p)
  BY <1>2, <1>7 DEF StartConfirm, Frame, Arrives, Begun
<1>8. ASSUME NEW u \in Users, NEW id \in MethodIds, StartDisable(p, u, id)
      PROVE  Others(p) /\ Arrives(p)
  BY <1>2, <1>8 DEF StartDisable, Frame, Arrives, Aside
<1> QED
  BY <1>3, <1>4, <1>5, <1>6, <1>7, <1>8 DEF Start

(* A request that moves on, and from where. *)
LEMMA MoveArrives ==
  ASSUME IInv, NEW p \in Requests, NEW place \in Places, Move(p, place),
         place \in Aside \/ <<req[p].at, place>> \in Ways
  PROVE  Others(p) /\ Arrives(p)
  BY MoveFrame DEF IInv, Arrives, SameLocals, SamePresented

(* A step of a request in flight. *)
LEMMA ProceedArrives ==
  ASSUME IInv, NEW p \in Requests, Proceed(p) \/ Abort(p)
  PROVE  Others(p) /\ Arrives(p)
<1>1. TypeOK /\ req \in [Requests -> Frames] /\ req[p] \in Frames
  BY DEF IInv, TypeOK
<1>2. ASSUME Return(p) PROVE Others(p) /\ Arrives(p)
  BY <1>1, <1>2, Returned DEF Arrives
<1>3. ASSUME \/ Abort(p) \/ StoreChallenge(p) \/ SendOtp(p) \/ Issue(p)
             \/ InsertNew(p) \/ Clear(p)
      PROVE  Others(p) /\ Arrives(p)
  BY <1>2, <1>3 DEF Abort, StoreChallenge, SendOtp, Issue, InsertNew, Clear
<1>4. ASSUME ReadMethods(p) PROVE Others(p) /\ Arrives(p)
  BY <1>1, <1>2, <1>4 DEF ReadMethods, Arrives, Aside, Others, Frames
<1>5. ASSUME ReadChallenge(p) PROVE Others(p) /\ Arrives(p)
  BY <1>1, <1>2, <1>5 DEF ReadChallenge, Arrives, Others
<1>6. ASSUME ReadEnabled(p) PROVE Others(p) /\ Arrives(p)
  <2> DEFINE r == req[p]
             row == RowOf(p)
             next == CASE r.for = "send" -> "sendOtp"
                       [] r.for = "verify" /\ r.type # "TOTP" -> "verifyOtp"
                       [] r.for = "verify" /\ r.type = "TOTP" /\ row.secret = r.given -> "touch"
                       [] OTHER -> "findBackup"
  <2>1. CASE Return(p)
    BY <1>2, <2>1
  <2>2. CASE req' = [req EXCEPT ![p].at = next, ![p].id = row.id]
    <3>1. \/ next \in {"sendOtp", "touch", "findBackup"}
          \/ next = "verifyOtp" /\ r.type # "TOTP"
      OBVIOUS
    <3> HIDE DEF next, row
    <3>2. /\ req'[p].at = next /\ Others(p) /\ SamePresented(p)
      BY <1>1, <2>2 DEF Frames, Others, SamePresented
    <3> QED
      BY <1>6, <3>1, <3>2 DEF Arrives, Aside, Ways, ReadEnabled
  <2> QED
    BY <1>6, <2>1, <2>2 DEF ReadEnabled
<1>7. ASSUME FindMethod(p) PROVE Others(p) /\ Arrives(p)
  BY <1>1, <1>2, <1>7 DEF FindMethod, Arrives, Others
<1>8. ASSUME DeleteOld(p) PROVE Others(p) /\ Arrives(p)
  BY <1>1, <1>8 DEF DeleteOld, Arrives, Aside, Others, Frames
<1>9. ASSUME FindById(p) PROVE Others(p) /\ Arrives(p)
  <2>1. CASE Return(p)
    BY <1>2, <2>1
  <2>2. ASSUME NEW t \in Types, req' = [req EXCEPT ![p].at = "delete", ![p].type = t]
        PROVE  Others(p) /\ req'[p].at = "delete"
    BY <1>1, <2>2 DEF Others, Frames
  <2> QED
    BY <1>9, <2>1, <2>2 DEF FindById, Arrives, Aside
<1>10. ASSUME FindBackup(p) PROVE Others(p) /\ Arrives(p)
  BY <1>1, <1>10 DEF FindBackup, Move, Return, Arrives, Others
<1>11. ASSUME DropChallenge(p) PROVE Others(p) /\ Arrives(p)
  BY <1>1, <1>11 DEF DropChallenge, Move, Arrives, Others
<1>12. ASSUME AcceptOtp(p) \/ RefuseOtp(p) PROVE Others(p) /\ Arrives(p)
  BY <1>2, <1>12, MoveArrives DEF AcceptOtp, RefuseOtp, Ways, Places
<1>13. ASSUME ConsumeBackup(p) \/ Touch(p) \/ FindExisting(p)
       PROVE  Others(p) /\ Arrives(p)
  BY <1>2, <1>13, MoveArrives DEF ConsumeBackup, Touch, FindExisting, Ways, Places
<1>14. ASSUME UpsertOtp(p) \/ Enable(p) \/ CountBackup(p) \/ ReadOwned(p)
       PROVE  Others(p) /\ Arrives(p)
  BY <1>2, <1>14, MoveArrives
  DEF UpsertOtp, Enable, CountBackup, ReadOwned, Aside, Places
<1>15. ASSUME Delete(p) \/ ReadRemaining(p) PROVE Others(p) /\ Arrives(p)
  BY <1>2, <1>15, MoveArrives DEF Delete, ReadRemaining, Aside, Places
<1> QED
  BY <1>3, <1>4, <1>5, <1>6, <1>7, <1>8, <1>9, <1>10, <1>11, <1>12, <1>13, <1>14,
     <1>15
  DEF Proceed

(* Where the four steps that are told apart lead. *)
LEMMA Leads ==
  ASSUME IInv, NEW p \in Requests
  PROVE  /\ ReadChallenge(p) => req'[p].at \in {"idle", "readEnabled"}
         /\ FindMethod(p) => req'[p].at \in {"idle", "enable", "verifyOtp"}
         /\ DropChallenge(p) => req'[p].at = "issue" /\ SamePresented(p)
         /\ FindBackup(p) =>
              \/ req'[p].at = "idle"
              \/ req'[p].at \in {"consumeBackup", "findAgain"} /\ SamePresented(p)
<1>1. req \in [Requests -> Frames] /\ req[p] \in Frames /\ NoFrame.at = "idle"
  BY DEF IInv, TypeOK, NoFrame, Frame
<1>2. ReadChallenge(p) => req'[p].at \in {"idle", "readEnabled"}
  BY <1>1 DEF ReadChallenge, Return, Frames
<1>3. FindMethod(p) => req'[p].at \in {"idle", "enable", "verifyOtp"}
  BY <1>1 DEF FindMethod, Return, Frames
<1>4. DropChallenge(p) => req'[p].at = "issue" /\ SamePresented(p)
  BY <1>1 DEF DropChallenge, Move, Frames, SamePresented
<1>5. FindBackup(p) =>
        \/ req'[p].at = "idle"
        \/ req'[p].at \in {"consumeBackup", "findAgain"} /\ SamePresented(p)
  BY <1>1 DEF FindBackup, Move, Return, Frames, SamePresented
<1> QED
  BY <1>2, <1>3, <1>4, <1>5

(* Of the requests about to use a backup code no two hold the same one. *)
OneHolder ==
  \A p, q \in Requests :
    /\ req[p].at = "consumeBackup" /\ req[q].at = "consumeBackup"
    /\ req[p].given = req[q].given
    => p = q

(* A backup code that is in use: past the place where it was marked, and from
   the place where it is about to be. *)
OnCode(p) == req[p].given \in BackupCodes
Past(p) == OnCode(p) /\ req[p].at \in Passed
UsesUp(p) == Past(p) \/ (OnCode(p) /\ req[p].at = "consumeBackup")

(* A code that was generated, and is marked or deleted: nobody finds it. *)
Gone(c) == owner[c] # None /\ (backup[c] = NoCode \/ backup[c].used)

(* A code that gave a session is gone and in nobody's use; one that was
   accepted is gone and in no other request's use. *)
CodesSpent ==
  /\ \A g \in granted :
       g.by \in BackupCodes =>
         Gone(g.by) /\ \A p \in Requests : UsesUp(p) => req[p].given # g.by
  /\ \A p \in Requests :
       Past(p) =>
         /\ Gone(req[p].given)
         /\ \A q \in Requests : UsesUp(q) /\ req[q].given = req[p].given => q = p

(* What goes on from three places. *)
LEMMA GoesOn ==
  ASSUME NEW p \in Requests, Proceed(p)
  PROVE  /\ req[p].at = "readEnabled" => ReadEnabled(p)
         /\ req[p].at = "verifyOtp" => AcceptOtp(p) \/ RefuseOtp(p)
         /\ req[p].at = "consumeBackup" => ConsumeBackup(p)
<1>1. ~(\/ ReadMethods(p) \/ StoreChallenge(p) \/ ReadChallenge(p) \/ SendOtp(p)
        \/ FindBackup(p) \/ Touch(p) \/ DropChallenge(p) \/ Issue(p))
      \/ req[p].at \notin {"readEnabled", "verifyOtp", "consumeBackup"}
  BY DEF ReadMethods, StoreChallenge, ReadChallenge, SendOtp, FindBackup, Touch,
         DropChallenge, Issue
<1>2. ~(\/ FindExisting(p) \/ UpsertOtp(p) \/ FindMethod(p) \/ Enable(p)
        \/ CountBackup(p) \/ ReadOwned(p) \/ DeleteOld(p) \/ InsertNew(p))
      \/ req[p].at \notin {"readEnabled", "verifyOtp", "consumeBackup"}
  BY DEF FindExisting, UpsertOtp, FindMethod, Enable, CountBackup, ReadOwned,
         DeleteOld, InsertNew
<1>3. ~(FindById(p) \/ Delete(p) \/ ReadRemaining(p) \/ Clear(p))
      \/ req[p].at \notin {"readEnabled", "verifyOtp", "consumeBackup"}
  BY DEF FindById, Delete, ReadRemaining, Clear
<1>4. /\ ReadEnabled(p) => req[p].at = "readEnabled"
      /\ AcceptOtp(p) \/ RefuseOtp(p) => req[p].at = "verifyOtp"
      /\ ConsumeBackup(p) => req[p].at = "consumeBackup"
  BY DEF ReadEnabled, AcceptOtp, RefuseOtp, ConsumeBackup
<1> QED
  BY <1>1, <1>2, <1>3, <1>4 DEF Proceed

(* An authenticator's code or a one-time code is no backup code, so a backup
   code is accepted by using it up, and by nothing else. *)
LEMMA AcceptedByUse ==
  ASSUME IInv, NEW p \in Requests, Proceed(p), SamePresented(p), OnCode(p),
         req'[p].at = "touch",
         req[p].at \in {"readEnabled", "verifyOtp", "consumeBackup"}
  PROVE  ConsumeBackup(p)
<1>1. TypeOK /\ req[p] \in Frames /\ RequestOK(p)
  BY DEF IInv, TypeOK
<1>2. req[p].at # "readEnabled"
  <2> SUFFICES ASSUME req[p].at = "readEnabled" PROVE FALSE
    OBVIOUS
  <2>1. ReadEnabled(p) /\ ~Return(p)
    BY <1>1, GoesOn, Returned
  <2>2. req[p].user \in Users /\ req[p].type \in Types
    BY <1>1 DEF RequestOK, Located
  <2>3. RowOf(p).secret \in Secrets \cup {None}
    BY <1>1, <2>2, RowKinds DEF TypeOK, RowOf
  <2>4. RowOf(p).secret # req[p].given
    BY <2>3 DEF OnCode
  <2> DEFINE next == CASE req[p].for = "send" -> "sendOtp"
                       [] req[p].for = "verify" /\ req[p].type # "TOTP" -> "verifyOtp"
                       [] req[p].for = "verify" /\ req[p].type = "TOTP"
                            /\ RowOf(p).secret = req[p].given -> "touch"
                       [] OTHER -> "findBackup"
  <2>5. next # "touch"
    BY <2>4
  <2>6. req' = [req EXCEPT ![p].at = next, ![p].id = RowOf(p).id]
    BY <2>1 DEF ReadEnabled
  <2> HIDE DEF next
  <2>7. req'[p].at = next
    BY <1>1, <2>6 DEF TypeOK, Frames
  <2> QED
    BY <2>5, <2>7
<1>3. req[p].at # "verifyOtp"
  <2> SUFFICES ASSUME req[p].at = "verifyOtp" PROVE FALSE
    OBVIOUS
  <2>1. CASE AcceptOtp(p)
    BY <2>1 DEF AcceptOtp, OnCode
  <2>2. CASE RefuseOtp(p)
    <3>1. Move(p, "findBackup") \/ Return(p)
      BY <2>2 DEF RefuseOtp
    <3> QED
      BY <1>1, <3>1, MoveFrame, Returned DEF Places
  <2> QED
    BY <2>1, <2>2, GoesOn
<1> QED
  BY <1>2, <1>3, GoesOn

(* A call begins in an empty slot. *)
LEMMA StartsIdle ==
  ASSUME NEW p \in Requests, Start(p)
  PROVE  req[p].at = "idle"
  BY DEF Start, StartLogin, StartRegenerate, EnrollTotp, StartChallenge, StartEnroll,
         StartConfirm, StartDisable, Begin

(* How a request comes to use a backup code up. *)
LEMMA UserArrives ==
  ASSUME IInv, NEW p \in Requests, Start(p) \/ Proceed(p) \/ Abort(p), UsesUp(p)'
  PROVE  \/ FindBackup(p) /\ req'[p].at = "consumeBackup" /\ SamePresented(p)
         \/ /\ UsesUp(p) /\ req'[p].given = req[p].given
            /\ Past(p)' => Past(p) \/ ConsumeBackup(p)
<1>1. Arrives(p) /\ OnCode(p)' /\ req'[p].at \in Passed \cup {"consumeBackup"}
  BY StartArrives, ProceedArrives DEF UsesUp, Past
<1>2. CASE req'[p] = req[p]
  BY <1>1, <1>2 DEF UsesUp, Past, OnCode
<1>3. CASE SamePresented(p) /\ <<req[p].at, req'[p].at>> \in Ways
  <2>1. OnCode(p) /\ req'[p].given = req[p].given
    BY <1>1, <1>3 DEF SamePresented, OnCode
  <2>2. \/ req[p].at = "touch" /\ req'[p].at = "dropChallenge"
        \/ /\ req[p].at \in {"readEnabled", "verifyOtp", "consumeBackup"}
           /\ req'[p].at = "touch"
    BY <1>1, <1>3 DEF Ways, Passed
  <2>3. CASE req[p].at = "touch"
    BY <2>1, <2>3 DEF UsesUp, Past, Passed
  <2>4. CASE req[p].at # "touch"
    <3>1. Proceed(p)
      BY <2>2, <2>4, StartsIdle, Returned DEF Abort, IInv
    <3>2. ConsumeBackup(p) /\ req[p].at = "consumeBackup"
      BY <1>3, <2>1, <2>2, <2>4, <3>1, AcceptedByUse DEF ConsumeBackup
    <3> QED
      BY <2>1, <3>2 DEF UsesUp
  <2> QED
    BY <2>3, <2>4
<1>4. CASE FindBackup(p) \/ ReadChallenge(p) \/ FindMethod(p)
  BY <1>1, <1>4, Leads DEF Passed
<1>5. CASE DropChallenge(p)
  <2>1. req[p].at = "dropChallenge" /\ SamePresented(p)
    BY <1>5, Leads DEF DropChallenge
  <2> QED
    BY <1>1, <2>1 DEF UsesUp, Past, OnCode, SamePresented, Passed
<1>6. /\ req'[p].at # "idle" /\ req'[p].at \notin Aside \cup {"verifyOtp"}
      /\ ~Begun(req'[p])
  BY <1>1 DEF Passed, Aside, Begun
<1> QED
  BY <1>2, <1>3, <1>4, <1>5, <1>6, <1>1 DEF Arrives

(* What is written to the backup codes. *)
LEMMA BackupWrites ==
  ASSUME NEW p \in Requests, Start(p) \/ Proceed(p) \/ Abort(p)
  PROVE  backup' = backup \/ ConsumeBackup(p) \/ InsertNew(p) \/ Clear(p)
<1>1. ASSUME Start(p) \/ Abort(p) PROVE backup' = backup
  BY <1>1
  DEF Start, Abort, StartLogin, StartRegenerate, EnrollTotp, StartChallenge,
      StartEnroll, StartConfirm, StartDisable, Begin, stored
<1>2. ASSUME Proceed(p)
      PROVE  backup' = backup \/ ConsumeBackup(p) \/ InsertNew(p) \/ Clear(p)
  <2>1. ASSUME \/ ReadMethods(p) \/ ReadChallenge(p) \/ ReadEnabled(p) \/ RefuseOtp(p)
               \/ FindBackup(p) \/ Touch(p) \/ FindExisting(p) \/ FindMethod(p)
        PROVE  backup' = backup
    BY <2>1
    DEF ReadMethods, ReadChallenge, ReadEnabled, RefuseOtp, FindBackup, Touch,
        FindExisting, FindMethod, stored
  <2>2. ASSUME \/ CountBackup(p) \/ ReadOwned(p) \/ DeleteOld(p) \/ FindById(p)
               \/ ReadRemaining(p) \/ Issue(p)
        PROVE  backup' = backup
    BY <2>2
    DEF CountBackup, ReadOwned, DeleteOld, FindById, ReadRemaining, Issue, stored
  <2>3. ASSUME \/ StoreChallenge(p) \/ SendOtp(p) \/ AcceptOtp(p) \/ DropChallenge(p)
               \/ UpsertOtp(p) \/ Enable(p) \/ Delete(p)
        PROVE  backup' = backup
    BY <2>3
    DEF StoreChallenge, SendOtp, AcceptOtp, DropChallenge, UpsertOtp, Enable, Delete
  <2> QED
    BY <1>2, <2>1, <2>2, <2>3 DEF Proceed
<1> QED
  BY <1>1, <1>2

(* What is written to the challenges and to the sessions. *)
LEMMA ChallengeWrites ==
  ASSUME NEW p \in Requests, Start(p) \/ Proceed(p) \/ Abort(p)
  PROVE  /\ challenge' = challenge \/ StoreChallenge(p) \/ DropChallenge(p)
         /\ granted' = granted \/ Issue(p)
<1>1. ASSUME Start(p) \/ Abort(p) PROVE UNCHANGED <<challenge, granted>>
  BY <1>1
  DEF Start, Abort, StartLogin, StartRegenerate, EnrollTotp, StartChallenge,
      StartEnroll, StartConfirm, StartDisable, Begin, stored, history
<1>2. ASSUME \/ ReadMethods(p) \/ ReadChallenge(p) \/ ReadEnabled(p) \/ RefuseOtp(p)
             \/ FindBackup(p) \/ Touch(p) \/ FindExisting(p) \/ FindMethod(p)
      PROVE  UNCHANGED <<challenge, granted>>
  BY <1>2
  DEF ReadMethods, ReadChallenge, ReadEnabled, RefuseOtp, FindBackup, Touch,
      FindExisting, FindMethod, stored, history
<1>3. ASSUME \/ CountBackup(p) \/ ReadOwned(p) \/ DeleteOld(p) \/ FindById(p)
             \/ ReadRemaining(p)
      PROVE  UNCHANGED <<challenge, granted>>
  BY <1>3
  DEF CountBackup, ReadOwned, DeleteOld, FindById, ReadRemaining, stored, history
<1>4. ASSUME \/ SendOtp(p) \/ AcceptOtp(p) \/ ConsumeBackup(p) \/ UpsertOtp(p)
             \/ Enable(p) \/ Delete(p) \/ InsertNew(p) \/ Clear(p)
      PROVE  UNCHANGED <<challenge, granted>>
  BY <1>4
  DEF SendOtp, AcceptOtp, ConsumeBackup, UpsertOtp, Enable, Delete, InsertNew,
      Clear, history
<1>5. /\ StoreChallenge(p) \/ DropChallenge(p) => granted' = granted
      /\ Issue(p) => challenge' = challenge
  BY DEF StoreChallenge, DropChallenge, Issue, stored, history
<1> QED
  BY <1>1, <1>2, <1>3, <1>4, <1>5 DEF Proceed

(* What is written to the owners. *)
LEMMA OwnerWrites ==
  ASSUME IInv, NEW p \in Requests, Start(p) \/ Proceed(p) \/ Abort(p)
  PROVE  \A x \in Generated : owner[x] # None => owner'[x] = owner[x]
<1>1. TypeOK /\ RowsOwned /\ Recorded /\ RequestOK(p)
  BY DEF IInv
<1>2. ASSUME NEW u \in Users, EnrollTotp(p, u) PROVE Grows
  <2>1. PICK s \in Unused(Secrets) : Upsert(u, "TOTP", s)
    BY <1>2 DEF EnrollTotp
  <2> QED
    BY <1>1, <1>2, <2>1, UpsertRows DEF EnrollTotp
<1>3. ASSUME UpsertOtp(p) PROVE Grows
  <2>1. req[p].user \in Users /\ req[p].type \in Types
    BY <1>1, <1>3 DEF UpsertOtp, RequestOK, Located
  <2> QED
    BY <1>1, <1>3, <2>1, UpsertRows DEF UpsertOtp
<1>4. ASSUME InsertNew(p) PROVE \A x \in Generated : owner[x] # None => owner'[x] = owner[x]
  BY <1>4 DEF InsertNew, Unused
<1>5. ASSUME Abort(p) \/ (Start(p) /\ \A u \in Users : ~EnrollTotp(p, u))
      PROVE  owner' = owner
  BY <1>5
  DEF Start, Abort, StartLogin, StartRegenerate, StartChallenge, StartEnroll,
      StartConfirm, StartDisable, Begin, history
<1>6. ASSUME \/ ReadMethods(p) \/ ReadChallenge(p) \/ ReadEnabled(p) \/ RefuseOtp(p)
             \/ FindBackup(p) \/ Touch(p) \/ FindExisting(p) \/ FindMethod(p)
      PROVE  owner' = owner
  BY <1>6
  DEF ReadMethods, ReadChallenge, ReadEnabled, RefuseOtp, FindBackup, Touch,
      FindExisting, FindMethod, history
<1>7. ASSUME \/ CountBackup(p) \/ ReadOwned(p) \/ DeleteOld(p) \/ FindById(p)
             \/ ReadRemaining(p) \/ Clear(p) \/ ConsumeBackup(p) \/ DropChallenge(p)
      PROVE  owner' = owner
  BY <1>7
  DEF CountBackup, ReadOwned, DeleteOld, FindById, ReadRemaining, Clear,
      ConsumeBackup, DropChallenge, history
<1>8. ASSUME \/ StoreChallenge(p) \/ SendOtp(p) \/ AcceptOtp(p) \/ Issue(p)
             \/ Enable(p) \/ Delete(p)
      PROVE  owner' = owner
  BY <1>8 DEF StoreChallenge, SendOtp, AcceptOtp, Issue, Enable, Delete, history
<1>9. CASE Start(p) \/ Abort(p)
  BY <1>2, <1>5, <1>9 DEF Grows
<1>10. CASE Proceed(p)
  BY <1>3, <1>4, <1>6, <1>7, <1>8, <1>10 DEF Proceed, Grows
<1> QED
  BY <1>9, <1>10

(* A code that is gone stays so: new codes are none that was generated. *)
LEMMA GoneStays ==
  ASSUME IInv, NEW p \in Requests, Start(p) \/ Proceed(p) \/ Abort(p),
         NEW c \in BackupCodes, Gone(c)
  PROVE  Gone(c)'
<1>1. owner[c] # None /\ owner'[c] # None
  BY OwnerWrites DEF Gone, Generated
<1>2. backup \in [BackupCodes -> CodeRows \cup {NoCode}]
  BY DEF IInv, TypeOK
<1>3. ASSUME ConsumeBackup(p) PROVE backup'[c] = NoCode \/ backup'[c].used
  <2>1. \A u : CodeRow(u, TRUE).used
    BY DEF CodeRow
  <2>2. CASE backup' = backup
    BY <2>2 DEF Gone
  <2>3. CASE /\ backup[req[p].given] # NoCode
             /\ backup' = [backup EXCEPT ![req[p].given] = CodeRow(@.user, TRUE)]
    BY <1>2, <2>1, <2>3 DEF Gone
  <2> QED
    BY <1>3, <2>2, <2>3 DEF ConsumeBackup
<1>4. ASSUME InsertNew(p) \/ Clear(p) PROVE backup'[c] \in {backup[c], NoCode}
  BY <1>1, <1>4 DEF InsertNew, Clear, Unused
<1> QED
  BY <1>1, <1>3, <1>4, BackupWrites DEF Gone

(* A step of a request that uses a code up leaves it to no other. *)
LEMMA StepKeepsSpent ==
  ASSUME IInv, CodesSpent, OneHolder, NEW p \in Requests,
         Start(p) \/ Proceed(p) \/ Abort(p)
  PROVE  CodesSpent'
<1>1. Others(p) /\ TypeOK /\ RequestOK(p)
  BY StartArrives, ProceedArrives DEF IInv
<1>2. ASSUME NEW q \in Requests, q # p
      PROVE  /\ req'[q] = req[q] /\ UsesUp(q)' = UsesUp(q) /\ Past(q)' = Past(q)
  BY <1>1, <1>2 DEF Others, UsesUp, Past, OnCode
<1>3. ASSUME FindBackup(p), req'[p].at = "consumeBackup"
      PROVE  ~Gone(req[p].given) /\ ~Past(p)'
  <2>1. Valid(req[p].given, req[p].user) /\ req[p].user \in Users
    BY <1>1, <1>3
    DEF FindBackup, Move, Return, NoFrame, Frame, Frames, TypeOK, RequestOK, Located,
        Verifying
  <2>2. /\ CodeRow(req[p].user, FALSE).used = FALSE
        /\ CodeRow(req[p].user, FALSE) # NoCode
    BY <2>1 DEF CodeRow, NoCode
  <2> QED
    BY <1>3, <2>1, <2>2 DEF Valid, Gone, Past, Passed
<1>4. ASSUME ConsumeBackup(p), Past(p)'
      PROVE  /\ OnCode(p) /\ req[p].at = "consumeBackup"
             /\ req'[p].given = req[p].given /\ Gone(req[p].given)'
  <2>1. /\ req[p].at = "consumeBackup" /\ OnCode(p) /\ owner[req[p].given] \in Users
        /\ owner' = owner
    BY <1>1, <1>4
    DEF ConsumeBackup, RequestOK, Challenged, Located, Verifying, OnCode, history
  <2>2. backup' = [backup EXCEPT ![req[p].given] = CodeRow(@.user, TRUE)]
    BY <1>1, <1>4, Returned DEF ConsumeBackup, Past, Passed
  <2>3. backup'[req[p].given].used
    BY <1>1, <2>1, <2>2 DEF TypeOK, OnCode, CodeRow
  <2>4. req'[p].given = req[p].given
    BY <1>1, <1>4, MoveFrame, Returned DEF ConsumeBackup, Past, Passed, Places, SameLocals
  <2> QED
    BY <2>1, <2>3, <2>4 DEF Gone
<1>5. ASSUME NEW q \in Requests, UsesUp(q)'
      PROVE  \/ ~Gone(req'[q].given) /\ ~Past(q)'
             \/ /\ UsesUp(q) /\ req'[q].given = req[q].given
                /\ Past(q)' => Past(q) \/ (q = p /\ ConsumeBackup(p))
  BY <1>2, <1>3, <1>5, UserArrives DEF SamePresented
<1>6. ASSUME NEW g \in granted, g.by \in BackupCodes
      PROVE  Gone(g.by)' /\ \A q \in Requests : UsesUp(q)' => req'[q].given # g.by
  BY <1>5, <1>6, GoneStays DEF CodesSpent
<1>7. ASSUME NEW q \in Requests, Past(q)'
      PROVE  /\ Gone(req[q].given)'
             /\ \A r \in Requests :
                  UsesUp(r)' /\ req'[r].given = req'[q].given => r = q
  <2>1. /\ UsesUp(q) /\ req'[q].given = req[q].given
        /\ Past(q) \/ (q = p /\ ConsumeBackup(p))
    BY <1>5, <1>7 DEF UsesUp
  <2>2. CASE Past(q)
    BY <1>5, <2>1, <2>2, GoneStays DEF CodesSpent, Past, OnCode
  <2>3. CASE q = p /\ ConsumeBackup(p)
    <3>1. /\ OnCode(p) /\ req[p].at = "consumeBackup"
          /\ req'[p].given = req[p].given /\ Gone(req[p].given)'
      BY <1>4, <1>7, <2>3
    <3>2. ASSUME NEW r \in Requests, UsesUp(r)', req'[r].given = req[p].given, r # p
          PROVE  FALSE
      <4>1. UsesUp(r) /\ req[r].given = req[p].given
        BY <1>2, <3>2
      <4>2. CASE Past(r)
        BY <2>1, <2>3, <3>2, <4>1, <4>2 DEF CodesSpent
      <4>3. CASE req[r].at = "consumeBackup"
        BY <3>1, <3>2, <4>1, <4>3 DEF OneHolder
      <4> QED
        BY <4>1, <4>2, <4>3 DEF UsesUp
    <3> QED
      BY <2>1, <2>3, <3>1, <3>2
  <2> QED
    BY <2>1, <2>2, <2>3
<1>8. CASE granted' = granted
  BY <1>6, <1>7, <1>8 DEF CodesSpent
<1>9. CASE Issue(p)
  <2>1. /\ req[p].at = "issue" /\ Return(p)
        /\ \A g \in granted' : g \in granted \/ g.by = req[p].given
    BY <1>9 DEF Issue
  <2>2. ASSUME NEW c \in BackupCodes, c = req[p].given
        PROVE  Gone(c)' /\ \A q \in Requests : UsesUp(q)' => req'[q].given # c
    <3>1. Past(p)
      BY <2>1, <2>2 DEF Past, OnCode, Passed
    <3>2. Gone(c)'
      BY <2>2, <3>1, GoneStays DEF CodesSpent
    <3>3. ~UsesUp(p)'
      BY <1>1, <2>1, Returned DEF UsesUp, Past, Passed
    <3> QED
      BY <1>2, <2>2, <3>1, <3>2, <3>3 DEF CodesSpent
  <2> QED
    BY <1>6, <1>7, <2>1, <2>2 DEF CodesSpent
<1> QED
  BY <1>8, <1>9, ChallengeWrites

(* No other step does. *)
LEMMA NextKeepsSpent == IInv /\ CodesSpent /\ OneHolder /\ [Next]_vars => CodesSpent'
<1>1. ASSUME CodesSpent, UNCHANGED <<backup, req, owner, granted>> PROVE CodesSpent'
  BY <1>1 DEF CodesSpent, UsesUp, Past, OnCode, Gone
<1> QED
  BY <1>1, StepKeepsSpent DEF Next, vars, stored, history, ExpireChallenge, ExpireOtp

(* two-factor.prisma:40, "null = still valid": as long as no two requests have
   found the same backup code and not yet used it, a code gives one session,
   though finding it, marking it and issuing the tokens are separate calls, and
   codes are replaced, cleared and lost in between. *)
THEOREM BackupCodeOnceApart == Spec /\ []OneHolder => BackupCodeOnce
<1>1. Init => CodesSpent
  BY DEF Init, CodesSpent, Past, Passed, NoFrame, Frame
<1>2. CodesSpent /\ [Next]_vars =>
        [\A p \in Requests :
           Issue(p) /\ req[p].given \in BackupCodes =>
             \A g \in granted : g.by # req[p].given]_vars
  <2>1. ASSUME CodesSpent, NEW p \in Requests, Issue(p), req[p].given \in BackupCodes,
               NEW g \in granted
        PROVE  g.by # req[p].given
    BY <2>1 DEF CodesSpent, UsesUp, Past, OnCode, Passed, Issue
  <2> QED
    BY <2>1
<1> QED
  BY <1>1, <1>2, Invariance, NextKeepsSpent, PTL DEF Spec, BackupCodeOnce

(* Requests that follow one another never hold the same code. *)
THEOREM BackupCodeOnceInSequence ==
  (\A p, q \in Requests : p = q) => (Spec => BackupCodeOnce)
<1> SUFFICES ASSUME \A p, q \in Requests : p = q
             PROVE  Spec => BackupCodeOnce
  OBVIOUS
<1>1. OneHolder
  BY DEF OneHolder
<1> QED
  BY <1>1, BackupCodeOnceApart, PTL

-----------------------------------------------------------------------------
(* A verification between reading its challenge and ending. *)
Holding(p) == (req[p].at = "readEnabled" /\ req[p].for = "verify") \/ Reached(req[p])

(* No two verifications hold the same challenge. *)
OneVerification ==
  \A p, q \in Requests :
    Holding(p) /\ Holding(q) /\ req[p].challenge = req[q].challenge => p = q

(* The challenge is gone from Redis. *)
Closed(c) == challenge[c] = NoChallenge

(* A challenge that gave a session is gone and held by no verification; one
   that is about to give a session is gone. *)
ChallengesSpent ==
  /\ \A g \in granted :
       /\ Closed(g.challenge)
       /\ \A p \in Requests : Holding(p) => req[p].challenge # g.challenge
  /\ \A p \in Requests : req[p].at = "issue" => Closed(req[p].challenge)

(* A request holds a challenge it has just read, or held before. *)
LEMMA HolderRead ==
  ASSUME IInv, NEW p \in Requests, Arrives(p), RequestOK(p)', Holding(p)'
  PROVE  \/ ReadChallenge(p)
         \/ Holding(p) /\ req'[p].challenge = req[p].challenge
<1>1. RequestOK(p)
  BY DEF IInv
<1>2. /\ req'[p].at \in {"readEnabled", "verifyOtp"} \cup Verifying
      /\ req'[p].for = "verify"
  BY DEF Holding, Reached, RequestOK, Located
<1>3. CASE req'[p] = req[p]
  BY <1>3 DEF Holding
<1>4. CASE SamePresented(p) /\ <<req[p].at, req'[p].at>> \in Ways
  <2>1. /\ req[p].for = "verify" /\ req'[p].challenge = req[p].challenge
        /\ req[p].at \in {"readEnabled", "verifyOtp", "consumeBackup", "touch"}
    BY <1>2, <1>4 DEF SamePresented, Ways, Verifying, Passed
  <2> QED
    BY <2>1 DEF Holding, Reached, Verifying, Passed
<1>5. CASE SamePresented(p) /\ req[p].at = "readEnabled"
  BY <1>2, <1>5 DEF SamePresented, Holding
<1>6. CASE FindBackup(p) \/ DropChallenge(p)
  <2>1. req[p].at \in Verifying /\ SamePresented(p)
    BY <1>2, <1>6, Leads DEF FindBackup, DropChallenge, Verifying, Passed
  <2> QED
    BY <2>1 DEF Holding, Reached, SamePresented
<1>7. CASE FindMethod(p)
  <2>1. req[p].for = "confirm" /\ req \in [Requests -> Frames] /\ req[p] \in Frames
    BY <1>1, <1>7 DEF FindMethod, RequestOK, Located, IInv, TypeOK
  <2>2. req'[p].for # "verify"
    BY <1>7, <2>1 DEF FindMethod, Return, NoFrame, Frame, Frames
  <2> QED
    BY <1>2, <2>2
<1>8. req'[p].at \notin {"idle"} \cup Aside /\ ~Begun(req'[p])
  BY <1>2 DEF Aside, Begun, Verifying, Passed
<1> QED
  BY <1>3, <1>4, <1>5, <1>6, <1>7, <1>8 DEF Arrives

(* A request is about to give a session when it has dropped the challenge. *)
LEMMA IssuerDropped ==
  ASSUME IInv, NEW p \in Requests, Arrives(p), req'[p].at = "issue"
  PROVE  DropChallenge(p) \/ req'[p] = req[p]
  BY Leads DEF Arrives, Aside, Begun, Ways

(* A challenge that was stored keeps what it was stored with, so it is not
   stored again. *)
LEMMA UsedIsAsked ==
  ASSUME IInv
  PROVE  /\ \A g \in granted :
              g.challenge \in Challenges /\ asked[g.challenge] # NoChallenge
         /\ \A p \in Requests :
              Holding(p) => /\ req[p].challenge \in Challenges
                            /\ asked[req[p].challenge] # NoChallenge
<1>1. \A g \in granted :
        g.challenge \in Challenges /\ asked[g.challenge].user \in Users
  BY DEF IInv, TypeOK, GrantedAsChallenged
<1>2. ASSUME NEW p \in Requests, Holding(p)
      PROVE  /\ req[p].challenge \in Challenges
             /\ asked[req[p].challenge].user \in Users
  <2>1. req[p].at = "readEnabled" \/ Reached(req[p])
    BY <1>2 DEF Holding
  <2>2. RequestOK(p)
    BY DEF IInv
  <2> QED
    BY <2>1, <2>2 DEF RequestOK, Challenged, Located, Reached, Verifying, Passed
<1> QED
  BY <1>1, <1>2 DEF NoChallenge

(* The session a challenge gives ends the only verification that holds it. *)
LEMMA StepKeepsClosed ==
  ASSUME IInv, IInv', ChallengesSpent, OneVerification, NEW p \in Requests,
         Start(p) \/ Proceed(p) \/ Abort(p)
  PROVE  ChallengesSpent'
<1>1. Others(p) /\ Arrives(p) /\ RequestOK(p)'
  BY StartArrives, ProceedArrives DEF IInv
<1>2. /\ req \in [Requests -> Frames] /\ req[p] \in Frames /\ TypeOK
      /\ challenge \in [Challenges -> ChallengeRecords \cup {NoChallenge}]
  BY DEF IInv, TypeOK
<1>3. ASSUME NEW c \in Challenges, asked[c] # NoChallenge, Closed(c)
      PROVE  Closed(c)'
  BY <1>2, <1>3, ChallengeWrites DEF Closed, StoreChallenge, DropChallenge
<1>4. \A q \in Requests : req[q].at = "issue" => Holding(q)
  BY DEF Holding, Reached, Verifying, Passed
<1>5. ASSUME NEW q \in Requests, req'[q].at = "issue"
      PROVE  Closed(req[q].challenge)' /\ req'[q].challenge = req[q].challenge
  <2>1. CASE req'[q] = req[q]
    BY <1>3, <1>4, <1>5, <2>1, UsedIsAsked DEF ChallengesSpent
  <2>2. CASE q = p /\ DropChallenge(p)
    <3>1. Holding(p) /\ req'[p].challenge = req[p].challenge
      BY <2>2, Leads DEF DropChallenge, SamePresented, Holding, Reached, Verifying, Passed
    <3>2. challenge'[req[p].challenge] = NoChallenge
      BY <1>2, <2>2, <3>1, UsedIsAsked DEF DropChallenge
    <3> QED
      BY <2>2, <3>1, <3>2 DEF Closed
  <2> QED
    BY <1>1, <1>5, <2>1, <2>2, IssuerDropped DEF Others
<1>6. ASSUME NEW g \in granted
      PROVE  /\ Closed(g.challenge)'
             /\ \A q \in Requests : Holding(q)' => req'[q].challenge # g.challenge
  <2>1. Closed(g.challenge)'
    BY <1>3, UsedIsAsked DEF ChallengesSpent
  <2>2. ASSUME NEW q \in Requests, Holding(q)'
        PROVE  req'[q].challenge # g.challenge
    <3>1. CASE q # p
      BY <1>1, <2>2, <3>1 DEF Others, Holding, ChallengesSpent
    <3>2. CASE q = p /\ ReadChallenge(p)
      <4>1. req'[p].challenge = req[p].challenge /\ ~Closed(req[p].challenge)
        BY <1>2, <2>2, <3>2
        DEF ReadChallenge, Return, NoFrame, Frame, Frames, Holding, Reached, Closed,
            Verifying, Passed
      <4> QED
        BY <3>2, <4>1 DEF ChallengesSpent
    <3>3. CASE q = p /\ Holding(p) /\ req'[p].challenge = req[p].challenge
      BY <3>3 DEF ChallengesSpent
    <3> QED
      BY <1>1, <2>2, <3>1, <3>2, <3>3, HolderRead
  <2> QED
    BY <2>1, <2>2
<1>7. CASE granted' = granted
  BY <1>5, <1>6, <1>7 DEF ChallengesSpent, Closed
<1>8. CASE Issue(p)
  <2>1. /\ req[p].at = "issue" /\ Return(p) /\ challenge' = challenge
        /\ \A g \in granted' : g \in granted \/ g.challenge = req[p].challenge
    BY <1>8 DEF Issue, stored
  <2>2. challenge'[req[p].challenge] = NoChallenge
    BY <2>1 DEF ChallengesSpent, Closed
  <2>3. ASSUME NEW q \in Requests, Holding(q)'
        PROVE  req'[q].challenge # req[p].challenge
    <3>1. q # p
      BY <1>2, <2>1, <2>3, Returned DEF Holding, Reached, Verifying, Passed
    <3>2. Holding(q) /\ req'[q] = req[q]
      BY <1>1, <2>3, <3>1 DEF Others, Holding
    <3> QED
      BY <1>4, <2>1, <3>1, <3>2 DEF OneVerification
  <2> QED
    BY <1>5, <1>6, <2>1, <2>2, <2>3 DEF ChallengesSpent, Closed
<1> QED
  BY <1>7, <1>8, ChallengeWrites

(* An expiry closes, and changes nothing else. *)
LEMMA NextKeepsClosed ==
  IInv /\ IInv' /\ ChallengesSpent /\ OneVerification /\ [Next]_vars => ChallengesSpent'
<1>1. ASSUME IInv, ChallengesSpent, UNCHANGED <<req, granted>>,
             \A c \in Challenges : challenge'[c] \in {challenge[c], NoChallenge}
      PROVE  ChallengesSpent'
  <2>1. \A p \in Requests : Holding(p)' = Holding(p)
    BY <1>1 DEF Holding
  <2>2. \A p \in Requests : req[p].at = "issue" => Holding(p)
    BY DEF Holding, Reached, Verifying, Passed
  <2> QED
    BY <1>1, <2>1, <2>2, UsedIsAsked DEF ChallengesSpent, Closed
<1>2. ASSUME IInv, NEW c \in Challenges, ExpireChallenge(c)
      PROVE  /\ UNCHANGED <<req, granted>>
             /\ \A d \in Challenges : challenge'[d] \in {challenge[d], NoChallenge}
  BY <1>2 DEF ExpireChallenge, history, IInv, TypeOK
<1>3. ASSUME NEW code, ExpireOtp(code) PROVE UNCHANGED <<req, granted, challenge>>
  BY <1>3 DEF ExpireOtp, history
<1>4. ASSUME UNCHANGED vars PROVE UNCHANGED <<req, granted, challenge>>
  BY <1>4 DEF vars, stored, history
<1> QED
  BY <1>1, <1>2, <1>3, <1>4, StepKeepsClosed DEF Next

(* As long as no two verifications are under way with the same challenge, a
   challenge gives one session: deleting it and issuing the tokens need not be
   one step, nor reading it and deleting it. *)
THEOREM ChallengeOnceApart == Spec /\ []OneVerification => ChallengeOnce
<1>1. Init => ChallengesSpent
  BY DEF Init, ChallengesSpent, NoFrame, Frame
<1>2. ChallengesSpent /\ [Next]_vars =>
        [\A p \in Requests :
           Issue(p) => \A g \in granted : g.challenge # req[p].challenge]_vars
  BY DEF ChallengesSpent, Issue, Holding, Reached, Verifying, Passed
<1> QED
  BY <1>1, <1>2, Invariance, NextKeepsClosed, PTL DEF Spec, ChallengeOnce

(* Requests that follow one another never hold the same challenge. *)
THEOREM ChallengeOnceInSequence ==
  (\A p, q \in Requests : p = q) => (Spec => ChallengeOnce)
<1> SUFFICES ASSUME \A p, q \in Requests : p = q
             PROVE  Spec => ChallengeOnce
  OBVIOUS
<1>1. OneVerification
  BY DEF OneVerification
<1> QED
  BY <1>1, ChallengeOnceApart, PTL

-----------------------------------------------------------------------------
(* No authenticator is enrolled again while a confirmation that has compared
   its code with the row waits to enable that row. *)
WaitsToEnable(q, u) ==
  /\ req[q].at = "enable" /\ HasRow(q)
  /\ req[q].user = u /\ req[q].type = "TOTP"
NoReenrolment ==
  \A p, q \in Requests, u \in Users : EnrollTotp(p, u) => ~WaitsToEnable(q, u)

(* What a confirmation of an authenticator relies on: no other call reaches its
   places, and as long as its row is there, the row has the secret that was
   compared with. *)
Compared(p) ==
  LET r == req[p] IN
  /\ r.at = "findMethod" => r.given \in Givens
  /\ r.at \in {"findExisting", "upsert", "verifyOtp"} => r.type # "TOTP"
  /\ r.at = "enable" /\ r.type = "TOTP" =>
       /\ r.given \in Secrets /\ owner[r.id] # None
       /\ HasRow(p) => RowOf(p).secret = r.given
EnablesProven == EnabledSecretProven /\ \A p \in Requests : Compared(p)

(* The confirmation compares what it is given with the row it will enable. *)
LEMMA FindMethodCompares ==
  ASSUME IInv, NEW p \in Requests, Compared(p), FindMethod(p)
  PROVE  Compared(p)'
<1> DEFINE r == req[p]
           row == RowOf(p)
           place == IF r.type = "TOTP" THEN "enable" ELSE "verifyOtp"
<1>1. /\ req \in [Requests -> Frames] /\ r \in Frames /\ RequestOK(p) /\ RowsOwned
      /\ r.at = "findMethod" /\ UNCHANGED <<method, owner>>
  BY DEF IInv, TypeOK, FindMethod, stored, history
<1>2. CASE Return(p)
  BY <1>1, <1>2 DEF Return, NoFrame, Frame, Compared
<1>3. CASE /\ row # NoRow /\ ~(r.type = "TOTP" /\ row.secret # r.given)
           /\ req' = [req EXCEPT ![p].id = row.id, ![p].at = place]
  <2>1. /\ r.user \in Users /\ r.type \in Types
        /\ row = method[<<r.user, r.type>>] /\ row \in Rows \cup {NoRow}
    BY <1>1 DEF RequestOK, Located, IInv, TypeOK, RowOf
  <2>2. row.id \in MethodIds /\ row.secret \in Secrets \cup {None}
    BY <1>3, <2>1, RowKinds
  <2>3. owner[row.id] # None
    <3>1. row.id \in MethodIds
      BY <1>3, <2>1, RowKinds
    <3>2. RowOwned(row, r.user, r.type)
      BY <1>1, <2>1, <3>1 DEF RowsOwned
    <3> QED
      BY <2>1, <3>2 DEF RowOwned
  <2>4. r.type = "TOTP" => r.given \in Secrets /\ row.secret = r.given
    BY <1>1, <1>3, <2>2 DEF Compared, Givens
  <2>5. /\ req'[p].at = place /\ req'[p].id = row.id /\ req'[p].type = r.type
        /\ req'[p].user = r.user /\ req'[p].given = r.given
    BY <1>1, <1>3 DEF Frames
  <2>6. RowOf(p)' = row
    BY <1>1, <2>1, <2>5 DEF RowOf
  <2> HIDE DEF row
  <2> QED
    BY <1>1, <2>3, <2>4, <2>5, <2>6 DEF Compared
<1> QED
  BY <1>2, <1>3 DEF FindMethod

(* A request that arrives at one of these places in another way. *)
LEMMA ArrivesCompared ==
  ASSUME IInv, NEW p \in Requests, Compared(p), Arrives(p), ~FindMethod(p),
         req'[p] # req[p]
  PROVE  /\ Compared(p)'
         /\ ~(req'[p].at = "enable" /\ req'[p].type = "TOTP")
<1>1. req'[p].at = "findMethod" => req'[p].given \in Givens
  BY Leads DEF Arrives, Aside, Begun, Ways
<1>2. req'[p].at \in {"findExisting", "upsert", "verifyOtp"} => req'[p].type # "TOTP"
  <2> SUFFICES ASSUME req'[p].at \in {"findExisting", "upsert", "verifyOtp"}
               PROVE  req'[p].type # "TOTP"
    OBVIOUS
  <2>1. CASE Begun(req'[p])
    BY <2>1 DEF Begun
  <2>2. CASE SamePresented(p) /\ <<req[p].at, req'[p].at>> \in Ways
    BY <2>2 DEF SamePresented, Ways, Compared
  <2>3. CASE SamePresented(p) /\ req[p].type # "TOTP"
    BY <2>3 DEF SamePresented
  <2> QED
    BY <2>1, <2>2, <2>3, Leads DEF Arrives, Aside
<1>3. ~(req'[p].at = "enable" /\ req'[p].type = "TOTP")
  <2> SUFFICES ASSUME req'[p].at = "enable"
               PROVE  req'[p].type # "TOTP"
    OBVIOUS
  <2>1. SamePresented(p) /\ <<req[p].at, req'[p].at>> \in Ways
    BY Leads DEF Arrives, Aside, Begun
  <2> QED
    BY <2>1 DEF SamePresented, Ways, Compared
<1> QED
  BY <1>1, <1>2, <1>3 DEF Compared

(* The row of a user's authenticator. *)
TotpRow(u) == method[<<u, "TOTP">>]

(* What a step may do to it: nothing, remove it, enable it, or enrol it again
   under its id or under a new one. *)
RowTurns(p, u) ==
  \/ TotpRow(u)' = TotpRow(u)
  \/ TotpRow(u)' = NoRow
  \/ /\ Enable(p) /\ HasRow(p) /\ req[p].user = u /\ req[p].type = "TOTP"
     /\ TotpRow(u)' = Row(TotpRow(u).id, TRUE, TotpRow(u).secret)
  \/ /\ EnrollTotp(p, u) /\ ~TotpRow(u)'.enabled
     /\ TotpRow(u)'.id = TotpRow(u).id \/ owner[TotpRow(u)'.id] = None

(* No step forgets what was generated or proven. *)
Remembers ==
  /\ \A x \in Generated : owner[x] # None => owner'[x] # None
  /\ proven \subseteq proven'

(* An enrolment of an authenticator touches its user's row only. *)
LEMMA EnrollTurns ==
  ASSUME IInv, NEW p \in Requests, NEW v \in Users, EnrollTotp(p, v)
  PROVE  Remembers /\ \A u \in Users : RowTurns(p, u)
<1>1. PICK s \in Unused(Secrets) : Upsert(v, "TOTP", s)
  BY DEF EnrollTotp
<1>2. /\ "TOTP" \in Types /\ UNCHANGED <<removed, asked, ever, proven>>
      /\ TypeOK /\ RowsOwned /\ Recorded
      /\ method \in [Users \X Types -> Rows \cup {NoRow}]
  BY DEF EnrollTotp, IInv, TypeOK
<1>3. Remembers
  BY <1>1, <1>2, UpsertRows DEF Grows, Remembers
<1>4. PICK id \in IF TotpRow(v) = NoRow THEN Unused(MethodIds) ELSE {TotpRow(v).id} :
        method' = [method EXCEPT ![<<v, "TOTP">>] = Row(id, FALSE, s)]
  BY <1>1 DEF Upsert, TotpRow
<1>5. TotpRow(v)' = Row(id, FALSE, s)
  BY <1>2, <1>4 DEF TotpRow
<1>6. id = TotpRow(v).id \/ owner[id] = None
  BY <1>4 DEF Unused
<1>7. RowTurns(p, v)
  BY <1>5, <1>6 DEF RowTurns, Row
<1>8. ASSUME NEW u \in Users, u # v PROVE RowTurns(p, u)
  BY <1>2, <1>4, <1>8 DEF TotpRow, RowTurns
<1> QED
  BY <1>3, <1>7, <1>8

(* Another enrolment writes the row of another type. *)
LEMMA UpsertTurns ==
  ASSUME IInv, "TOTP" \in Types, NEW p \in Requests, Compared(p), UpsertOtp(p)
  PROVE  Remembers /\ \A u \in Users : RowTurns(p, u)
<1>1. /\ Upsert(req[p].user, req[p].type, None) /\ req[p].type # "TOTP"
      /\ UNCHANGED <<removed, asked, ever, proven>>
      /\ TypeOK /\ RowsOwned /\ Recorded
  BY DEF UpsertOtp, Compared, IInv
<1>2. req[p].user \in Users /\ req[p].type \in Types
  BY DEF IInv, RequestOK, Located, UpsertOtp
<1>3. Remembers
  BY <1>1, <1>2, UpsertRows DEF Grows, Remembers
<1>4. ASSUME NEW u \in Users PROVE TotpRow(u)' = TotpRow(u)
  <2>1. PICK row : method' = [method EXCEPT ![<<req[p].user, req[p].type>>] = row]
    BY <1>1 DEF Upsert
  <2> QED
    BY <1>1, <2>1 DEF TotpRow, TypeOK
<1> QED
  BY <1>3, <1>4 DEF RowTurns

(* Enabling keeps id and secret, deleting keeps neither. *)
LEMMA EnableDeleteTurn ==
  ASSUME IInv, "TOTP" \in Types, NEW p \in Requests, Enable(p) \/ Delete(p)
  PROVE  Remembers /\ \A u \in Users : RowTurns(p, u)
<1> DEFINE key == <<req[p].user, req[p].type>>
<1>1. /\ key \in Users \X Types /\ method \in [Users \X Types -> Rows \cup {NoRow}]
  BY DEF IInv, RequestOK, Located, Enable, Delete, TypeOK
<1>2. Remembers
  BY DEF Enable, Delete, Remembers
<1>3. ASSUME NEW u \in Users PROVE RowTurns(p, u)
  <2>1. CASE method' = method
    BY <2>1 DEF RowTurns, TotpRow
  <2>2. CASE /\ Enable(p) /\ HasRow(p)
             /\ method' = [method EXCEPT ![key] = Row(@.id, TRUE, @.secret)]
    <3>1. CASE key = <<u, "TOTP">>
      <4>1. TotpRow(u)' = Row(TotpRow(u).id, TRUE, TotpRow(u).secret)
        BY <1>1, <2>2, <3>1 DEF TotpRow
      <4> QED
        BY <2>2, <3>1, <4>1 DEF RowTurns
    <3>2. CASE key # <<u, "TOTP">>
      <4>1. TotpRow(u)' = TotpRow(u)
        BY <1>1, <2>2, <3>2 DEF TotpRow
      <4> QED
        BY <4>1 DEF RowTurns
    <3> QED
      BY <3>1, <3>2
  <2>3. CASE method' = [method EXCEPT ![key] = NoRow]
    <3>1. TotpRow(u)' \in {TotpRow(u), NoRow}
      BY <1>1, <2>3 DEF TotpRow
    <3> QED
      BY <3>1 DEF RowTurns
  <2> QED
    BY <2>1, <2>2, <2>3 DEF Enable, Delete
<1> QED
  BY <1>2, <1>3

(* The other steps leave the methods alone. *)
LEMMA OthersTurnNothing ==
  ASSUME IInv, NEW p \in Requests, Start(p) \/ Proceed(p) \/ Abort(p),
         \A u \in Users : ~EnrollTotp(p, u),
         ~UpsertOtp(p), ~Enable(p), ~Delete(p)
  PROVE  Remembers /\ \A u \in Users : RowTurns(p, u)
<1>1. ASSUME UNCHANGED <<method, owner, proven>>
      PROVE  Remembers /\ \A u \in Users : RowTurns(p, u)
  BY <1>1 DEF Remembers, RowTurns, TotpRow
<1>2. ASSUME Start(p) \/ Abort(p) PROVE UNCHANGED <<method, owner, proven>>
  BY <1>2
  DEF Start, Abort, StartLogin, StartRegenerate, StartChallenge,
      StartEnroll, StartConfirm, StartDisable, Begin, stored, history
<1>3. ASSUME \/ ReadMethods(p) \/ ReadChallenge(p) \/ ReadEnabled(p) \/ RefuseOtp(p)
             \/ FindBackup(p) \/ Touch(p) \/ FindExisting(p) \/ FindMethod(p)
      PROVE  UNCHANGED <<method, owner, proven>>
  BY <1>3
  DEF ReadMethods, ReadChallenge, ReadEnabled, RefuseOtp, FindBackup, Touch,
      FindExisting, FindMethod, stored, history
<1>4. ASSUME \/ CountBackup(p) \/ ReadOwned(p) \/ DeleteOld(p) \/ FindById(p)
             \/ ReadRemaining(p) \/ Issue(p)
      PROVE  UNCHANGED <<method, owner, proven>>
  BY <1>4
  DEF CountBackup, ReadOwned, DeleteOld, FindById, ReadRemaining, Issue, stored, history
<1>5. ASSUME \/ SendOtp(p) \/ AcceptOtp(p) \/ ConsumeBackup(p) \/ StoreChallenge(p)
             \/ DropChallenge(p) \/ Clear(p)
      PROVE  UNCHANGED <<method, owner, proven>>
  BY <1>5
  DEF SendOtp, AcceptOtp, ConsumeBackup, StoreChallenge, DropChallenge, Clear, history
<1>6. ASSUME InsertNew(p)
      PROVE  Remembers /\ \A u \in Users : RowTurns(p, u)
  <2>1. PICK new \in SUBSET Unused(BackupCodes) :
          owner' = [x \in Generated |-> IF x \in new THEN req[p].user ELSE owner[x]]
    BY <1>6 DEF InsertNew
  <2>2. UNCHANGED <<method, proven>>
    BY <1>6 DEF InsertNew
  <2>3. \A x \in new : owner[x] = None
    BY <2>1 DEF Unused
  <2> QED
    BY <2>1, <2>2, <2>3 DEF Remembers, RowTurns, TotpRow
<1> QED
  BY <1>1, <1>2, <1>3, <1>4, <1>5, <1>6 DEF Proceed

(* What becomes of the rows and of the requests that wait to enable one. *)
LEMMA StepKeepsProven ==
  ASSUME IInv, EnablesProven, NoReenrolment, NEW p \in Requests,
         Start(p) \/ Proceed(p) \/ Abort(p)
  PROVE  EnablesProven'
<1>1. Others(p) /\ Arrives(p)
  BY StartArrives, ProceedArrives
<1>2. Compared(p) /\ EnabledSecretProven /\ RequestOK(p)
  BY DEF EnablesProven, IInv
<1>3. "TOTP" \in Types => Remembers /\ \A u \in Users : RowTurns(p, u)
  BY <1>2, EnrollTurns, UpsertTurns, EnableDeleteTurn, OthersTurnNothing
<1>4. EnabledSecretProven'
  <2> SUFFICES ASSUME NEW u \in Users, "TOTP" \in Types, TotpRow(u)'.enabled
               PROVE  TotpRow(u)'.secret \in proven'
    BY DEF EnabledSecretProven, TotpRow
  <2>1. RowTurns(p, u)
    BY <1>3
  <2>2. CASE TotpRow(u)' = TotpRow(u)
    BY <1>2, <1>3, <2>2 DEF Remembers, EnabledSecretProven, TotpRow
  <2>3. CASE /\ Enable(p) /\ HasRow(p) /\ req[p].user = u /\ req[p].type = "TOTP"
             /\ TotpRow(u)' = Row(TotpRow(u).id, TRUE, TotpRow(u).secret)
    <3>1. RowOf(p).secret = req[p].given /\ req[p].given \in Secrets
      BY <1>2, <2>3 DEF Enable, Compared
    <3>2. req[p].given \in proven'
      BY <2>3, <3>1 DEF Enable
    <3>3. TotpRow(u)'.secret = RowOf(p).secret
      BY <2>3 DEF RowOf, TotpRow, Row
    <3> QED
      BY <3>1, <3>2, <3>3
  <2>4. CASE TotpRow(u)' = NoRow \/ ~TotpRow(u)'.enabled
    BY <2>4 DEF NoRow, Row
  <2> QED
    BY <2>1, <2>2, <2>3, <2>4 DEF RowTurns
<1>5. ASSUME NEW q \in Requests, req'[q] = req[q]
      PROVE  Compared(q)'
  <2>1. Compared(q) /\ RequestOK(q)
    BY DEF EnablesProven, IInv
  <2>2. ASSUME req[q].at = "enable", req[q].type = "TOTP"
        PROVE  /\ owner'[req[q].id] # None
               /\ HasRow(q)' => RowOf(q)'.secret = req[q].given
    <3>0. PICK u \in Users : u = req[q].user
      BY <2>1, <2>2 DEF RequestOK, Located
    <3>1. /\ "TOTP" \in Types
          /\ req[q].id \in MethodIds /\ req[q].id # None
          /\ owner[req[q].id] # None
          /\ HasRow(q) => RowOf(q).secret = req[q].given
      BY <2>1, <2>2 DEF RequestOK, Located, Compared
    <3>2. /\ RowOf(q) = TotpRow(u) /\ RowOf(q)' = TotpRow(u)'
          /\ HasRow(q) <=> TotpRow(u).id = req[q].id
          /\ HasRow(q)' <=> TotpRow(u)'.id = req[q].id
      BY <1>5, <2>2, <3>0 DEF RowOf, HasRow, TotpRow
    <3>3. owner'[req[q].id] # None
      BY <1>3, <3>1 DEF Remembers, Generated
    <3>4. CASE TotpRow(u)' = TotpRow(u)
      BY <3>1, <3>2, <3>3, <3>4
    <3>5. CASE TotpRow(u)' = NoRow
      BY <3>1, <3>2, <3>3, <3>5 DEF NoRow, Row
    <3>6. CASE TotpRow(u)' = Row(TotpRow(u).id, TRUE, TotpRow(u).secret)
      BY <3>1, <3>2, <3>3, <3>6 DEF Row
    <3>7. CASE /\ EnrollTotp(p, u)
               /\ TotpRow(u)'.id = TotpRow(u).id \/ owner[TotpRow(u)'.id] = None
      <4>1. ~WaitsToEnable(q, u)
        BY <3>1, <3>7 DEF NoReenrolment
      <4>2. ~HasRow(q)
        BY <2>2, <3>0, <4>1 DEF WaitsToEnable
      <4> QED
        BY <3>1, <3>2, <3>3, <3>7, <4>2
    <3> QED
      BY <1>3, <3>1, <3>4, <3>5, <3>6, <3>7 DEF RowTurns
  <2> QED
    BY <1>5, <2>1, <2>2 DEF Compared
<1>6. Compared(p)'
  BY <1>1, <1>2, <1>5, FindMethodCompares, ArrivesCompared
<1> QED
  BY <1>1, <1>4, <1>5, <1>6 DEF EnablesProven, Others

(* Neither an expiry nor a stuttering step bears on it. *)
LEMMA NextKeepsProven ==
  IInv /\ EnablesProven /\ [Next]_vars /\ [NoReenrolment]_vars => EnablesProven'
<1>1. ASSUME EnablesProven, UNCHANGED <<method, owner, proven, req>>
      PROVE  EnablesProven'
  BY <1>1 DEF EnablesProven, EnabledSecretProven, Compared, HasRow, RowOf
<1>2. ASSUME UNCHANGED vars PROVE UNCHANGED <<method, owner, proven, req>>
  BY <1>2 DEF vars, stored, history
<1>3. ASSUME NEW c, ExpireChallenge(c) \/ ExpireOtp(c)
      PROVE  UNCHANGED <<method, owner, proven, req>>
  BY <1>3 DEF ExpireChallenge, ExpireOtp, history
<1> QED
  BY <1>1, <1>2, <1>3, StepKeepsProven DEF Next

(* As long as TotpService.enroll does not replace the secret of a row between
   the comparison and the update of a confirmation, an enabled authenticator
   has a secret whose code its user presented: rows that are deleted and
   enrolled anew in between get new ids, so the update by id misses them. *)
THEOREM EnabledProvenApart ==
  Spec /\ [][NoReenrolment]_vars => []EnabledSecretProven
<1>1. Init => EnablesProven
  BY DEF Init, EnablesProven, EnabledSecretProven, Compared, NoFrame, Frame, NoRow, Row
<1>2. EnablesProven => EnabledSecretProven
  BY DEF EnablesProven
<1> QED
  BY <1>1, <1>2, Invariance, NextKeepsProven, PTL DEF Spec

(* Requests that follow one another do not enrol in between. *)
THEOREM EnabledProvenInSequence ==
  (\A p, q \in Requests : p = q) => (Spec => []EnabledSecretProven)
<1> SUFFICES ASSUME \A p, q \in Requests : p = q
             PROVE  Spec => []EnabledSecretProven
  OBVIOUS
<1>1. NoReenrolment
  BY DEF NoReenrolment, EnrollTotp, WaitsToEnable
<1>2. [NoReenrolment]_vars
  BY <1>1
<1> QED
  BY <1>2, EnabledProvenApart, PTL
=============================================================================
