---------------------------- MODULE ContactProofs ----------------------------
(***************************************************************************)
(* Proofs about accounts and their addresses, for any number of accounts,  *)
(* addresses, links and concurrent requests: every variable keeps a value  *)
(* of its kind, nobody is verified by another's proof, no address is taken *)
(* over unproven, and an undisturbed change of address takes full effect.  *)
(***************************************************************************)
EXTENDS Contact, TLAPS

(* A link that can be redeemed was made for an account there is. *)
LinksOwned == \A l \in Links : links[l] # None => links[l].user \in present

(* Where a request has its account, its address and its link, and which
   handlers reach a place that several could. *)
Located(p) ==
  LET r == req[p] IN
  /\ r.at \notin {"idle", "checkFree", "create", "findUnverified",
                  "findResend", "readLink", "findAccount"} => r.user \in present
  /\ r.at \notin {"idle", "readLink", "readUser"} => r.email \in Emails
  /\ r.at = "mailLink" => r.link \in issued
  /\ r.at = "readLink" => r.link \in Links
  /\ r.at \in {"findAccount", "checkCode"} => r.by = "code"
  /\ r.at = "readLink" => r.by \in {"verify", "confirm"}
  /\ r.at = "checkOwner" => r.by \in {"change", "confirm"}
  /\ r.at \in {"update", "readCredential", "sync"} => r.by = "confirm"
  /\ r.at \in {"readUser", "readMissing", "pin"} => r.by = "set"

(* Whoever is about to be marked verified presented something, and whoever is
   about to get an address presented that address's link. *)
Proved(p) ==
  LET r == req[p] IN
  /\ r.at = "mark" => \E e \in Emails : <<r.user, e>> \in proven
  /\ \/ r.at = "checkOwner" /\ r.by = "confirm"
     \/ r.at = "update"
     => <<r.user, r.email>> \in proven

(* What a request relies on holds unless its account is disturbed. *)
Reliable(p) ==
  LET r == req[p] IN
  r.user \notin disturbed =>
    /\ Relying(p) => email[r.user] = r.email
    /\ r.by = "confirm" /\ r.at \in {"readCredential", "sync", "dropLink"} =>
         verified[r.user]
    /\ r.by = "confirm" /\ r.at = "dropLink" =>
         provider[r.user] \in {None, r.email}

RequestOK(p) == Located(p) /\ Proved(p) /\ Reliable(p)

(* The inductive invariant. *)
IInv ==
  /\ TypeOK /\ LinksOwned
  /\ VerifiedByOwnProof /\ NewAddressProven /\ CredentialFollows
  /\ \A p \in Requests : RequestOK(p)

(* What the last request at work on a change leaves when it goes. *)
Settled(p) ==
  req[p].by = "confirm" /\ req[p].at \in Changing =>
    \/ req[p].user \in disturbed'
    \/ provider[req[p].user] \in {None, email[req[p].user]}
    \/ /\ req'[p].by = "confirm" /\ req'[p].at \in Changing
       /\ req'[p].user = req[p].user

USE ContactAssumption

-----------------------------------------------------------------------------
(* The owner of an address is an account that has it. *)
LEMMA OwnerHas ==
  ASSUME NEW e, Owner(e) # None
  PROVE  Owner(e) \in present /\ email[Owner(e)] = e
BY DEF Owner

(* A request that goes on keeps its handler and takes the locals it is given;
   the others keep theirs. *)
LEMMA GoFrame ==
  ASSUME TypeOK, NEW p \in Requests, NEW place \in Places,
         NEW u \in Users \cup {None}, NEW e \in Emails \cup {None},
         NEW l \in Links \cup {None}, Go(p, place, u, e, l)
  PROVE  /\ req' \in [Requests -> Frames]
         /\ \A q \in Requests : q # p => req'[q] = req[q]
         /\ req'[p].at = place /\ req'[p].by = req[p].by
         /\ req'[p].user = u /\ req'[p].email = e /\ req'[p].link = l
<1>1. req \in [Requests -> Frames] /\ req[p].by \in Handlers
  BY DEF TypeOK, Frames
<1> QED
  BY <1>1 DEF Go, Frame, Frames

(* A request that moves on keeps its locals. *)
LEMMA MoveFrame ==
  ASSUME TypeOK, NEW p \in Requests, NEW place \in Places, Move(p, place)
  PROVE  /\ req' \in [Requests -> Frames]
         /\ \A q \in Requests : q # p => req'[q] = req[q]
         /\ req'[p].at = place /\ req'[p].by = req[p].by
         /\ req'[p].user = req[p].user /\ req'[p].email = req[p].email
         /\ req'[p].link = req[p].link
<1>1. /\ req[p].user \in Users \cup {None} /\ req[p].email \in Emails \cup {None}
      /\ req[p].link \in Links \cup {None}
  BY DEF TypeOK, Frames
<1> QED
  BY <1>1, GoFrame DEF Move

(* A request that returns leaves an empty slot, which relies on nothing. *)
LEMMA ReturnFrame ==
  ASSUME TypeOK, NEW p \in Requests, Return(p)
  PROVE  /\ req' \in [Requests -> Frames]
         /\ \A q \in Requests : q # p => req'[q] = req[q]
         /\ RequestOK(p)'
<1>1. NoFrame \in Frames /\ NoFrame.at = "idle" /\ NoFrame.by = "none"
  BY DEF NoFrame, Frame, Frames, Places, Handlers
<1>2. req' \in [Requests -> Frames] /\ req'[p] = NoFrame
  BY <1>1 DEF TypeOK, Return
<1>3. RequestOK(p)'
  BY <1>1, <1>2 DEF RequestOK, Located, Proved, Reliable, Relying, Changing
<1> QED
  BY <1>2, <1>3 DEF Return, TypeOK

(* The other requests notice nothing of a step that leaves the rows alone. *)
LEMMA OthersOK ==
  ASSUME IInv, UNCHANGED rows, issued \subseteq issued',
         proven \subseteq proven', disturbed \subseteq disturbed',
         NEW p \in Requests, \A q \in Requests : q # p => req'[q] = req[q]
  PROVE  \A q \in Requests : q # p => RequestOK(q)'
<1> SUFFICES ASSUME NEW q \in Requests, q # p
             PROVE  RequestOK(q)'
  OBVIOUS
<1>1. req'[q] = req[q] /\ RequestOK(q)
  BY DEF IInv
<1>2. UNCHANGED <<present, email, verified, provider>>
  BY DEF rows
<1>3. Located(q)'
  BY <1>1, <1>2 DEF RequestOK, Located
<1>4. Proved(q)'
  BY <1>1, <1>2 DEF RequestOK, Proved
<1>5. Reliable(q)'
  BY <1>1, <1>2 DEF RequestOK, Reliable, Relying
<1> QED
  BY <1>3, <1>4, <1>5 DEF RequestOK

(* A step that leaves the rows alone keeps the invariant when the request
   that takes it is well afterwards. *)
LEMMA RowsAlone ==
  ASSUME IInv, UNCHANGED <<rows, origin>>, issued \subseteq issued',
         proven \subseteq proven', disturbed \subseteq disturbed',
         TypeOK', LinksOwned', NEW p \in Requests,
         \A q \in Requests : q # p => req'[q] = req[q],
         RequestOK(p)', Settled(p)
  PROVE  IInv'
<1>1. \A q \in Requests : RequestOK(q)'
  BY OthersOK
<1>2. UNCHANGED <<present, email, verified, provider, origin>>
  BY DEF rows
<1>3. VerifiedByOwnProof' /\ NewAddressProven'
  BY <1>2 DEF IInv, VerifiedByOwnProof, NewAddressProven
<1>4. CredentialFollows'
  <2> SUFFICES ASSUME NEW u \in Users, u \notin disturbed',
                      provider[u] \notin {None, email[u]}
               PROVE  \E q \in Requests : /\ req'[q].by = "confirm"
                                          /\ req'[q].at \in Changing
                                          /\ req'[q].user = u
    BY <1>2 DEF CredentialFollows
  <2>1. PICK q \in Requests :
          req[q].by = "confirm" /\ req[q].at \in Changing /\ req[q].user = u
    BY DEF IInv, CredentialFollows
  <2>2. CASE q = p
    BY <2>1, <2>2 DEF Settled
  <2>3. CASE q # p
    BY <2>1, <2>3
  <2> QED
    BY <2>2, <2>3
<1> QED
  BY <1>1, <1>3, <1>4 DEF IInv

(* Only the requests changed. *)
LEMMA RequestsOnly ==
  ASSUME IInv, UNCHANGED <<rows, redis, history>>,
         NEW p \in Requests, req' \in [Requests -> Frames], RequestOK(p)',
         \A q \in Requests : q # p => req'[q] = req[q], Settled(p)
  PROVE  IInv'
<1>1. UNCHANGED <<present, email, verified, provider, links, issued, mailed,
                  sent, proven, origin, disturbed>>
  BY DEF rows, redis, history
<1>2. TypeOK' /\ LinksOwned'
  BY <1>1 DEF IInv, TypeOK, LinksOwned, Distinct
<1> QED
  BY <1>1, <1>2, RowsAlone

(* A request that returns outside a change of address. *)
LEMMA ReturnPreserves ==
  ASSUME IInv, NEW p \in Requests, Return(p), UNCHANGED <<rows, redis, history>>,
         ~(req[p].by = "confirm" /\ req[p].at \in Changing)
  PROVE  IInv'
BY ReturnFrame, RequestsOnly DEF IInv, Settled

(* Nothing is stored and no request is in flight at first, and whoever is
   verified counts as having proved the address. *)
LEMMA Initially == Init => IInv
<1> SUFFICES ASSUME Init PROVE IInv
  OBVIOUS
<1>1. NoFrame \in Frames /\ NoFrame.at = "idle" /\ NoFrame.by = "none"
  BY DEF NoFrame, Frame, Frames, Places, Handlers
<1>2. Distinct(email) /\ Distinct(provider)
  BY DEF Init, Distinct, FreeFor
<1>3. TypeOK
  BY <1>1, <1>2 DEF Init, TypeOK
<1>4. LinksOwned /\ CredentialFollows /\ NewAddressProven
  BY DEF Init, LinksOwned, CredentialFollows, NewAddressProven
<1>5. VerifiedByOwnProof
  BY DEF Init, VerifiedByOwnProof
<1>6. \A p \in Requests : RequestOK(p)
  BY <1>1 DEF Init, RequestOK, Located, Proved, Reliable, Relying, Changing
<1> QED
  BY <1>3, <1>4, <1>5, <1>6 DEF IInv

-----------------------------------------------------------------------------
(* Steps that leave the rows alone. *)

(* A request starts. *)
LEMMA StartPreserves ==
  ASSUME IInv, NEW p \in Requests, Start(p)
  PROVE  IInv'
<1>1. ASSUME NEW f \in Frames, Enter(p, f),
             f.at \in {"checkFree", "findResend", "findAccount", "readLink",
                      "checkOwner", "readUser"},
             f.at = "readLink" => f.link \in Links /\ f.by \in {"verify", "confirm"},
             f.at = "findAccount" => f.by = "code",
             f.at = "readUser" => f.by = "set",
             f.at \notin {"readLink", "readUser"} => f.email \in Emails,
             f.at \in {"checkOwner", "readUser"} => f.user \in present,
             f.at = "checkOwner" => f.by = "change"
      PROVE  IInv'
  <2>1. /\ req' \in [Requests -> Frames] /\ req'[p] = f
        /\ \A q \in Requests : q # p => req'[q] = req[q]
        /\ UNCHANGED <<rows, redis, history>> /\ req[p].at = "idle"
    BY <1>1 DEF Enter, IInv, TypeOK
  <2>2. UNCHANGED present
    BY <2>1 DEF rows
  <2>3. RequestOK(p)'
    BY <1>1, <2>1, <2>2 DEF RequestOK, Located, Proved, Reliable, Relying, Changing
  <2>4. Settled(p)
    BY <2>1 DEF Settled, Changing
  <2> QED
    BY <2>1, <2>3, <2>4, RequestsOnly
<1>2. ASSUME NEW e \in Emails, StartRegister(p, e) PROVE IInv'
  BY <1>1, <1>2 DEF StartRegister, Frame, Frames, Places, Handlers
<1>3. ASSUME NEW e \in Emails, StartResend(p, e) PROVE IInv'
  BY <1>1, <1>3 DEF StartResend, Frame, Frames, Places, Handlers
<1>4. ASSUME NEW e \in Emails, StartVerifyCode(p, e) PROVE IInv'
  BY <1>1, <1>4 DEF StartVerifyCode, Frame, Frames, Places, Handlers
<1>5. ASSUME NEW e \in Emails, NEW u \in Users, StartChange(p, u, e) PROVE IInv'
  BY <1>1, <1>5 DEF StartChange, Frame, Frames, Places, Handlers
<1>6. ASSUME NEW l \in Links, StartVerify(p, l) PROVE IInv'
  BY <1>1, <1>6 DEF StartVerify, Frame, Frames, Places, Handlers
<1>7. ASSUME NEW l \in Links, StartConfirm(p, l) PROVE IInv'
  BY <1>1, <1>7 DEF StartConfirm, Frame, Frames, Places, Handlers
<1>8. ASSUME NEW u \in Users, StartSet(p, u) PROVE IInv'
  BY <1>1, <1>8 DEF StartSet, Frame, Frames, Places, Handlers
<1> QED
  BY <1>2, <1>3, <1>4, <1>5, <1>6, <1>7, <1>8 DEF Start

(* A request that only reads goes on with what it read, or returns. *)
LEMMA GoPreserves ==
  ASSUME IInv, NEW p \in Requests, UNCHANGED <<rows, redis, history>>,
         NEW place \in Places, NEW u \in Users \cup {None},
         NEW e \in Emails \cup {None}, NEW l \in Links \cup {None},
         Go(p, place, u, e, l), RequestOK(p)', Settled(p)
  PROVE  IInv'
BY GoFrame, RequestsOnly DEF IInv

(* The locals of a request are of their kinds. *)
LEMMA Locals ==
  ASSUME TypeOK, NEW p \in Requests
  PROVE  /\ req[p].user \in Users \cup {None} /\ req[p].email \in Emails \cup {None}
         /\ req[p].link \in Links \cup {None} /\ req[p].by \in Handlers
BY DEF TypeOK, Frames

(* Places whose requests rely on nothing but their locals. *)
Unreliant == Places \ (Changing \cup {"dropLink", "readMissing", "pin", "update",
                                      "checkOwner"})

(* A request that goes on to such a place. *)
LEMMA UnreliantPreserves ==
  ASSUME IInv, NEW p \in Requests, UNCHANGED <<rows, redis, history>>,
         NEW place \in Unreliant, NEW u \in Users \cup {None},
         NEW e \in Emails \cup {None}, NEW l \in Links \cup {None},
         Go(p, place, u, e, l), req[p].at \in Unreliant \cup {"checkOwner"},
         Located(p)'
  PROVE  IInv'
<1>1. req'[p].at = place /\ place \in Places
  BY GoFrame DEF IInv, Unreliant
<1>2. RequestOK(p)'
  BY <1>1 DEF RequestOK, Proved, Reliable, Relying, Unreliant, Changing
<1>3. Settled(p)
  BY DEF Settled, Unreliant, Changing
<1> QED
  BY <1>1, <1>2, <1>3, GoPreserves

(* Registration: the address is free. *)
LEMMA CheckFreePreserves ==
  ASSUME IInv, NEW p \in Requests, CheckFree(p)
  PROVE  IInv'
<1>1. CASE Return(p)
  BY <1>1, ReturnPreserves DEF CheckFree, Changing
<1>2. CASE Move(p, "create")
  <2>1. Located(p) /\ TypeOK
    BY DEF IInv, RequestOK
  <2>2. Located(p)'
    BY <1>2, <2>1, MoveFrame DEF CheckFree, Located, Places
  <2> QED
    BY <1>2, <2>1, <2>2, Locals, UnreliantPreserves
    DEF CheckFree, Move, Unreliant, Places, Changing
<1> QED
  BY <1>1, <1>2 DEF CheckFree

(* Registration: a unique constraint refuses the account. *)
LEMMA CreateRefusedPreserves ==
  ASSUME IInv, NEW p \in Requests, CreateRefused(p)
  PROVE  IInv'
BY ReturnPreserves DEF CreateRefused, Changing

(* Registration: the link could not be stored or mailed. *)
LEMMA LinkFailsPreserves ==
  ASSUME IInv, NEW p \in Requests, LinkFails(p)
  PROVE  IInv'
<1>1. Located(p) /\ TypeOK /\ UNCHANGED <<present, issued>>
  BY DEF IInv, RequestOK, LinkFails, rows, redis
<1>2. Located(p)'
  BY <1>1, MoveFrame DEF LinkFails, Located, Places
<1> QED
  BY <1>1, <1>2, Locals, UnreliantPreserves
  DEF LinkFails, Move, Unreliant, Places, Changing

(* A link is stored for the account and the address of the request. *)
LEMMA StoreLinkPreserves ==
  ASSUME IInv, NEW p \in Requests, StoreLink(p)
  PROVE  IInv'
<1> DEFINE r == req[p]
<1>1. TypeOK /\ Located(p) /\ r.at = "storeLink" /\ LinksOwned
  BY DEF IInv, RequestOK, StoreLink
<1>2. r.user \in present /\ r.email \in Emails /\ r.user \in Users
  BY <1>1 DEF Located, TypeOK
<1>3. PICK l \in Links \ issued :
        /\ links' = [links EXCEPT ![l] = [user |-> r.user, email |-> r.email]]
        /\ issued' = issued \cup {l}
        /\ Go(p, "mailLink", r.user, r.email, l)
  BY DEF StoreLink
<1>4. UNCHANGED <<present, email, verified, provider, mailed, sent, proven,
                  origin, disturbed>>
  BY DEF StoreLink, rows, history
<1>5. /\ req' \in [Requests -> Frames]
      /\ \A q \in Requests : q # p => req'[q] = req[q]
      /\ req'[p].at = "mailLink" /\ req'[p].user = r.user
      /\ req'[p].email = r.email /\ req'[p].link = l
  BY <1>1, <1>2, <1>3, GoFrame DEF Places
<1>6. TypeOK' /\ LinksOwned'
  BY <1>1, <1>2, <1>3, <1>4, <1>5 DEF TypeOK, LinksOwned, LinkRecord, Distinct
<1>7. RequestOK(p)'
  BY <1>2, <1>3, <1>4, <1>5 DEF RequestOK, Located, Proved, Reliable, Relying, Changing
<1>8. Settled(p)
  BY <1>1 DEF Settled, Changing
<1> QED
  BY <1>3, <1>4, <1>5, <1>6, <1>7, <1>8, RowsAlone DEF rows

(* The mailer takes a link that was issued. *)
LEMMA MailLinkPreserves ==
  ASSUME IInv, NEW p \in Requests, MailLink(p)
  PROVE  IInv'
<1>1. TypeOK /\ Located(p) /\ req[p].at = "mailLink" /\ LinksOwned
  BY DEF IInv, RequestOK, MailLink
<1>2. UNCHANGED <<present, email, verified, provider, links, issued, sent,
                  proven, origin, disturbed>>
  BY DEF MailLink, rows, history
<1>3. mailed' \subseteq issued'
  BY <1>1, <1>2 DEF MailLink, Located, TypeOK
<1>4. /\ req' \in [Requests -> Frames] /\ RequestOK(p)'
      /\ \A q \in Requests : q # p => req'[q] = req[q]
  <2>1. CASE Return(p)
    BY <1>1, <2>1, ReturnFrame
  <2>2. CASE Move(p, "findUnverified")
    BY <1>1, <1>2, <2>2, MoveFrame
    DEF Places, RequestOK, Located, Proved, Reliable, Relying, Changing
  <2> QED
    BY <2>1, <2>2 DEF MailLink
<1>5. TypeOK' /\ LinksOwned'
  BY <1>1, <1>2, <1>3, <1>4 DEF TypeOK, LinksOwned, Distinct
<1>6. Settled(p)
  BY <1>1 DEF Settled, Changing
<1> QED
  BY <1>2, <1>4, <1>5, <1>6, RowsAlone DEF rows

(* A code is asked for on behalf of the owner of the address. *)
LEMMA FindUnverifiedPreserves ==
  ASSUME IInv, NEW p \in Requests, FindUnverified(p)
  PROVE  IInv'
<1> DEFINE e == req[p].email
           u == Owner(e)
<1>1. CASE Return(p)
  BY <1>1, ReturnPreserves DEF FindUnverified, Changing
<1>2. CASE u # None /\ Go(p, "sendCode", u, e, None)
  <2>1. u \in present /\ e \in Emails /\ TypeOK /\ present' = present
    BY <1>2, OwnerHas DEF FindUnverified, IInv, RequestOK, Located, rows
  <2>2. u \in Users
    BY <2>1 DEF TypeOK
  <2> HIDE DEF u, e
  <2>3. Located(p)'
    BY <1>2, <2>1, <2>2, GoFrame DEF Located, Places
  <2> QED
    BY <1>2, <2>1, <2>2, <2>3, UnreliantPreserves
    DEF FindUnverified, Unreliant, Places, Changing
<1> QED
  BY <1>1, <1>2 DEF FindUnverified

(* A code may be sent for the account and the address of the request. *)
LEMMA SendCodePreserves ==
  ASSUME IInv, NEW p \in Requests, SendCode(p)
  PROVE  IInv'
<1>1. TypeOK /\ Located(p) /\ req[p].at = "sendCode" /\ LinksOwned
  BY DEF IInv, RequestOK, SendCode
<1>2. UNCHANGED <<present, email, verified, provider, links, issued, mailed,
                  proven, origin, disturbed>>
  BY DEF SendCode, rows, redis
<1>3. sent' \subseteq Users \X Emails
  BY <1>1 DEF SendCode, Located, TypeOK
<1>4. /\ req' \in [Requests -> Frames] /\ RequestOK(p)'
      /\ \A q \in Requests : q # p => req'[q] = req[q]
  BY <1>1, ReturnFrame DEF SendCode
<1>5. TypeOK' /\ LinksOwned'
  BY <1>1, <1>2, <1>3, <1>4 DEF TypeOK, LinksOwned, Distinct
<1>6. Settled(p)
  BY <1>1 DEF Settled, Changing
<1> QED
  BY <1>2, <1>4, <1>5, <1>6, RowsAlone DEF rows

(* A resend goes on for the owner of the address. *)
LEMMA FindResendPreserves ==
  ASSUME IInv, NEW p \in Requests, FindResend(p)
  PROVE  IInv'
<1> DEFINE e == req[p].email
           u == Owner(e)
<1>1. CASE Return(p)
  BY <1>1, ReturnPreserves DEF FindResend, Changing
<1>2. ASSUME NEW place \in {"storeLink", "findUnverified"},
             u # None, Go(p, place, u, e, None)
      PROVE  IInv'
  <2>1. u \in present /\ e \in Emails /\ TypeOK /\ present' = present
    BY <1>2, OwnerHas DEF FindResend, IInv, RequestOK, Located, rows
  <2>2. u \in Users
    BY <2>1 DEF TypeOK
  <2> HIDE DEF u, e
  <2>3. Located(p)'
    BY <1>2, <2>1, <2>2, GoFrame DEF Located, Places
  <2> QED
    BY <1>2, <2>1, <2>2, <2>3, UnreliantPreserves
    DEF FindResend, Unreliant, Places, Changing
<1> QED
  BY <1>1, <1>2 DEF FindResend

(* Whoever opens a link presents it for the account and the address in its
   record. *)
LEMMA ReadLinkPreserves ==
  ASSUME IInv, NEW p \in Requests, ReadLink(p)
  PROVE  IInv'
<1> DEFINE l == req[p].link
           record == links[l]
           next == IF req[p].by = "verify" THEN "mark" ELSE "checkOwner"
<1>1. /\ TypeOK /\ Located(p) /\ req[p].at = "readLink" /\ LinksOwned
      /\ l \in Links /\ req[p].by \in {"verify", "confirm"}
  BY DEF IInv, RequestOK, ReadLink, Located
<1>2. UNCHANGED <<present, email, verified, provider, links, issued, mailed,
                  sent, origin, disturbed>>
  BY DEF ReadLink, rows, redis
<1>3. CASE Return(p) /\ UNCHANGED proven
  <2>1. UNCHANGED <<rows, redis, history>>
    BY <1>2, <1>3 DEF rows, redis, history
  <2> QED
    BY <1>1, <1>3, <2>1, ReturnPreserves DEF Changing
<1>4. CASE /\ record # None
           /\ Go(p, next, record.user, record.email, l)
           /\ proven' = proven \cup {<<record.user, record.email>>}
  <2>1. record \in LinkRecord /\ record.user \in present
    BY <1>1, <1>4 DEF TypeOK, LinksOwned
  <2>2. record.user \in Users /\ record.email \in Emails
    BY <2>1 DEF LinkRecord
  <2> HIDE DEF record
  <2>3. /\ req' \in [Requests -> Frames]
        /\ \A q \in Requests : q # p => req'[q] = req[q]
        /\ req'[p].at = next /\ req'[p].by = req[p].by
        /\ req'[p].user = record.user /\ req'[p].email = record.email
    BY <1>1, <1>4, <2>2, GoFrame DEF Places
  <2>4. TypeOK' /\ LinksOwned'
    BY <1>1, <1>2, <1>4, <2>2, <2>3 DEF TypeOK, LinksOwned, Distinct
  <2>5. RequestOK(p)'
    BY <1>1, <1>2, <1>4, <2>1, <2>2, <2>3
    DEF RequestOK, Located, Proved, Reliable, Relying, Changing
  <2>6. Settled(p)
    BY <1>1 DEF Settled, Changing
  <2> QED
    BY <1>2, <1>4, <2>3, <2>4, <2>5, <2>6, RowsAlone DEF rows
<1> QED
  BY <1>3, <1>4 DEF ReadLink

(* A link is forgotten, by its handler or by its expiry. *)
LEMMA ForgetTypes ==
  ASSUME TypeOK, LinksOwned, NEW l, links' = [links EXCEPT ![l] = None],
         UNCHANGED <<present, email, verified, provider, issued, mailed, sent,
                     proven, origin, disturbed>>,
         req' \in [Requests -> Frames]
  PROVE  TypeOK' /\ LinksOwned'
BY DEF TypeOK, LinksOwned, Distinct

(* The handler forgets its link and returns. *)
LEMMA DropLinkPreserves ==
  ASSUME IInv, NEW p \in Requests, DropLink(p)
  PROVE  IInv'
<1>1. TypeOK /\ req[p].at = "dropLink" /\ LinksOwned
  BY DEF IInv, DropLink
<1>2. UNCHANGED <<present, email, verified, provider, issued, mailed, sent,
                  proven, origin, disturbed>>
  BY DEF DropLink, rows, history
<1>3. /\ req' \in [Requests -> Frames] /\ RequestOK(p)'
      /\ \A q \in Requests : q # p => req'[q] = req[q]
  BY <1>1, ReturnFrame DEF DropLink
<1>4. TypeOK' /\ LinksOwned'
  BY <1>1, <1>2, <1>3, ForgetTypes DEF DropLink
<1>5. Settled(p)
  BY <1>1 DEF Settled, Changing
<1> QED
  BY <1>2, <1>3, <1>4, <1>5, RowsAlone DEF rows

(* A link expires. *)
LEMMA ExpirePreserves ==
  ASSUME IInv, NEW l \in Links, Expire(l)
  PROVE  IInv'
<1>1. UNCHANGED <<present, email, verified, provider, issued, mailed, sent,
                  proven, origin, disturbed, req>>
  BY DEF Expire, rows, history
<1>2. TypeOK' /\ LinksOwned'
  BY <1>1, ForgetTypes DEF IInv, TypeOK, Expire
<1>3. VerifiedByOwnProof' /\ NewAddressProven' /\ CredentialFollows'
  BY <1>1 DEF IInv, VerifiedByOwnProof, NewAddressProven, CredentialFollows
<1>4. \A p \in Requests : RequestOK(p)'
  BY <1>1 DEF IInv, RequestOK, Located, Proved, Reliable, Relying
<1> QED
  BY <1>2, <1>3, <1>4 DEF IInv

(* A code is to be compared for the owner of the address. *)
LEMMA FindAccountPreserves ==
  ASSUME IInv, NEW p \in Requests, FindAccount(p)
  PROVE  IInv'
<1> DEFINE e == req[p].email
           u == Owner(e)
<1>1. CASE Return(p)
  BY <1>1, ReturnPreserves DEF FindAccount, Changing
<1>2. CASE u # None /\ Go(p, "checkCode", u, e, None)
  <2>1. /\ u \in present /\ e \in Emails /\ TypeOK /\ present' = present
        /\ req[p].by = "code"
    BY <1>2, OwnerHas DEF FindAccount, IInv, RequestOK, Located, rows
  <2>2. u \in Users
    BY <2>1 DEF TypeOK
  <2> HIDE DEF u, e
  <2>3. Located(p)'
    BY <1>2, <2>1, <2>2, GoFrame DEF Located, Places
  <2> QED
    BY <1>2, <2>1, <2>2, <2>3, UnreliantPreserves
    DEF FindAccount, Unreliant, Places, Changing
<1> QED
  BY <1>1, <1>2 DEF FindAccount

(* Whoever presents a code presents one that was sent for the account. *)
LEMMA CheckCodePreserves ==
  ASSUME IInv, NEW p \in Requests, CheckCode(p)
  PROVE  IInv'
<1> DEFINE r == req[p]
<1>1. /\ TypeOK /\ Located(p) /\ r.at = "checkCode" /\ LinksOwned
      /\ r.by = "code" /\ r.user \in present /\ r.email \in Emails
  BY DEF IInv, RequestOK, CheckCode, Located
<1>2. UNCHANGED <<present, email, verified, provider, links, issued, mailed,
                  sent, origin, disturbed>>
  BY DEF CheckCode, rows, redis
<1>3. CASE Return(p) /\ UNCHANGED proven
  <2>1. UNCHANGED <<rows, redis, history>>
    BY <1>2, <1>3 DEF rows, redis, history
  <2> QED
    BY <1>1, <1>3, <2>1, ReturnPreserves DEF Changing
<1>4. ASSUME NEW e \in Emails, <<r.user, e>> \in sent,
             proven' = proven \cup {<<r.user, e>>}, Move(p, "mark")
      PROVE  IInv'
  <2>1. /\ req' \in [Requests -> Frames]
        /\ \A q \in Requests : q # p => req'[q] = req[q]
        /\ req'[p].at = "mark" /\ req'[p].by = r.by
        /\ req'[p].user = r.user /\ req'[p].email = r.email
    BY <1>1, <1>4, MoveFrame DEF Places
  <2>2. TypeOK' /\ LinksOwned'
    BY <1>1, <1>2, <1>4, <2>1 DEF TypeOK, LinksOwned, Distinct
  <2>3. RequestOK(p)'
    BY <1>1, <1>2, <1>4, <2>1
    DEF RequestOK, Located, Proved, Reliable, Relying, Changing
  <2>4. Settled(p)
    BY <1>1 DEF Settled, Changing
  <2> QED
    BY <1>2, <1>4, <2>1, <2>2, <2>3, <2>4, RowsAlone DEF rows
<1> QED
  BY <1>3, <1>4 DEF CheckCode

(* The address is free, or the account's own. *)
LEMMA CheckOwnerPreserves ==
  ASSUME IInv, NEW p \in Requests, CheckOwner(p)
  PROVE  IInv'
<1> DEFINE next == IF req[p].by = "change" THEN "storeLink" ELSE "update"
<1>1. CASE Return(p)
  BY <1>1, ReturnPreserves DEF CheckOwner, Changing
<1>2. CASE Move(p, next)
  <2>1. /\ TypeOK /\ RequestOK(p) /\ req[p].at = "checkOwner"
        /\ UNCHANGED <<present, issued, proven>> /\ UNCHANGED <<rows, redis, history>>
    BY DEF IInv, CheckOwner, rows, redis, history
  <2>2. /\ req' \in [Requests -> Frames] /\ req'[p].at = next
        /\ \A q \in Requests : q # p => req'[q] = req[q]
        /\ req'[p].by = req[p].by /\ req'[p].user = req[p].user
        /\ req'[p].email = req[p].email
    BY <1>2, <2>1, MoveFrame DEF Places
  <2>3. RequestOK(p)'
    BY <2>1, <2>2 DEF RequestOK, Located, Proved, Reliable, Relying, Changing
  <2> QED
    BY <2>1, <2>2, <2>3, RequestsOnly DEF Settled, Changing
<1> QED
  BY <1>1, <1>2 DEF CheckOwner

(* The change looks at the credential: under the new address or absent, it is
   left as it is. *)
LEMMA ReadCredentialPreserves ==
  ASSUME IInv, NEW p \in Requests, ReadCredential(p)
  PROVE  IInv'
<1> DEFINE r == req[p]
           next == IF provider[r.user] \in {None, r.email} THEN "dropLink" ELSE "sync"
<1>1. /\ TypeOK /\ RequestOK(p) /\ r.at = "readCredential" /\ r.by = "confirm"
      /\ UNCHANGED <<rows, redis, history>> /\ Move(p, next)
  BY DEF IInv, ReadCredential, RequestOK, Located
<1>2. UNCHANGED <<present, email, verified, provider, issued, proven, disturbed>>
  BY <1>1 DEF rows, redis, history
<1>3. /\ req' \in [Requests -> Frames] /\ req'[p].at = next
      /\ \A q \in Requests : q # p => req'[q] = req[q]
      /\ req'[p].by = r.by /\ req'[p].user = r.user /\ req'[p].email = r.email
  BY <1>1, MoveFrame DEF Places
<1>4. RequestOK(p)'
  BY <1>1, <1>2, <1>3 DEF RequestOK, Located, Proved, Reliable, Relying, Changing
<1>5. Settled(p)
  BY <1>1, <1>2, <1>3 DEF Settled, RequestOK, Reliable, Relying, Changing
<1> QED
  BY <1>1, <1>3, <1>4, <1>5, RequestsOnly

(* A set goes on with the address it read. *)
LEMMA ReadUserPreserves ==
  ASSUME IInv, NEW p \in Requests, ReadUser(p)
  PROVE  IInv'
<1> DEFINE u == req[p].user
<1>1. /\ TypeOK /\ req[p].at = "readUser" /\ u \in present /\ u \in Users
      /\ UNCHANGED <<rows, redis, history>>
  BY DEF IInv, ReadUser, RequestOK, Located, TypeOK
<1>2. CASE Return(p)
  BY <1>1, <1>2, ReturnPreserves DEF Changing
<1>3. CASE email[u] # None /\ Go(p, "readMissing", u, email[u], None)
  <2>1. email[u] \in Emails
    BY <1>1, <1>3 DEF TypeOK
  <2>2. /\ req' \in [Requests -> Frames] /\ req'[p].at = "readMissing"
        /\ \A q \in Requests : q # p => req'[q] = req[q]
        /\ req'[p].by = req[p].by /\ req'[p].user = u /\ req'[p].email = email[u]
    BY <1>1, <1>3, <2>1, GoFrame DEF Places
  <2>3. UNCHANGED <<present, email>> /\ req[p].by = "set"
    BY <1>1 DEF rows, IInv, RequestOK, Located
  <2>4. RequestOK(p)'
    BY <1>1, <2>1, <2>2, <2>3
    DEF RequestOK, Located, Proved, Reliable, Relying, Changing
  <2> QED
    BY <1>1, <2>2, <2>4, RequestsOnly DEF Settled, Changing
<1> QED
  BY <1>2, <1>3 DEF ReadUser

(* A set looks for the credential it is about to create. *)
LEMMA ReadMissingPreserves ==
  ASSUME IInv, NEW p \in Requests, ReadMissing(p)
  PROVE  IInv'
<1>1. CASE Return(p)
  BY <1>1, ReturnPreserves DEF ReadMissing, Changing
<1>2. CASE Move(p, "pin")
  <2>1. /\ TypeOK /\ RequestOK(p) /\ req[p].at = "readMissing"
        /\ UNCHANGED <<rows, redis, history>>
        /\ UNCHANGED <<present, email, disturbed>>
    BY DEF IInv, ReadMissing, rows, history
  <2>2. /\ req' \in [Requests -> Frames] /\ req'[p].at = "pin"
        /\ \A q \in Requests : q # p => req'[q] = req[q]
        /\ req'[p].by = req[p].by /\ req'[p].user = req[p].user
        /\ req'[p].email = req[p].email
    BY <1>2, <2>1, MoveFrame DEF Places
  <2>3. RequestOK(p)'
    BY <2>1, <2>2 DEF RequestOK, Located, Proved, Reliable, Relying, Changing
  <2> QED
    BY <2>1, <2>2, <2>3, RequestsOnly DEF Settled, Changing
<1> QED
  BY <1>1, <1>2 DEF ReadMissing

(* A request ends between two calls; a change of address that does so leaves
   its account disturbed. *)
LEMMA AbortPreserves ==
  ASSUME IInv, NEW p \in Requests, Abort(p)
  PROVE  IInv'
<1>1. TypeOK /\ LinksOwned /\ Return(p) /\ disturbed \subseteq disturbed'
  BY DEF IInv, Abort
<1>2. UNCHANGED <<present, email, verified, provider, links, issued, mailed, sent,
                  proven, origin>>
  BY DEF Abort, rows, redis
<1>3. /\ req' \in [Requests -> Frames] /\ RequestOK(p)'
      /\ \A q \in Requests : q # p => req'[q] = req[q]
  BY <1>1, ReturnFrame
<1>4. disturbed' \subseteq Users
  BY <1>1 DEF Abort, IInv, RequestOK, Located, TypeOK, Changing
<1>5. TypeOK' /\ LinksOwned'
  BY <1>1, <1>2, <1>3, <1>4 DEF TypeOK, LinksOwned, Distinct
<1>6. Settled(p)
  BY DEF Settled, Abort
<1> QED
  BY <1>1, <1>2, <1>3, <1>5, <1>6, RowsAlone DEF rows

-----------------------------------------------------------------------------
(* Steps that write a row. *)

(* Registration creates an account nobody refers to yet. *)
LEMMA CreatePreserves ==
  ASSUME IInv, NEW p \in Requests, Create(p)
  PROVE  IInv'
<1> DEFINE e == req[p].email
<1>1. TypeOK /\ LinksOwned /\ req[p].at = "create" /\ e \in Emails
  BY DEF IInv, Create, RequestOK, Located
<1>2. PICK u \in Users \ present :
        /\ FreeFor(email, e, u) /\ FreeFor(provider, e, u)
        /\ present' = present \cup {u}
        /\ email' = [email EXCEPT ![u] = e]
        /\ provider' = [provider EXCEPT ![u] = e]
        /\ origin' = [origin EXCEPT ![u] = e]
        /\ Go(p, "storeLink", u, e, None)
  BY DEF Create
<1>3. UNCHANGED <<verified, links, issued, mailed, sent, proven, disturbed>>
  BY DEF Create, redis
<1> HIDE DEF e
<1>4. /\ req' \in [Requests -> Frames] /\ req'[p].at = "storeLink"
      /\ \A q \in Requests : q # p => req'[q] = req[q]
      /\ req'[p].user = u /\ req'[p].email = e
  BY <1>1, <1>2, GoFrame DEF Places
<1>5. Distinct(email') /\ Distinct(provider')
  BY <1>1, <1>2 DEF TypeOK, Distinct, FreeFor
<1>6. TypeOK' /\ LinksOwned'
  BY <1>1, <1>2, <1>3, <1>4, <1>5 DEF TypeOK, LinksOwned, Distinct
<1>7. VerifiedByOwnProof' /\ NewAddressProven'
  BY <1>1, <1>2, <1>3 DEF IInv, TypeOK, VerifiedByOwnProof, NewAddressProven
<1>8. CredentialFollows'
  BY <1>1, <1>2, <1>3, <1>4 DEF IInv, TypeOK, CredentialFollows, Changing
<1>9. ASSUME NEW q \in Requests PROVE RequestOK(q)'
  <2>1. CASE q = p
    BY <1>1, <1>2, <1>4, <2>1
    DEF RequestOK, Located, Proved, Reliable, Relying, Changing
  <2>2. CASE q # p
    <3>1. RequestOK(q) /\ req'[q] = req[q]
      BY <1>4, <2>2 DEF IInv
    <3>2. Located(q)' /\ Proved(q)'
      BY <1>2, <1>3, <3>1 DEF RequestOK, Located, Proved
    <3>3. Reliable(q)'
      BY <1>1, <1>2, <1>3, <3>1
      DEF RequestOK, Located, Reliable, Relying, Changing, TypeOK
    <3> QED
      BY <3>2, <3>3 DEF RequestOK
  <2> QED
    BY <2>1, <2>2
<1> QED
  BY <1>6, <1>7, <1>8, <1>9 DEF IInv

(* An account is marked verified: somebody presented something for it. *)
LEMMA MarkPreserves ==
  ASSUME IInv, NEW p \in Requests, Mark(p)
  PROVE  IInv'
<1> DEFINE r == req[p]
<1>1. /\ TypeOK /\ LinksOwned /\ RequestOK(p) /\ r.at = "mark"
      /\ r.user \in Users /\ r.user \in present /\ r.email \in Emails
      /\ verified' = [verified EXCEPT ![r.user] = TRUE]
  BY DEF IInv, Mark, RequestOK, Located, TypeOK
<1>2. UNCHANGED <<present, email, provider, links, issued, mailed, sent, proven,
                  origin, disturbed>>
  BY DEF Mark, redis, history
<1>3. /\ req' \in [Requests -> Frames]
      /\ \A q \in Requests : q # p => req'[q] = req[q]
      /\ \/ /\ req'[p].at = "dropLink" /\ r.by = "verify"
            /\ req'[p].by = r.by /\ req'[p].user = r.user /\ req'[p].email = r.email
         \/ /\ req'[p].at = "readCredential" /\ r.by = "confirm"
            /\ req'[p].by = r.by /\ req'[p].user = r.user /\ req'[p].email = r.email
         \/ RequestOK(p)' /\ r.by = "code"
  BY <1>1, MoveFrame, ReturnFrame DEF Mark, Places
<1>4. TypeOK' /\ LinksOwned'
  BY <1>1, <1>2, <1>3 DEF TypeOK, LinksOwned, Distinct
<1>5. NewAddressProven'
  BY <1>2 DEF IInv, NewAddressProven
<1>6. VerifiedByOwnProof'
  BY <1>1, <1>2 DEF IInv, VerifiedByOwnProof, RequestOK, Proved, TypeOK
<1>7. CredentialFollows'
  <2> SUFFICES ASSUME NEW u \in Users, u \notin disturbed,
                      provider[u] \notin {None, email[u]}
               PROVE  \E q \in Requests : /\ req'[q].by = "confirm"
                                          /\ req'[q].at \in Changing
                                          /\ req'[q].user = u
    BY <1>2 DEF CredentialFollows
  <2>1. PICK q \in Requests :
          req[q].by = "confirm" /\ req[q].at \in Changing /\ req[q].user = u
    BY DEF IInv, CredentialFollows
  <2>2. req'[q].by = "confirm" /\ req'[q].at \in Changing /\ req'[q].user = u
    BY <1>3, <2>1 DEF Changing
  <2> QED
    BY <2>2
<1>8. ASSUME NEW q \in Requests PROVE RequestOK(q)'
  <2>1. CASE q = p
    <3>1. Located(q)'
      BY <1>1, <1>2, <1>3, <2>1 DEF RequestOK, Located
    <3>2. Proved(q)'
      BY <1>1, <1>2, <1>3, <2>1 DEF RequestOK, Located, Proved
    <3>3. Reliable(q)'
      BY <1>1, <1>2, <1>3, <2>1
      DEF RequestOK, Located, Proved, Reliable, Relying, Changing, TypeOK
    <3> QED
      BY <3>1, <3>2, <3>3 DEF RequestOK
  <2>2. CASE q # p
    <3>1. RequestOK(q) /\ req'[q] = req[q]
      BY <1>3, <2>2 DEF IInv
    <3>2. Located(q)' /\ Proved(q)'
      BY <1>2, <3>1 DEF RequestOK, Located, Proved
    <3>3. Reliable(q)'
      BY <1>1, <1>2, <3>1 DEF RequestOK, Reliable, Relying, Changing, TypeOK
    <3> QED
      BY <3>2, <3>3 DEF RequestOK
  <2> QED
    BY <2>1, <2>2
<1> QED
  BY <1>4, <1>5, <1>6, <1>7, <1>8 DEF IInv

(* The new address is written: its link was presented, and whoever relied on
   the old one finds the account disturbed. *)
LEMMA UpdatePreserves ==
  ASSUME IInv, NEW p \in Requests, Update(p)
  PROVE  IInv'
<1> DEFINE r == req[p]
<1>1. /\ TypeOK /\ LinksOwned /\ RequestOK(p) /\ r.at = "update"
      /\ r.by = "confirm" /\ r.user \in Users /\ r.user \in present
      /\ r.email \in Emails /\ FreeFor(email, r.email, r.user)
      /\ email' = [email EXCEPT ![r.user] = r.email]
      /\ verified' = [verified EXCEPT ![r.user] = FALSE]
      /\ disturbed' = IF Overlapped(p) THEN disturbed \cup {r.user} ELSE disturbed
      /\ <<r.user, r.email>> \in proven
  BY DEF IInv, Update, RequestOK, Located, Proved, TypeOK
<1>2. UNCHANGED <<present, provider, links, issued, mailed, sent, proven, origin>>
  BY DEF Update, redis
<1>3. /\ req' \in [Requests -> Frames] /\ req'[p].at = "mark"
      /\ \A q \in Requests : q # p => req'[q] = req[q]
      /\ req'[p].by = r.by /\ req'[p].user = r.user /\ req'[p].email = r.email
  BY <1>1, MoveFrame DEF Update, Places
<1>4. Distinct(email')
  BY <1>1 DEF TypeOK, Distinct, FreeFor
<1>5. TypeOK' /\ LinksOwned'
  BY <1>1, <1>2, <1>3, <1>4 DEF TypeOK, LinksOwned, Distinct
<1>6. NewAddressProven'
  BY <1>1, <1>2 DEF IInv, NewAddressProven, TypeOK
<1>7. VerifiedByOwnProof'
  BY <1>1, <1>2 DEF IInv, VerifiedByOwnProof, TypeOK
<1>8. CredentialFollows'
  <2> SUFFICES ASSUME NEW u \in Users, u \notin disturbed',
                      provider[u] \notin {None, email'[u]}
               PROVE  \E q \in Requests : /\ req'[q].by = "confirm"
                                          /\ req'[q].at \in Changing
                                          /\ req'[q].user = u
    BY <1>2 DEF CredentialFollows
  <2>1. CASE u = r.user
    BY <1>1, <1>3, <2>1 DEF Changing
  <2>2. CASE u # r.user
    <3>1. u \notin disturbed /\ provider[u] \notin {None, email[u]}
      BY <1>1, <2>2 DEF TypeOK
    <3>2. PICK q \in Requests :
            req[q].by = "confirm" /\ req[q].at \in Changing /\ req[q].user = u
      BY <3>1 DEF IInv, CredentialFollows
    <3> QED
      BY <1>1, <1>3, <2>2, <3>2
  <2> QED
    BY <2>1, <2>2
<1>9. ASSUME NEW q \in Requests PROVE RequestOK(q)'
  <2>1. CASE q = p
    BY <1>1, <1>2, <1>3, <2>1
    DEF RequestOK, Located, Proved, Reliable, Relying, Changing, TypeOK
  <2>2. CASE q # p
    <3>1. RequestOK(q) /\ req'[q] = req[q]
      BY <1>3, <2>2 DEF IInv
    <3>2. Located(q)' /\ Proved(q)'
      BY <1>2, <3>1 DEF RequestOK, Located, Proved
    <3>3. ASSUME Relying(q) PROVE Reliable(q)'
      <4>1. req[q].user \in Users
        BY <1>1, <3>1, <3>3 DEF RequestOK, Located, Relying, Changing, TypeOK
      <4>2. CASE req[q].user = r.user
        BY <1>1, <2>2, <3>1, <3>3, <4>2 DEF Overlapped, Reliable
      <4>3. CASE req[q].user # r.user
        <5>1. /\ email'[req[q].user] = email[req[q].user]
              /\ verified'[req[q].user] = verified[req[q].user]
          BY <1>1, <4>1, <4>3 DEF TypeOK
        <5>2. req[q].user \notin disturbed' => req[q].user \notin disturbed
          BY <1>1
        <5> QED
          BY <1>2, <3>1, <5>1, <5>2 DEF RequestOK, Reliable, Relying
      <4> QED
        BY <4>2, <4>3
    <3>4. ASSUME ~Relying(q) PROVE Reliable(q)'
      BY <3>1, <3>4 DEF Reliable, Relying, Changing
    <3> QED
      BY <3>2, <3>3, <3>4 DEF RequestOK
  <2> QED
    BY <2>1, <2>2
<1> QED
  BY <1>5, <1>6, <1>7, <1>8, <1>9 DEF IInv

(* A credential that is written under the address its account has keeps the
   invariant, whichever request writes it. *)
LEMMA ProviderPreserves ==
  ASSUME IInv, NEW p \in Requests, Relying(p),
         req[p].user \in Users, req[p].email \in Emails,
         FreeFor(provider, req[p].email, req[p].user),
         provider' = [provider EXCEPT ![req[p].user] = req[p].email],
         UNCHANGED <<present, email, verified, redis, history>>,
         req' \in [Requests -> Frames],
         \A q \in Requests : q # p => req'[q] = req[q], RequestOK(p)'
  PROVE  IInv'
<1> DEFINE r == req[p]
<1>1. /\ TypeOK /\ LinksOwned /\ RequestOK(p)
      /\ UNCHANGED <<links, issued, mailed, sent, proven, origin, disturbed>>
  BY DEF IInv, redis, history
<1>2. r.user \notin disturbed => email[r.user] = r.email
  BY <1>1 DEF RequestOK, Reliable
<1>3. Distinct(provider')
  BY <1>1 DEF TypeOK, Distinct, FreeFor
<1>4. TypeOK' /\ LinksOwned'
  BY <1>1, <1>3 DEF TypeOK, LinksOwned, Distinct
<1>5. VerifiedByOwnProof' /\ NewAddressProven'
  BY <1>1 DEF IInv, VerifiedByOwnProof, NewAddressProven
<1>6. CredentialFollows'
  <2> SUFFICES ASSUME NEW u \in Users, u \notin disturbed,
                      provider'[u] \notin {None, email[u]}
               PROVE  \E q \in Requests : /\ req'[q].by = "confirm"
                                          /\ req'[q].at \in Changing
                                          /\ req'[q].user = u
    BY <1>1 DEF CredentialFollows
  <2>1. u # r.user /\ provider[u] \notin {None, email[u]}
    BY <1>1, <1>2 DEF TypeOK
  <2>2. PICK q \in Requests :
          req[q].by = "confirm" /\ req[q].at \in Changing /\ req[q].user = u
    BY <2>1 DEF IInv, CredentialFollows
  <2> QED
    BY <2>1, <2>2
<1>7. ASSUME NEW q \in Requests, q # p PROVE RequestOK(q)'
  <2>1. RequestOK(q) /\ req'[q] = req[q]
    BY <1>7 DEF IInv
  <2>2. Located(q)' /\ Proved(q)'
    BY <1>1, <2>1 DEF RequestOK, Located, Proved
  <2>3. Reliable(q)'
    BY <1>1, <1>2, <2>1 DEF RequestOK, Reliable, Relying, TypeOK
  <2> QED
    BY <2>2, <2>3 DEF RequestOK
<1> QED
  BY <1>4, <1>5, <1>6, <1>7 DEF IInv

(* The change takes its credential along. *)
LEMMA SyncCredentialPreserves ==
  ASSUME IInv, NEW p \in Requests, SyncCredential(p)
  PROVE  IInv'
<1> DEFINE r == req[p]
<1>1. /\ TypeOK /\ RequestOK(p) /\ r.at = "sync" /\ r.by = "confirm"
      /\ r.user \in Users /\ r.user \in present /\ r.email \in Emails
  BY DEF IInv, SyncCredential, RequestOK, Located, TypeOK
<1>2. /\ req' \in [Requests -> Frames] /\ req'[p].at = "dropLink"
      /\ \A q \in Requests : q # p => req'[q] = req[q]
      /\ req'[p].by = r.by /\ req'[p].user = r.user /\ req'[p].email = r.email
  BY <1>1, MoveFrame DEF SyncCredential, Places
<1>3. /\ provider' = [provider EXCEPT ![r.user] = r.email]
      /\ FreeFor(provider, r.email, r.user)
      /\ UNCHANGED <<present, email, verified, redis, history>>
      /\ UNCHANGED <<issued, proven, disturbed>>
  BY DEF SyncCredential, redis, history
<1>4. RequestOK(p)'
  BY <1>1, <1>2, <1>3
  DEF RequestOK, Located, Proved, Reliable, Relying, Changing, TypeOK
<1> QED
  BY <1>1, <1>2, <1>3, <1>4, ProviderPreserves DEF Relying, Changing

(* Setting a password creates a credential under the address that was read. *)
LEMMA PinPreserves ==
  ASSUME IInv, NEW p \in Requests, Pin(p)
  PROVE  IInv'
<1>1. /\ TypeOK /\ req[p].at = "pin" /\ req[p].by = "set"
      /\ req[p].user \in Users /\ req[p].email \in Emails
  BY DEF IInv, Pin, RequestOK, Located, TypeOK
<1>2. /\ req' \in [Requests -> Frames] /\ RequestOK(p)'
      /\ \A q \in Requests : q # p => req'[q] = req[q]
  BY <1>1, ReturnFrame DEF Pin
<1> QED
  BY <1>1, <1>2, ProviderPreserves DEF Pin, Relying

-----------------------------------------------------------------------------
(* A step of a request. *)
LEMMA ProceedPreserves ==
  ASSUME IInv, NEW p \in Requests, Proceed(p)
  PROVE  IInv'
BY CheckFreePreserves, CreatePreserves, CreateRefusedPreserves,
   LinkFailsPreserves, StoreLinkPreserves, MailLinkPreserves,
   FindUnverifiedPreserves, SendCodePreserves, FindResendPreserves,
   ReadLinkPreserves, MarkPreserves, DropLinkPreserves, FindAccountPreserves,
   CheckCodePreserves, CheckOwnerPreserves, UpdatePreserves,
   ReadCredentialPreserves, SyncCredentialPreserves, ReadUserPreserves,
   ReadMissingPreserves, PinPreserves
DEF Proceed

(* Every step keeps the invariant, a stuttering one included. *)
LEMMA StepPreserves == IInv /\ [Next]_vars => IInv'
<1> SUFFICES ASSUME IInv, [Next]_vars
             PROVE  IInv'
  OBVIOUS
<1>1. CASE Next
  BY <1>1, StartPreserves, ProceedPreserves, AbortPreserves, ExpirePreserves
  DEF Next
<1>2. CASE UNCHANGED vars
  <2>1. UNCHANGED <<present, email, verified, provider, links, issued, mailed,
                    req, sent, proven, origin, disturbed>>
    BY <1>2 DEF vars, rows, redis, history
  <2>2. TypeOK' /\ LinksOwned'
    BY <2>1 DEF IInv, TypeOK, LinksOwned, Distinct
  <2>3. VerifiedByOwnProof' /\ NewAddressProven' /\ CredentialFollows'
    BY <2>1 DEF IInv, VerifiedByOwnProof, NewAddressProven, CredentialFollows
  <2>4. \A p \in Requests : RequestOK(p)'
    BY <2>1 DEF IInv, RequestOK, Located, Proved, Reliable, Relying
  <2> QED
    BY <2>2, <2>3, <2>4 DEF IInv
<1> QED
  BY <1>1, <1>2

(* The invariant always holds. *)
THEOREM Invariance == Spec => []IInv
BY Initially, StepPreserves, PTL DEF Spec

(* An undisturbed change that has come to its last call took full effect. *)
LEMMA InvImpliesEffect == IInv => ChangeTakesEffect
BY DEF IInv, RequestOK, Reliable, Relying, ChangeTakesEffect

(* Every variable always holds a value of its kind, and no two accounts ever
   have one address or one providerId. *)
THEOREM TypeCorrect == Spec => []TypeOK
<1>1. IInv => TypeOK
  BY DEF IInv
<1> QED
  BY Invariance, <1>1, PTL

(* Nobody is ever marked verified by another account's link or code. *)
THEOREM VerifiedOnOwnProof == Spec => []VerifiedByOwnProof
<1>1. IInv => VerifiedByOwnProof
  BY DEF IInv
<1> QED
  BY Invariance, <1>1, PTL

(* No account ever gets an address whose link was not presented. *)
THEOREM AddressProven == Spec => []NewAddressProven
<1>1. IInv => NewAddressProven
  BY DEF IInv
<1> QED
  BY Invariance, <1>1, PTL

(* A change of address that neither failed nor met another writer always ends
   with the address, the mark and the credential it is meant to set. *)
THEOREM ChangeComplete == Spec => []ChangeTakesEffect
BY Invariance, InvImpliesEffect, PTL

(* Outside such a change a credential is always under its account's address. *)
THEOREM CredentialAlwaysFollows == Spec => []CredentialFollows
<1>1. IInv => CredentialFollows
  BY DEF IInv
<1> QED
  BY Invariance, <1>1, PTL

-----------------------------------------------------------------------------
(* When what is marked verified is what was proved. *)

(* e is the account's address, or that address is proved without it. *)
Serves(u, e) == e = email[u] \/ <<u, email[u]>> \in proven

(* Whoever opens a link at POST email/verify opens one that was made for the
   address of the account, or has proved that address.  The links of
   change-contact.service.ts:53 are of the same kind and break this. *)
OwnLinks ==
  \A p \in Requests :
    LET record == links[req[p].link] IN
    req[p].at = "readLink" /\ req[p].by = "verify" /\ record # None
      => Serves(record.user, record.email)

(* Only accounts there are have marks and codes. *)
MarksPresent ==
  /\ \A u \in Users : verified[u] => u \in present
  /\ \A u \in Users, e \in Emails : <<u, e>> \in sent => u \in present

(* What codes were sent for, and what a request sends one for or marks. *)
CodesServe == \A u \in Users, e \in Emails : <<u, e>> \in sent => Serves(u, e)
RequestServes(p) ==
  LET r == req[p] IN
  /\ r.at = "sendCode" => Serves(r.user, r.email)
  /\ r.at = "mark" => <<r.user, email[r.user]>> \in proven

VInv ==
  /\ VerifiedAddressProven /\ MarksPresent /\ CodesServe
  /\ \A p \in Requests : RequestServes(p)

(* A request that is neither to send a code nor to mark an account serves. *)
LEMMA QuietServes ==
  ASSUME VInv, UNCHANGED <<present, email, verified, sent, proven>>,
         NEW p \in Requests, \A q \in Requests : q # p => req'[q] = req[q],
         req'[p].at \notin {"sendCode", "mark"}
  PROVE  VInv'
<1>1. VerifiedAddressProven' /\ MarksPresent' /\ CodesServe'
  BY DEF VInv, VerifiedAddressProven, MarksPresent, CodesServe, Serves
<1>2. \A q \in Requests : RequestServes(q)'
  BY DEF VInv, RequestServes, Serves
<1> QED
  BY <1>1, <1>2 DEF VInv

(* A request that returns. *)
LEMMA ReturnServes ==
  ASSUME TypeOK, VInv, UNCHANGED <<present, email, verified, sent, proven>>,
         NEW p \in Requests, Return(p)
  PROVE  VInv'
<1>1. NoFrame.at = "idle"
  BY DEF NoFrame, Frame
<1>2. /\ req'[p].at \notin {"sendCode", "mark"}
      /\ \A q \in Requests : q # p => req'[q] = req[q]
  BY <1>1 DEF TypeOK, Return
<1> QED
  BY <1>2, QuietServes

(* A request that moves on to a place that says nothing of an address. *)
LEMMA GoServes ==
  ASSUME TypeOK, VInv, UNCHANGED <<present, email, verified, sent, proven>>,
         NEW p \in Requests, NEW place, place \notin {"sendCode", "mark"},
         NEW u, NEW e, NEW l, Go(p, place, u, e, l)
  PROVE  VInv'
<1>1. /\ req'[p].at \notin {"sendCode", "mark"}
      /\ \A q \in Requests : q # p => req'[q] = req[q]
  BY DEF TypeOK, Go, Frame
<1> QED
  BY <1>1, QuietServes

(* The steps of a request that leave addresses, marks, codes and proofs
   alone, but for the lookup of the account a code goes to. *)
LEMMA PlainServes ==
  ASSUME TypeOK, VInv, NEW p \in Requests,
         \/ Start(p) \/ CheckFree(p) \/ CreateRefused(p) \/ LinkFails(p)
         \/ StoreLink(p) \/ MailLink(p) \/ FindResend(p) \/ DropLink(p)
         \/ FindAccount(p) \/ CheckOwner(p) \/ ReadCredential(p)
         \/ SyncCredential(p) \/ ReadUser(p) \/ ReadMissing(p) \/ Pin(p) \/ Abort(p)
  PROVE  VInv'
<1> USE DEF rows, redis, history
<1>1. CASE Start(p)
  <2>1. ASSUME NEW place \in {"checkFree", "findResend", "findAccount", "checkOwner",
                               "readLink", "readUser"},
               NEW by, NEW u, NEW e, NEW l, Enter(p, Frame(place, by, u, e, l))
        PROVE  VInv'
    <3>1. /\ req'[p].at \notin {"sendCode", "mark"}
          /\ \A q \in Requests : q # p => req'[q] = req[q]
      BY <2>1 DEF TypeOK, Enter, Frame
    <3> QED
      BY <2>1, <3>1, QuietServes DEF Enter
  <2> QED
    BY <1>1, <2>1 DEF Start, StartRegister, StartResend, StartVerifyCode, StartChange,
                      StartVerify, StartConfirm, StartSet
<1>2. CASE CheckFree(p) \/ CreateRefused(p) \/ LinkFails(p)
  BY <1>2, GoServes, ReturnServes DEF CheckFree, CreateRefused, LinkFails, Move
<1>3. CASE StoreLink(p) \/ MailLink(p) \/ FindResend(p) \/ DropLink(p)
  BY <1>3, GoServes, ReturnServes DEF StoreLink, MailLink, FindResend, DropLink, Move
<1>4. CASE FindAccount(p) \/ CheckOwner(p) \/ ReadCredential(p)
  BY <1>4, GoServes, ReturnServes DEF FindAccount, CheckOwner, ReadCredential, Move
<1>5. CASE SyncCredential(p) \/ ReadUser(p) \/ ReadMissing(p)
  BY <1>5, GoServes, ReturnServes DEF SyncCredential, ReadUser, ReadMissing, Move
<1>6. CASE Pin(p) \/ Abort(p)
  BY <1>6, ReturnServes DEF Pin, Abort
<1> QED
  BY <1>1, <1>2, <1>3, <1>4, <1>5, <1>6

(* A code is sent for the address the account had when it was looked up. *)
LEMMA CodeServes ==
  ASSUME IInv, VInv, NEW p \in Requests, FindUnverified(p) \/ SendCode(p)
  PROVE  VInv'
<1>1. TypeOK /\ Located(p)
  BY DEF IInv, RequestOK
<1>2. CASE FindUnverified(p)
  <2> DEFINE e == req[p].email
             u == Owner(e)
  <2>1. UNCHANGED <<present, email, verified, sent, proven>>
    BY <1>2 DEF FindUnverified, rows, history
  <2>2. CASE Return(p)
    BY <1>1, <2>1, <2>2, ReturnServes
  <2>3. CASE u # None /\ Go(p, "sendCode", u, e, None)
    <3>1. u \in Users /\ email[u] = e /\ e \in Emails
      BY <1>1, <1>2, <2>3, OwnerHas DEF TypeOK, FindUnverified, Located
    <3> HIDE DEF u, e
    <3>2. /\ req'[p].at = "sendCode" /\ req'[p].user = u /\ req'[p].email = e
          /\ \A q \in Requests : q # p => req'[q] = req[q]
      BY <1>1, <2>3, <3>1, GoFrame DEF Places
    <3>3. VerifiedAddressProven' /\ MarksPresent' /\ CodesServe'
      BY <2>1 DEF VInv, VerifiedAddressProven, MarksPresent, CodesServe, Serves
    <3>4. \A q \in Requests : RequestServes(q)'
      BY <2>1, <3>1, <3>2 DEF VInv, RequestServes, Serves
    <3> QED
      BY <3>3, <3>4 DEF VInv
  <2> QED
    BY <1>2, <2>2, <2>3 DEF FindUnverified
<1>3. CASE SendCode(p)
  <2> DEFINE u == req[p].user
             e == req[p].email
  <2>1. /\ u \in present /\ u \in Users /\ e \in Emails /\ Serves(u, e)
        /\ UNCHANGED <<present, email, verified, proven>>
        /\ sent' \subseteq sent \cup {<<u, e>>} /\ Return(p)
    BY <1>1, <1>3 DEF SendCode, Located, TypeOK, VInv, RequestServes, rows
  <2>2. /\ NoFrame.at = "idle" /\ req'[p] = NoFrame
        /\ \A q \in Requests : q # p => req'[q] = req[q]
    BY <1>1, <2>1 DEF TypeOK, Return, NoFrame, Frame
  <2> HIDE DEF u, e
  <2>3. VerifiedAddressProven' /\ MarksPresent' /\ CodesServe'
    BY <2>1 DEF VInv, VerifiedAddressProven, MarksPresent, CodesServe, Serves
  <2>4. \A q \in Requests : RequestServes(q)'
    BY <2>1, <2>2 DEF VInv, RequestServes, Serves
  <2> QED
    BY <2>3, <2>4 DEF VInv
<1> QED
  BY <1>2, <1>3

(* A link or a code proves the address of the account it marks. *)
LEMMA PresentedServes ==
  ASSUME IInv, VInv, OwnLinks, NEW p \in Requests, ReadLink(p) \/ CheckCode(p)
  PROVE  VInv'
<1>1. TypeOK /\ Located(p)
  BY DEF IInv, RequestOK
<1>2. ASSUME UNCHANGED <<present, email, verified, sent>>, proven \subseteq proven',
             \A q \in Requests : q # p => req'[q] = req[q],
             RequestServes(p)'
      PROVE  VInv'
  <2>1. VerifiedAddressProven' /\ MarksPresent' /\ CodesServe'
    BY <1>2 DEF VInv, VerifiedAddressProven, MarksPresent, CodesServe, Serves
  <2>2. \A q \in Requests : RequestServes(q)'
    BY <1>2 DEF VInv, RequestServes, Serves
  <2> QED
    BY <2>1, <2>2 DEF VInv
<1>3. UNCHANGED <<present, email, verified, sent>>
  BY DEF ReadLink, CheckCode, rows
<1>4. CASE Return(p) /\ UNCHANGED proven
  BY <1>1, <1>3, <1>4, ReturnServes
<1>5. CASE ReadLink(p) /\ ~(Return(p) /\ UNCHANGED proven)
  <2> DEFINE l == req[p].link
             record == links[l]
             next == IF req[p].by = "verify" THEN "mark" ELSE "checkOwner"
  <2>1. /\ record # None /\ Go(p, next, record.user, record.email, l)
        /\ proven' = proven \cup {<<record.user, record.email>>}
        /\ l \in Links /\ req[p].at = "readLink"
    BY <1>1, <1>5 DEF ReadLink, Located
  <2>2. record \in LinkRecord
    BY <1>1, <2>1 DEF TypeOK
  <2>3. req[p].by = "verify" => Serves(record.user, record.email)
    BY <2>1 DEF OwnLinks
  <2> HIDE DEF record
  <2>4. /\ req'[p].at = next /\ req'[p].user = record.user
        /\ \A q \in Requests : q # p => req'[q] = req[q]
    BY <1>1, <2>1, <2>2, GoFrame DEF LinkRecord, Places
  <2>5. RequestServes(p)'
    BY <1>3, <2>1, <2>3, <2>4 DEF RequestServes, Serves
  <2> QED
    BY <1>2, <1>3, <2>1, <2>4, <2>5
<1>6. CASE CheckCode(p) /\ ~(Return(p) /\ UNCHANGED proven)
  <2>1. PICK e \in Emails :
          /\ <<req[p].user, e>> \in sent /\ proven' = proven \cup {<<req[p].user, e>>}
          /\ Move(p, "mark")
    BY <1>6 DEF CheckCode
  <2>2. Serves(req[p].user, e) /\ req[p].user \in Users
    BY <1>1, <2>1 DEF VInv, CodesServe, TypeOK
  <2>3. /\ req'[p].at = "mark" /\ req'[p].user = req[p].user
        /\ \A q \in Requests : q # p => req'[q] = req[q]
    BY <1>1, <2>1, MoveFrame DEF Places
  <2>4. RequestServes(p)'
    BY <1>3, <2>1, <2>2, <2>3 DEF RequestServes, Serves
  <2> QED
    BY <1>2, <1>3, <2>1, <2>3, <2>4
<1> QED
  BY <1>4, <1>5, <1>6

(* A mark is of a proved address, a new address is a proved one, and a new
   account has neither mark nor code. *)
LEMMA RowsServe ==
  ASSUME IInv, VInv, NEW p \in Requests, Mark(p) \/ Update(p) \/ Create(p)
  PROVE  VInv'
<1> DEFINE r == req[p]
<1>1. TypeOK /\ Located(p) /\ Proved(p)
  BY DEF IInv, RequestOK
<1>2. CASE Mark(p)
  <2>1. /\ UNCHANGED <<present, email, sent, proven>> /\ r.user \in Users
        /\ r.user \in present /\ <<r.user, email[r.user]>> \in proven
        /\ verified' = [verified EXCEPT ![r.user] = TRUE]
    BY <1>1, <1>2 DEF Mark, Located, TypeOK, VInv, RequestServes, history
  <2>2. VerifiedAddressProven' /\ MarksPresent' /\ CodesServe'
    BY <1>1, <2>1 DEF VInv, VerifiedAddressProven, MarksPresent, CodesServe, Serves, TypeOK
  <2>3. /\ req'[p].at \notin {"sendCode", "mark"}
        /\ \A q \in Requests : q # p => req'[q] = req[q]
    BY <1>1, <1>2 DEF Mark, Move, Go, Return, NoFrame, Frame, TypeOK
  <2>4. \A q \in Requests : RequestServes(q)'
    BY <2>1, <2>3 DEF VInv, RequestServes, Serves
  <2> QED
    BY <2>2, <2>4 DEF VInv
<1>3. CASE Update(p)
  <2>1. /\ UNCHANGED <<present, sent, proven>> /\ r.user \in Users
        /\ <<r.user, r.email>> \in proven
        /\ email' = [email EXCEPT ![r.user] = r.email]
        /\ verified' = [verified EXCEPT ![r.user] = FALSE]
    BY <1>1, <1>3 DEF Update, Located, Proved, TypeOK
  <2>2. \A u \in Users : \/ email'[u] = email[u]
                         \/ <<u, email'[u]>> \in proven'
    BY <1>1, <2>1 DEF TypeOK
  <2>3. <<r.user, email'[r.user]>> \in proven'
    BY <1>1, <2>1 DEF TypeOK
  <2>4. VerifiedAddressProven' /\ MarksPresent' /\ CodesServe'
    BY <1>1, <2>1, <2>2 DEF VInv, VerifiedAddressProven, MarksPresent, CodesServe,
                           Serves, TypeOK
  <2>5. /\ req'[p].at = "mark" /\ req'[p].user = r.user
        /\ \A q \in Requests : q # p => req'[q] = req[q]
    BY <1>1, <1>3, MoveFrame DEF Update, Places
  <2>6. ASSUME NEW q \in Requests PROVE RequestServes(q)'
    <3>1. CASE q = p
      BY <2>3, <2>5, <3>1 DEF RequestServes
    <3>2. CASE q # p
      <4>1. req[q].at \in {"sendCode", "mark"} => req[q].user \in Users
        BY <1>1 DEF IInv, RequestOK, Located, TypeOK
      <4> QED
        BY <2>1, <2>2, <2>5, <3>2, <4>1 DEF VInv, RequestServes, Serves
    <3> QED
      BY <3>1, <3>2
  <2> QED
    BY <2>4, <2>6 DEF VInv
<1>4. CASE Create(p)
  <2>1. PICK u \in Users \ present :
          /\ present' = present \cup {u} /\ email' = [email EXCEPT ![u] = r.email]
          /\ Go(p, "storeLink", u, r.email, None)
    BY <1>4 DEF Create
  <2>2. UNCHANGED <<verified, sent, proven>>
    BY <1>4 DEF Create
  <2>3. \A v \in Users : v # u => email'[v] = email[v]
    BY <1>1, <2>1 DEF TypeOK
  <2>4. VerifiedAddressProven' /\ MarksPresent' /\ CodesServe'
    BY <2>1, <2>2, <2>3 DEF VInv, VerifiedAddressProven, MarksPresent, CodesServe, Serves
  <2>5. /\ req'[p].at \notin {"sendCode", "mark"}
        /\ \A q \in Requests : q # p => req'[q] = req[q]
    BY <1>1, <2>1 DEF Go, Frame, TypeOK
  <2>6. ASSUME NEW q \in Requests PROVE RequestServes(q)'
    <3>1. req[q].at \in {"sendCode", "mark"} => req[q].user \in present
      BY DEF IInv, RequestOK, Located
    <3>2. req[q].at \in {"sendCode", "mark"} => req[q].user # u /\ req[q].user \in Users
      BY <1>1, <2>1, <3>1 DEF TypeOK
    <3> QED
      BY <2>2, <2>3, <2>5, <3>2 DEF VInv, RequestServes, Serves
  <2> QED
    BY <2>4, <2>6 DEF VInv
<1> QED
  BY <1>2, <1>3, <1>4

(* Every step keeps what is marked proved. *)
LEMMA StepServes == IInv /\ VInv /\ OwnLinks /\ [Next]_vars => VInv'
<1> SUFFICES ASSUME IInv, VInv, OwnLinks, [Next]_vars PROVE VInv'
  OBVIOUS
<1>1. CASE UNCHANGED vars \/ \E l \in Links : Expire(l)
  <2>1. UNCHANGED <<present, email, verified, sent, proven, req>>
    BY <1>1 DEF vars, Expire, rows, redis, history
  <2> QED
    BY <2>1 DEF VInv, VerifiedAddressProven, MarksPresent, CodesServe, RequestServes, Serves
<1>2. ASSUME NEW p \in Requests, Start(p) \/ Proceed(p) \/ Abort(p)
      PROVE  VInv'
  <2>1. CASE FindUnverified(p) \/ SendCode(p)
    BY <2>1, CodeServes
  <2>2. CASE ReadLink(p) \/ CheckCode(p)
    BY <2>2, PresentedServes
  <2>3. CASE Mark(p) \/ Update(p) \/ Create(p)
    BY <2>3, RowsServe
  <2> QED
    BY <1>2, <2>1, <2>2, <2>3, PlainServes DEF Proceed, IInv
<1> QED
  BY <1>1, <1>2 DEF Next

(* While links are opened at POST email/verify for the address of their
   account only, every address marked verified is one whose link or code was
   presented: the links of a change, opened there, are the one way to a mark
   nobody proved.  Codes, resends and overlapping changes are none. *)
THEOREM VerifiedAddressProvenByOwnLinks ==
  Spec /\ []OwnLinks => []VerifiedAddressProven
<1>1. Init => VInv
  <2> SUFFICES ASSUME Init PROVE VInv
    OBVIOUS
  <2>1. \A u \in Users : verified[u] => email[u] \in Emails /\ u \in present
    BY DEF Init
  <2>2. NoFrame.at = "idle"
    BY DEF NoFrame, Frame
  <2> QED
    BY <2>1, <2>2 DEF Init, VInv, VerifiedAddressProven, MarksPresent, CodesServe,
                     RequestServes
<1>2. VInv => VerifiedAddressProven
  BY DEF VInv
<1> QED
  BY <1>1, <1>2, Invariance, StepServes, PTL DEF Spec
=============================================================================
