--------------------------- MODULE SessionsProofs ---------------------------
(***************************************************************************)
(* Proofs about Sessions, for every set of users and requests and every    *)
(* clock bound and lifetime.                                               *)
(***************************************************************************)
EXTENDS Sessions, TLAPS

(* What the locals of a request mean, by where it stands. *)
RequestOK(p) ==
  LET r == req[p] IN
  /\ pc[p] # "idle" => r.user \in Users
  /\ pc[p] \in {"create", "mirror"} => r.new \in Tokens
  /\ pc[p] = "mirror" => r.new \in rows \ delivered
  /\ pc[p] \in {"find", "retire", "unmirror"} => r.old \in delivered
  /\ pc[p] = "unmirror" => r.old \in revoked
  /\ pc[p] \in {"sign", "create", "mirror"} /\ r.op = "rotate"
       => r.old \in (delivered \cap revoked) \ mirror
  /\ r.before \subseteq RowsOf(r.user)
  /\ pc[p] = "wipe" => r.before \subseteq revoked

(* Two requests between insert and answer carry different tokens. *)
NewTokensDiffer ==
  \A p, q \in Requests :
    pc[p] = "mirror" /\ pc[q] = "mirror" /\ p # q => req[p].new # req[q].new

(* A token the client gave up is one the client had. *)
SpentWasHeld == rotated \cup loggedOut \subseteq delivered

IInv ==
  /\ TypeOK
  /\ \A p \in Requests : RequestOK(p)
  /\ NewTokensDiffer
  /\ SpentWasHeld
  /\ MirrorHasSession
  /\ SpentIsFinal
  /\ EndedIsFinal

(* The empty tables and idle slots satisfy the invariant. *)
LEMMA InitIInv == Init => IInv
  BY SessionsAssumption
  DEF Init, IInv, TypeOK, RequestOK, NewTokensDiffer, SpentWasHeld,
      MirrorHasSession, SpentIsFinal, EndedIsFinal, Blank, Locals, RowsOf,
      Time, Calls, Operations

(* Starting a request touches nothing but its own locals. *)
LEMMA BeginKeepsIInv ==
  ASSUME IInv, NEW p \in Requests, NEW op \in Operations, NEW u \in Users,
         NEW h \in delivered \cup {None}, NEW held \in {{}, HeldBy(u)},
         NEW call \in {"sign", "find", "retire", "list"},
         Begin(p, op, u, h, held, call),
         call \in {"find", "retire"} => h \in delivered,
         call = "sign" => op # "rotate"
  PROVE  IInv'
<1> DEFINE r == [user |-> u, new |-> None, op |-> op, old |-> h,
                 todo |-> {}, before |-> held]
<1>1. /\ r \in Locals
      /\ r.user = u /\ r.old = h /\ r.op = op /\ r.before = held
  BY DEF IInv, TypeOK, Locals, HeldBy
<1>2. /\ pc' = [pc EXCEPT ![p] = call]
      /\ req' = [req EXCEPT ![p] = r]
      /\ pc[p] = "idle"
      /\ UNCHANGED <<now, rows, revoked, mirror, delivered, rotated, loggedOut, ended>>
  BY DEF Begin, Call, stored, history
<1> HIDE DEF r
<1>3. TypeOK'
  BY <1>1, <1>2 DEF IInv, TypeOK, Calls
<1>4. ASSUME NEW q \in Requests PROVE RequestOK(q)'
  <2>1. CASE q = p
    BY <2>1, <1>1, <1>2 DEF IInv, TypeOK, RequestOK, RowsOf, HeldBy, MirrorHasSession
  <2>2. CASE q # p
    BY <2>2, <1>2 DEF IInv, TypeOK, RequestOK, RowsOf
  <2> QED BY <2>1, <2>2
<1>5. NewTokensDiffer'
  BY <1>2 DEF IInv, TypeOK, NewTokensDiffer
<1>6. (SpentWasHeld /\ MirrorHasSession /\ SpentIsFinal /\ EndedIsFinal)'
  BY <1>2 DEF IInv, SpentWasHeld, MirrorHasSession, SpentIsFinal, EndedIsFinal
<1> QED
  BY <1>3, <1>4, <1>5, <1>6 DEF IInv

(* Each storage call preserves IInv. *)
LEMMA ProceedKeepsIInv ==
  ASSUME IInv, NEW p \in Requests, Proceed(p) \/ Abort(p)
  PROVE  IInv'
<1> USE DEF IInv, RowsOf, stored, history, Call, Goto, Finish
<1>1. CASE Sign(p)
  <2>1. TypeOK'
    <3>1. [sub |-> req[p].user, iat |-> now] \in Tokens
      BY <1>1 DEF Sign, TypeOK, RequestOK, Tokens
    <3> QED BY <1>1, <3>1 DEF Sign, TypeOK, Locals, Calls
  <2>2. ASSUME NEW q \in Requests PROVE RequestOK(q)'
    <3>1. CASE q = p
      BY <1>1, <3>1 DEF Sign, TypeOK, RequestOK, MirrorHasSession, Locals, Blank, Tokens
    <3>2. CASE q # p
      BY <1>1, <3>2 DEF Sign, TypeOK, RequestOK, MirrorHasSession, NewTokensDiffer
    <3> QED BY <3>1, <3>2
  <2>3. NewTokensDiffer'
    BY <1>1 DEF Sign, TypeOK, RequestOK, NewTokensDiffer
  <2>4. (SpentWasHeld /\ MirrorHasSession /\ SpentIsFinal /\ EndedIsFinal)'
    BY <1>1 DEF Sign, TypeOK, RequestOK, SpentWasHeld, MirrorHasSession, SpentIsFinal, EndedIsFinal
  <2> QED BY <2>1, <2>2, <2>3, <2>4
<1>2. CASE Create(p)
  <2>1. TypeOK'
    BY <1>2 DEF Create, TypeOK, RequestOK, Locals, Blank, Calls, Operations, Tokens
  <2>2. ASSUME NEW q \in Requests PROVE RequestOK(q)'
    <3>1. CASE q = p
      BY <1>2, <3>1 DEF Create, TypeOK, RequestOK, MirrorHasSession, Locals, Blank, Tokens
    <3>2. CASE q # p
      BY <1>2, <3>2 DEF Create, TypeOK, RequestOK, MirrorHasSession, NewTokensDiffer
    <3> QED BY <3>1, <3>2
  <2>3. NewTokensDiffer'
    BY <1>2 DEF Create, TypeOK, RequestOK, NewTokensDiffer
  <2>4. (SpentWasHeld /\ MirrorHasSession /\ SpentIsFinal /\ EndedIsFinal)'
    BY <1>2 DEF Create, TypeOK, RequestOK, SpentWasHeld, MirrorHasSession, SpentIsFinal, EndedIsFinal
  <2> QED BY <2>1, <2>2, <2>3, <2>4
<1>3. CASE CreateRefused(p)
  <2>1. TypeOK'
    BY <1>3 DEF CreateRefused, TypeOK, RequestOK, Locals, Blank, Calls, Operations, Tokens
  <2>2. ASSUME NEW q \in Requests PROVE RequestOK(q)'
    <3>1. CASE q = p
      BY <1>3, <3>1 DEF CreateRefused, TypeOK, RequestOK, MirrorHasSession, Locals, Blank, Tokens
    <3>2. CASE q # p
      BY <1>3, <3>2 DEF CreateRefused, TypeOK, RequestOK, MirrorHasSession, NewTokensDiffer
    <3> QED BY <3>1, <3>2
  <2>3. NewTokensDiffer'
    BY <1>3 DEF CreateRefused, TypeOK, RequestOK, NewTokensDiffer
  <2>4. (SpentWasHeld /\ MirrorHasSession /\ SpentIsFinal /\ EndedIsFinal)'
    BY <1>3 DEF CreateRefused, TypeOK, RequestOK, SpentWasHeld, MirrorHasSession, SpentIsFinal, EndedIsFinal
  <2> QED BY <2>1, <2>2, <2>3, <2>4
<1>4. CASE SetMirror(p)
  <2>1. TypeOK'
    BY <1>4 DEF SetMirror, TypeOK, RequestOK, Locals, Blank, Calls, Operations, Tokens
  <2>2. ASSUME NEW q \in Requests PROVE RequestOK(q)'
    <3>1. CASE q = p
      BY <1>4, <3>1 DEF SetMirror, TypeOK, RequestOK, MirrorHasSession, Locals, Blank, Tokens
    <3>2. CASE q # p
      BY <1>4, <3>2 DEF SetMirror, TypeOK, RequestOK, MirrorHasSession, NewTokensDiffer
    <3> QED BY <3>1, <3>2
  <2>3. NewTokensDiffer'
    BY <1>4 DEF SetMirror, TypeOK, RequestOK, NewTokensDiffer
  <2>4. (SpentWasHeld /\ MirrorHasSession /\ SpentIsFinal /\ EndedIsFinal)'
    BY <1>4 DEF SetMirror, TypeOK, RequestOK, SpentWasHeld, MirrorHasSession, SpentIsFinal, EndedIsFinal
  <2> QED BY <2>1, <2>2, <2>3, <2>4
<1>5. CASE FindActive(p)
  <2>1. TypeOK'
    BY <1>5 DEF FindActive, TypeOK, RequestOK, Locals, Blank, Calls, Operations, Tokens
  <2>2. ASSUME NEW q \in Requests PROVE RequestOK(q)'
    <3>1. CASE q = p
      BY <1>5, <3>1 DEF FindActive, TypeOK, RequestOK, MirrorHasSession, Locals, Blank, Tokens
    <3>2. CASE q # p
      BY <1>5, <3>2 DEF FindActive, TypeOK, RequestOK, MirrorHasSession, NewTokensDiffer
    <3> QED BY <3>1, <3>2
  <2>3. NewTokensDiffer'
    BY <1>5 DEF FindActive, TypeOK, RequestOK, NewTokensDiffer
  <2>4. (SpentWasHeld /\ MirrorHasSession /\ SpentIsFinal /\ EndedIsFinal)'
    BY <1>5 DEF FindActive, TypeOK, RequestOK, SpentWasHeld, MirrorHasSession, SpentIsFinal, EndedIsFinal
  <2> QED BY <2>1, <2>2, <2>3, <2>4
<1>6. CASE ReuseDetected(p)
  <2>1. TypeOK'
    BY <1>6 DEF ReuseDetected, TypeOK, RequestOK, Locals, Blank, Calls, Operations, Tokens
  <2>2. ASSUME NEW q \in Requests PROVE RequestOK(q)'
    <3>1. CASE q = p
      BY <1>6, <3>1 DEF ReuseDetected, TypeOK, RequestOK, MirrorHasSession, Locals, Blank, Tokens
    <3>2. CASE q # p
      BY <1>6, <3>2 DEF ReuseDetected, TypeOK, RequestOK, MirrorHasSession, NewTokensDiffer
    <3> QED BY <3>1, <3>2
  <2>3. NewTokensDiffer'
    BY <1>6 DEF ReuseDetected, TypeOK, RequestOK, NewTokensDiffer
  <2>4. (SpentWasHeld /\ MirrorHasSession /\ SpentIsFinal /\ EndedIsFinal)'
    BY <1>6 DEF ReuseDetected, TypeOK, RequestOK, SpentWasHeld, MirrorHasSession, SpentIsFinal, EndedIsFinal
  <2> QED BY <2>1, <2>2, <2>3, <2>4
<1>7. CASE RevokeByHash(p)
  <2>1. TypeOK'
    BY <1>7 DEF RevokeByHash, TypeOK, RequestOK, Locals, Blank, Calls, Operations, Tokens
  <2>2. ASSUME NEW q \in Requests PROVE RequestOK(q)'
    <3>1. CASE q = p
      BY <1>7, <3>1 DEF RevokeByHash, TypeOK, RequestOK, MirrorHasSession, Locals, Blank, Tokens
    <3>2. CASE q # p
      BY <1>7, <3>2 DEF RevokeByHash, TypeOK, RequestOK, MirrorHasSession, NewTokensDiffer
    <3> QED BY <3>1, <3>2
  <2>3. NewTokensDiffer'
    BY <1>7 DEF RevokeByHash, TypeOK, RequestOK, NewTokensDiffer
  <2>4. (SpentWasHeld /\ MirrorHasSession /\ SpentIsFinal /\ EndedIsFinal)'
    BY <1>7 DEF RevokeByHash, TypeOK, RequestOK, SpentWasHeld, MirrorHasSession, SpentIsFinal, EndedIsFinal
  <2> QED BY <2>1, <2>2, <2>3, <2>4
<1>8. CASE DeleteMirror(p)
  <2>1. TypeOK'
    BY <1>8 DEF DeleteMirror, TypeOK, RequestOK, Locals, Blank, Calls, Operations, Tokens
  <2>2. ASSUME NEW q \in Requests PROVE RequestOK(q)'
    <3>1. CASE q = p
      BY <1>8, <3>1 DEF DeleteMirror, TypeOK, RequestOK, MirrorHasSession, Locals, Blank, Tokens
    <3>2. CASE q # p
      BY <1>8, <3>2 DEF DeleteMirror, TypeOK, RequestOK, MirrorHasSession, NewTokensDiffer
    <3> QED BY <3>1, <3>2
  <2>3. NewTokensDiffer'
    BY <1>8 DEF DeleteMirror, TypeOK, RequestOK, NewTokensDiffer
  <2>4. (SpentWasHeld /\ MirrorHasSession /\ SpentIsFinal /\ EndedIsFinal)'
    BY <1>8 DEF DeleteMirror, TypeOK, RequestOK, SpentWasHeld, MirrorHasSession, SpentIsFinal, EndedIsFinal
  <2> QED BY <2>1, <2>2, <2>3, <2>4
<1>9. CASE ListActive(p)
  <2>1. TypeOK'
    BY <1>9 DEF ListActive, TypeOK, RequestOK, Locals, Blank, Calls, Operations, Tokens
  <2>2. ASSUME NEW q \in Requests PROVE RequestOK(q)'
    <3>1. CASE q = p
      BY <1>9, <3>1 DEF ListActive, TypeOK, RequestOK, MirrorHasSession, Locals, Blank, Tokens
    <3>2. CASE q # p
      BY <1>9, <3>2 DEF ListActive, TypeOK, RequestOK, MirrorHasSession, NewTokensDiffer
    <3> QED BY <3>1, <3>2
  <2>3. NewTokensDiffer'
    BY <1>9 DEF ListActive, TypeOK, RequestOK, NewTokensDiffer
  <2>4. (SpentWasHeld /\ MirrorHasSession /\ SpentIsFinal /\ EndedIsFinal)'
    BY <1>9 DEF ListActive, TypeOK, RequestOK, SpentWasHeld, MirrorHasSession, SpentIsFinal, EndedIsFinal
  <2> QED BY <2>1, <2>2, <2>3, <2>4
<1>10. CASE RevokeAll(p)
  <2>1. TypeOK'
    BY <1>10 DEF RevokeAll, TypeOK, RequestOK, Locals, Blank, Calls, Operations, Tokens
  <2>2. ASSUME NEW q \in Requests PROVE RequestOK(q)'
    <3>1. CASE q = p
      BY <1>10, <3>1 DEF RevokeAll, TypeOK, RequestOK, MirrorHasSession, Locals, Blank, Tokens
    <3>2. CASE q # p
      BY <1>10, <3>2 DEF RevokeAll, TypeOK, RequestOK, MirrorHasSession, NewTokensDiffer
    <3> QED BY <3>1, <3>2
  <2>3. NewTokensDiffer'
    BY <1>10 DEF RevokeAll, TypeOK, RequestOK, NewTokensDiffer
  <2>4. (SpentWasHeld /\ MirrorHasSession /\ SpentIsFinal /\ EndedIsFinal)'
    BY <1>10 DEF RevokeAll, TypeOK, RequestOK, SpentWasHeld, MirrorHasSession, SpentIsFinal, EndedIsFinal
  <2> QED BY <2>1, <2>2, <2>3, <2>4
<1>11. CASE WipeDone(p)
  <2>1. TypeOK'
    BY <1>11 DEF WipeDone, TypeOK, RequestOK, Locals, Blank, Calls, Operations, Tokens
  <2>2. ASSUME NEW q \in Requests PROVE RequestOK(q)'
    <3>1. CASE q = p
      BY <1>11, <3>1 DEF WipeDone, TypeOK, RequestOK, MirrorHasSession, Locals, Blank, Tokens
    <3>2. CASE q # p
      BY <1>11, <3>2 DEF WipeDone, TypeOK, RequestOK, MirrorHasSession, NewTokensDiffer
    <3> QED BY <3>1, <3>2
  <2>3. NewTokensDiffer'
    BY <1>11 DEF WipeDone, TypeOK, RequestOK, NewTokensDiffer
  <2>4. (SpentWasHeld /\ MirrorHasSession /\ SpentIsFinal /\ EndedIsFinal)'
    BY <1>11 DEF WipeDone, TypeOK, RequestOK, SpentWasHeld, MirrorHasSession, SpentIsFinal, EndedIsFinal
  <2> QED BY <2>1, <2>2, <2>3, <2>4
<1>12. CASE Abort(p)
  <2>1. TypeOK'
    BY <1>12 DEF Abort, TypeOK, RequestOK, Locals, Blank, Calls, Operations, Tokens
  <2>2. ASSUME NEW q \in Requests PROVE RequestOK(q)'
    <3>1. CASE q = p
      BY <1>12, <3>1 DEF Abort, TypeOK, RequestOK, MirrorHasSession, Locals, Blank, Tokens
    <3>2. CASE q # p
      BY <1>12, <3>2 DEF Abort, TypeOK, RequestOK, MirrorHasSession, NewTokensDiffer
    <3> QED BY <3>1, <3>2
  <2>3. NewTokensDiffer'
    BY <1>12 DEF Abort, TypeOK, RequestOK, NewTokensDiffer
  <2>4. (SpentWasHeld /\ MirrorHasSession /\ SpentIsFinal /\ EndedIsFinal)'
    BY <1>12 DEF Abort, TypeOK, RequestOK, SpentWasHeld, MirrorHasSession, SpentIsFinal, EndedIsFinal
  <2> QED BY <2>1, <2>2, <2>3, <2>4
<1>13. CASE \E h \in Tokens : WipeOne(p, h)
  <2>0. PICK h \in Tokens : WipeOne(p, h)
    BY <1>13
  <2>1. TypeOK'
    BY <2>0 DEF WipeOne, TypeOK, Locals
  <2>2. ASSUME NEW q \in Requests PROVE RequestOK(q)'
    BY <2>0 DEF WipeOne, TypeOK, RequestOK, Locals
  <2>3. NewTokensDiffer'
    BY <2>0 DEF WipeOne, TypeOK, Locals, NewTokensDiffer
  <2>4. (SpentWasHeld /\ MirrorHasSession /\ SpentIsFinal /\ EndedIsFinal)'
    BY <2>0 DEF WipeOne, SpentWasHeld, MirrorHasSession, SpentIsFinal, EndedIsFinal
  <2> QED BY <2>1, <2>2, <2>3, <2>4
<1> QED
  BY <1>1, <1>2, <1>3, <1>4, <1>5, <1>6, <1>7, <1>8, <1>9, <1>10, <1>11, <1>12,
     <1>13 DEF Proceed

(* The clock and the TTLs of the mirrors preserve IInv. *)
LEMMA TimeKeepsIInv ==
  ASSUME IInv, Tick \/ \E h \in Tokens : ExpireMirror(h)
  PROVE  IInv'
<1> USE DEF IInv, RowsOf, history
<1>1. CASE Tick
  BY <1>1, SessionsAssumption
  DEF Tick, TypeOK, Time, RequestOK, NewTokensDiffer, SpentWasHeld,
      MirrorHasSession, SpentIsFinal, EndedIsFinal
<1>2. CASE \E h \in Tokens : ExpireMirror(h)
  BY <1>2
  DEF ExpireMirror, TypeOK, RequestOK, NewTokensDiffer, SpentWasHeld,
      MirrorHasSession, SpentIsFinal, EndedIsFinal
<1> QED BY <1>1, <1>2

(* IInv is inductive. *)
LEMMA NextKeepsIInv == IInv /\ [Next]_vars => IInv'
<1> SUFFICES ASSUME IInv, [Next]_vars PROVE IInv'
  OBVIOUS
<1>1. CASE Tick \/ \E h \in Tokens : ExpireMirror(h)
  BY <1>1, TimeKeepsIInv
<1>2. ASSUME NEW p \in Requests, Start(p) PROVE IInv'
  <2>1. ASSUME NEW u \in Users, StartIssue(p, u) PROVE IInv'
    BY <2>1, BeginKeepsIInv DEF StartIssue, Operations
  <2>2. ASSUME NEW u \in Users, StartRevokeAll(p, u) PROVE IInv'
    BY <2>2, BeginKeepsIInv DEF StartRevokeAll, Operations
  <2>3. ASSUME NEW h \in Tokens, StartRotate(p, h) PROVE IInv'
    <3>1. h.sub \in Users
      BY DEF Tokens
    <3> QED BY <2>3, <3>1, BeginKeepsIInv DEF StartRotate, Operations
  <2>4. ASSUME NEW h \in Tokens, StartLogout(p, h) PROVE IInv'
    <3>1. h.sub \in Users
      BY DEF Tokens
    <3> QED BY <2>4, <3>1, BeginKeepsIInv DEF StartLogout, Operations
  <2> QED BY <1>2, <2>1, <2>2, <2>3, <2>4 DEF Start
<1>3. ASSUME NEW p \in Requests, Proceed(p) \/ Abort(p) PROVE IInv'
  BY <1>3, ProceedKeepsIInv
<1>4. CASE UNCHANGED vars
  BY <1>4
  DEF vars, IInv, TypeOK, RequestOK, RowsOf, NewTokensDiffer, SpentWasHeld,
      MirrorHasSession, SpentIsFinal, EndedIsFinal
<1> QED BY <1>1, <1>2, <1>3, <1>4 DEF Next

(* The invariant holds of the token operations under any interleaving. *)
THEOREM Invariance == Spec => []IInv
  BY InitIInv, NextKeepsIInv, PTL DEF Spec

(* Every variable keeps a value of its kind, whatever the requests do. *)
THEOREM TypeCorrect == Spec => []TypeOK
  BY Invariance, PTL DEF IInv

(* Redis never vouches for a session PostgreSQL does not have. *)
THEOREM MirrorsAreBacked == Spec => []MirrorHasSession
  BY Invariance, PTL DEF IInv

(* A token whose logout or rotation was answered stays revoked, unmirrored. *)
THEOREM SpentStaysSpent == Spec => []SpentIsFinal
  BY Invariance, PTL DEF IInv

(* What an answered revoke-all, or reuse detection, had to end stays ended. *)
THEOREM EndedStaysEnded == Spec => []EndedIsFinal
  BY Invariance, PTL DEF IInv
-----------------------------------------------------------------------------
(* Rotations of a token that do not overlap between the lookup and the
   revocation: FindActive and RevokeByHash of one are not crossed by the
   lookup of another.  RedeemedOnce is violated where they are. *)
OneRotation ==
  \A p, q \in Requests :
    /\ pc[p] = "retire" /\ req[p].op = "rotate"
    /\ pc[q] = "retire" /\ req[q].op = "rotate"
    /\ req[p].old = req[q].old
    => p = q

(* A rotation that found its token active and was not answered yet. *)
Rotating(p) ==
  req[p].op = "rotate" /\ pc[p] \in {"retire", "unmirror", "sign", "create", "mirror"}

(* Such a rotation is the only one of its token. *)
RotationsDiffer ==
  \A p \in Requests : Rotating(p) =>
    /\ req[p].old \notin rotated
    /\ \A q \in Requests : Rotating(q) /\ req[q].old = req[p].old => p = q

(* A step that starts no rotation of a token and answers none. *)
LEMMA QuietRotations ==
  ASSUME RotationsDiffer, UNCHANGED rotated, NEW p \in Requests,
         \A q \in Requests : q # p => pc'[q] = pc[q] /\ req'[q] = req[q],
         Rotating(p)' => Rotating(p) /\ req'[p].old = req[p].old
  PROVE  RotationsDiffer'
<1>1. \A q \in Requests : Rotating(q)' => Rotating(q) /\ req'[q].old = req[q].old
  BY DEF Rotating
<1> QED
  BY <1>1 DEF RotationsDiffer

(* A request that begins has found nothing, one that ends is idle. *)
LEMMA EndsRotationsDiffer ==
  ASSUME IInv, RotationsDiffer, NEW p \in Requests,
         \/ Start(p) \/ CreateRefused(p) \/ ReuseDetected(p) \/ WipeDone(p) \/ Abort(p)
  PROVE  RotationsDiffer'
<1>1. /\ pc \in [Requests -> Calls] /\ req \in [Requests -> Locals]
  BY DEF IInv, TypeOK
<1>2. /\ UNCHANGED rotated
      /\ \A q \in Requests : q # p => pc'[q] = pc[q] /\ req'[q] = req[q]
      /\ ~Rotating(p)'
  <2>1. CASE Start(p)
    BY <1>1, <2>1 DEF Start, StartIssue, StartRevokeAll, StartRotate, StartLogout,
                      Begin, Call, history, Rotating
  <2>2. CASE CreateRefused(p) \/ ReuseDetected(p) \/ WipeDone(p) \/ Abort(p)
    BY <1>1, <2>2 DEF CreateRefused, ReuseDetected, WipeDone, Abort, Finish, Call,
                      history, Rotating
  <2> QED
    BY <2>1, <2>2
<1> QED
  BY <1>2, QuietRotations

(* A request that goes on keeps its token and its operation. *)
LEMMA GoesOnRotationsDiffer ==
  ASSUME IInv, RotationsDiffer, NEW p \in Requests,
         \/ Sign(p) \/ Create(p) \/ RevokeByHash(p) \/ DeleteMirror(p)
         \/ ListActive(p) \/ RevokeAll(p) \/ \E h \in Tokens : WipeOne(p, h)
  PROVE  RotationsDiffer'
<1>1. /\ pc \in [Requests -> Calls] /\ req \in [Requests -> Locals]
  BY DEF IInv, TypeOK
<1>2. /\ UNCHANGED rotated
      /\ \A q \in Requests : q # p => pc'[q] = pc[q] /\ req'[q] = req[q]
      /\ Rotating(p)' => Rotating(p) /\ req'[p].old = req[p].old
  <2>1. CASE Sign(p) \/ Create(p) \/ RevokeByHash(p)
    BY <1>1, <2>1 DEF Sign, Create, RevokeByHash, Goto, Call, history, Rotating, Locals
  <2>2. CASE DeleteMirror(p)
    BY <1>1, <2>2 DEF DeleteMirror, Goto, Finish, Call, Rotating
  <2>3. CASE ListActive(p) \/ RevokeAll(p) \/ \E h \in Tokens : WipeOne(p, h)
    BY <1>1, <2>3 DEF ListActive, RevokeAll, WipeOne, Goto, Call, history, Rotating
  <2> QED
    BY <2>1, <2>2, <2>3
<1> QED
  BY <1>2, QuietRotations

(* A rotation finds its token active only while no other one has revoked it;
   that no other one is about to is OneRotation. *)
LEMMA FindsRotationsDiffer ==
  ASSUME IInv, RotationsDiffer, OneRotation', NEW p \in Requests, FindActive(p)
  PROVE  RotationsDiffer'
<1> DEFINE h == req[p].old
<1>1. /\ pc \in [Requests -> Calls] /\ UNCHANGED <<rotated, req>> /\ pc[p] = "find"
      /\ \A q \in Requests : q # p => pc'[q] = pc[q]
      /\ pc'[p] = IF Active(h) THEN "retire" ELSE "reuse"
  BY DEF IInv, TypeOK, FindActive, Goto, Call, history
<1>2. CASE ~Active(h)
  BY <1>1, <1>2, QuietRotations DEF Rotating
<1>3. CASE Active(h)
  <2>1. h \notin revoked /\ h \notin rotated
    BY <1>3 DEF Active, IInv, SpentIsFinal
  <2>2. ASSUME NEW q \in Requests, q # p, Rotating(q), req[q].old = h
        PROVE  pc[q] = "retire"
    BY <2>1, <2>2 DEF IInv, RequestOK, Rotating
  <2>3. ASSUME NEW q \in Requests, q # p, Rotating(q), req[q].old = h, Rotating(p)'
        PROVE  FALSE
    BY <1>1, <1>3, <2>2, <2>3 DEF OneRotation, Rotating
  <2>4. \A q \in Requests : q # p => (Rotating(q)' <=> Rotating(q))
    BY <1>1 DEF Rotating
  <2> QED
    BY <1>1, <2>1, <2>3, <2>4 DEF RotationsDiffer
<1> QED
  BY <1>2, <1>3

(* The token of an answered rotation is of no other. *)
LEMMA AnswersRotationsDiffer ==
  ASSUME IInv, RotationsDiffer, NEW p \in Requests, SetMirror(p)
  PROVE  RotationsDiffer'
<1>1. /\ pc \in [Requests -> Calls] /\ req \in [Requests -> Locals] /\ pc[p] = "mirror"
      /\ rotated' = IF req[p].op = "rotate" THEN rotated \cup {req[p].old} ELSE rotated
      /\ \A q \in Requests : q # p => pc'[q] = pc[q] /\ req'[q] = req[q]
      /\ pc'[p] = "idle"
  BY DEF IInv, TypeOK, SetMirror, Finish, Call
<1>2. ~Rotating(p)'
  BY <1>1 DEF Rotating
<1>3. ASSUME NEW q \in Requests, Rotating(q)'
      PROVE  q # p /\ Rotating(q) /\ req'[q] = req[q] /\ req[q].old \notin rotated'
  <2>1. q # p /\ Rotating(q) /\ req'[q] = req[q]
    BY <1>1, <1>2, <1>3 DEF Rotating
  <2>2. req[p].op = "rotate" => Rotating(p)
    BY <1>1 DEF Rotating
  <2> QED
    BY <1>1, <2>1, <2>2 DEF RotationsDiffer
<1> QED
  BY <1>3 DEF RotationsDiffer

(* No step makes two rotations of one token. *)
LEMMA StepRotationsDiffer ==
  IInv /\ RotationsDiffer /\ OneRotation' /\ [Next]_vars => RotationsDiffer'
<1> SUFFICES ASSUME IInv, RotationsDiffer, OneRotation', [Next]_vars
             PROVE  RotationsDiffer'
  OBVIOUS
<1>1. CASE UNCHANGED vars \/ Tick \/ \E h \in Tokens : ExpireMirror(h)
  <2>1. UNCHANGED <<pc, req, rotated>>
    BY <1>1 DEF vars, Tick, ExpireMirror, history
  <2> QED
    BY <2>1 DEF RotationsDiffer, Rotating
<1>2. ASSUME NEW p \in Requests, Start(p) \/ Proceed(p) \/ Abort(p)
      PROVE  RotationsDiffer'
  BY <1>2, EndsRotationsDiffer, GoesOnRotationsDiffer, FindsRotationsDiffer,
     AnswersRotationsDiffer DEF Proceed
<1> QED
  BY <1>1, <1>2 DEF Next

(* While no two rotations of a token are between lookup and revocation, no
   rotation is answered with a second successor of one token: lookup and
   revocation of TokenService.rotate need not be one step for that, and
   everything else may interleave. *)
THEOREM RedeemedOnceApart == Spec /\ []OneRotation => RedeemedOnce
<1>1. Init => RotationsDiffer
  BY DEF Init, RotationsDiffer, Rotating
<1>2. RotationsDiffer /\ [Next]_vars =>
        [\A p \in Requests :
           SetMirror(p) /\ req[p].op = "rotate" => req[p].old \notin rotated]_vars
  BY DEF RotationsDiffer, Rotating, SetMirror
<1> QED
  BY <1>1, <1>2, Invariance, StepRotationsDiffer, PTL DEF Spec, RedeemedOnce

(* Requests that follow one another redeem every token once. *)
THEOREM RedeemedOnceInSequence ==
  (\A p, q \in Requests : p = q) => (Spec => RedeemedOnce)
<1> SUFFICES ASSUME \A p, q \in Requests : p = q
             PROVE  Spec => RedeemedOnce
  OBVIOUS
<1>1. OneRotation
  BY DEF OneRotation
<1> QED
  BY <1>1, RedeemedOnceApart, PTL

-----------------------------------------------------------------------------
(* Sessions implements TokenLifecycle. *)

(* A step that leaves the table and the clock alone is a stutter. *)
LEMMA UnchangedTable ==
  ASSUME UNCHANGED <<now, rows, revoked>>
  PROVE  UNCHANGED Lifecycle!lvars
BY DEF Lifecycle!lvars, Active

(* Revoking rows of one user ends sessions of that user only. *)
LEMMA RevokingEnds ==
  ASSUME NEW u \in Users, NEW gone \in SUBSET RowsOf(u),
         revoked' = revoked \cup gone, UNCHANGED <<now, rows>>
  PROVE  Lifecycle!Next
<1>1. Lifecycle!End(u)
  BY DEF Lifecycle!End, Active, RowsOf
<1> QED BY <1>1 DEF Lifecycle!Next

(* Every storage call is a step of the token lifecycle, or none. *)
LEMMA StepSimulation ==
  IInv /\ [Next]_vars => [Lifecycle!Next]_(Lifecycle!lvars)
<1> SUFFICES ASSUME IInv, [Next]_vars
             PROVE  [Lifecycle!Next]_(Lifecycle!lvars)
  OBVIOUS
<1>1. CASE Tick
  <2>1. Lifecycle!Pass
    BY <1>1, SessionsAssumption
    DEF Tick, history, Lifecycle!Pass, Active, IInv, TypeOK, Time, ExpiryOf, Tokens
  <2> QED BY <2>1 DEF Lifecycle!Next
<1>2. CASE \E h \in Tokens : ExpireMirror(h)
  BY <1>2, UnchangedTable DEF ExpireMirror
<1>3. ASSUME NEW p \in Requests, Start(p)
      PROVE  UNCHANGED Lifecycle!lvars
  <2>1. UNCHANGED <<now, rows, revoked>>
    BY <1>3 DEF Start, StartIssue, StartRevokeAll, StartRotate, StartLogout,
                Begin, stored
  <2> QED BY <2>1, UnchangedTable
<1>4. ASSUME NEW p \in Requests, Proceed(p) \/ Abort(p)
      PROVE  [Lifecycle!Next]_(Lifecycle!lvars)
  <2> USE DEF stored, history
  <2>1. CASE Create(p)
    <3>1. Lifecycle!Grant(req[p].new)
      BY <2>1 DEF Create, Lifecycle!Grant, Active, IInv, TypeOK
    <3>2. req[p].new \in Tokens
      BY <2>1 DEF Create, IInv, RequestOK
    <3> QED BY <3>1, <3>2 DEF Lifecycle!Next
  <2>2. CASE ReuseDetected(p)
    <3>1. req[p].user \in Users
      BY <2>2 DEF ReuseDetected, IInv, RequestOK
    <3> QED BY <2>2, <3>1, RevokingEnds DEF ReuseDetected
  <2>3. CASE RevokeByHash(p)
    <3>1. req[p].old \in delivered
      BY <2>3 DEF RevokeByHash, IInv, RequestOK
    <3>2. req[p].old \in RowsOf(req[p].old.sub) /\ req[p].old.sub \in Users
      BY <3>1 DEF IInv, TypeOK, MirrorHasSession, RowsOf, Tokens
    <3> QED BY <2>3, <3>2, RevokingEnds DEF RevokeByHash
  <2>4. CASE RevokeAll(p)
    <3>1. req[p].user \in Users
      BY <2>4 DEF RevokeAll, IInv, RequestOK
    <3> QED BY <2>4, <3>1, RevokingEnds DEF RevokeAll
  <2>5. CASE \/ Sign(p) \/ CreateRefused(p) \/ SetMirror(p) \/ FindActive(p)
             \/ DeleteMirror(p) \/ ListActive(p) \/ WipeDone(p) \/ Abort(p)
             \/ \E h \in Tokens : WipeOne(p, h)
    <3>1. UNCHANGED <<now, rows, revoked>>
      BY <2>5 DEF Sign, CreateRefused, SetMirror, FindActive, DeleteMirror,
                  ListActive, WipeDone, Abort, WipeOne
    <3> QED BY <3>1, UnchangedTable
  <2> QED BY <1>4, <2>1, <2>2, <2>3, <2>4, <2>5 DEF Proceed
<1>5. CASE UNCHANGED vars
  BY <1>5, UnchangedTable DEF vars
<1> QED BY <1>1, <1>2, <1>3, <1>4, <1>5 DEF Next

(* The tokens behave as TokenLifecycle promises: granted at most once, never
   live again, one user's sessions ended at a time. *)
THEOREM ImplementsLifecycle == Spec => LifecycleSpec
<1>1. Init => Lifecycle!Init
  BY DEF Init, Lifecycle!Init, Active
<1> QED
  BY <1>1, Invariance, StepSimulation, PTL DEF Spec, LifecycleSpec, Lifecycle!Spec

(* A token that has its row and does not pass the lookup of a refresh - it was
   revoked, or its lifetime is over - never passes it again: no step of any
   request clears revokedAt, moves expiresAt or inserts the row anew. *)
NeverLiveAgain ==
  [][\A h \in Tokens : h \in rows /\ ~Active(h) => h \in rows' /\ ~Active(h)']_vars

(* Sessions that ended, by a revocation or by the clock, stay ended: every action
   of TokenLifecycle keeps it so, and every step is one of them. *)
THEOREM EndedForGood == Spec => NeverLiveAgain
<1>1. ASSUME IInv, [Next]_vars
      PROVE  [\A h \in Tokens : h \in rows /\ ~Active(h) => h \in rows' /\ ~Active(h)']_vars
  <2> DEFINE live == {h \in Tokens : Active(h)}
  <2>1. [Lifecycle!Next]_(Lifecycle!lvars)
    BY <1>1, StepSimulation
  <2>2. /\ rows \subseteq rows'
        /\ \A h \in rows : h \notin live => h \notin live'
    BY <2>1 DEF Lifecycle!Next, Lifecycle!lvars, Lifecycle!Grant, Lifecycle!End,
                Lifecycle!Pass
  <2>3. \A h \in Tokens : (h \in live <=> Active(h)) /\ (h \in live' <=> Active(h)')
    OBVIOUS
  <2> HIDE DEF live
  <2> QED
    BY <2>2, <2>3
<1> QED
  BY <1>1, Invariance, PTL DEF Spec, NeverLiveAgain
=============================================================================
