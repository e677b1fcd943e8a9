----------------------------- MODULE OtpProofs -----------------------------
(***************************************************************************)
(* Proofs about one-time codes, for all values of the constants: every     *)
(* variable keeps a value of its kind, an accepted code counts only for    *)
(* what it was sent for, and it is accepted once when no two verifications *)
(* of one key run at the same time.                                        *)
(***************************************************************************)
EXTENDS Otp, TLAPS

Sends == {"readThrottle", "cooldown", "store", "count", "mail"}
Answers == {"drop", "consume", "miss"}

(* A record in Redis is of a code sent for its key. *)
RecordSent ==
  \A k \in Keys :
    otp[k] # None =>
      sentFor[otp[k].code] = Sending(k.channel, k.user, k.purpose, otp[k].dest)

(* What a request in flight may rely on: its inputs are given, a send that
   was not throttled read a count below the maximum, a verification that got
   past its read holds a record of a code sent for its key. *)
RequestOK(p) ==
  LET r == req[p] IN
  /\ r.at # "idle" => r.channel \in Channels /\ r.user \in Users /\ r.purpose \in Purposes
  /\ r.at \in Sends => r.dest \in Destinations
  /\ r.at \in {"cooldown", "store", "count"} => r.sends < MaxAttempts
  /\ r.at \in Answers =>
       /\ r.rec \in Records
       /\ sentFor[r.rec.code] = Sending(r.channel, r.user, r.purpose, r.rec.dest)
  /\ r.at = "miss" => r.rec.attempts < MaxAttempts

IInv == TypeOK /\ RecordSent /\ AcceptedAsSent /\ \A p \in Requests : RequestOK(p)

-----------------------------------------------------------------------------
(* The bounds are naturals, and no lifetime passes the longest. *)
LEMMA Bounds ==
  /\ LongestTtl \in Nat \ {0}
  /\ \A ch \in Channels : /\ CodeTtl(ch) \in 1..LongestTtl
                          /\ ThrottleTtl(ch) \in 0..Larger(LongestTtl, MinThrottleTtl)
  BY OtpAssumption DEF LongestTtl, CodeTtl, ThrottleTtl, Larger

(* A request that moves on keeps its locals, and the others theirs. *)
LEMMA MoveFrame ==
  ASSUME TypeOK, NEW p \in Requests, NEW place \in Places, Move(p, place)
  PROVE  /\ req' \in [Requests -> Frames]
         /\ \A q \in Requests : q # p => req'[q] = req[q]
         /\ req'[p].at = place
         /\ req'[p].channel = req[p].channel /\ req'[p].user = req[p].user
         /\ req'[p].purpose = req[p].purpose /\ req'[p].dest = req[p].dest
         /\ req'[p].sends = req[p].sends /\ req'[p].rec = req[p].rec
<1>1. req[p] \in Frames
  BY DEF TypeOK
<1> QED
  BY <1>1 DEF TypeOK, Move, Frames

(* A request that returns leaves an empty slot. *)
LEMMA ReturnFrame ==
  ASSUME TypeOK, NEW p \in Requests, Return(p)
  PROVE  /\ req' \in [Requests -> Frames]
         /\ \A q \in Requests : q # p => req'[q] = req[q]
         /\ RequestOK(p)'
<1>1. NoFrame \in Frames /\ NoFrame.at = "idle" /\ NoFrame.rec = None
  BY OtpAssumption DEF NoFrame, Frame, Frames, Places
<1>2. req' \in [Requests -> Frames] /\ req'[p] = NoFrame
  BY <1>1 DEF TypeOK, Return
<1>3. RequestOK(p)'
  BY <1>1, <1>2 DEF RequestOK, Sends, Answers
<1> QED
  BY <1>2, <1>3 DEF Return, TypeOK

(* The other requests notice nothing when codes in use keep their meaning. *)
LEMMA OthersOK ==
  ASSUME IInv, NEW p \in Requests,
         \A q \in Requests : q # p => req'[q] = req[q],
         \A c \in Codes : sentFor[c] # None => sentFor'[c] = sentFor[c]
  PROVE  \A q \in Requests : q # p => RequestOK(q)'
<1> SUFFICES ASSUME NEW q \in Requests, q # p
             PROVE  RequestOK(q)'
  OBVIOUS
<1>1. req'[q] = req[q] /\ RequestOK(q)
  BY DEF IInv
<1>2. ASSUME req[q].at \in Answers
      PROVE  sentFor'[req[q].rec.code] = sentFor[req[q].rec.code]
  <2>1. req[q].rec.code \in Codes /\ req[q].rec.dest \in Destinations
    BY <1>1, <1>2 DEF RequestOK, Records
  <2>2. /\ req[q].channel \in Channels /\ req[q].user \in Users
        /\ req[q].purpose \in Purposes
    BY <1>1, <1>2 DEF RequestOK, Answers
  <2>3. sentFor[req[q].rec.code] \in Sendings
    BY <1>1, <1>2, <2>1, <2>2 DEF RequestOK, Sending, Sendings
  <2> QED
    BY <2>1, <2>3, OtpAssumption
<1> QED
  BY <1>1, <1>2 DEF RequestOK

(* Nothing but the requests changed, and they are well: the invariant holds. *)
LEMMA RequestsOnly ==
  ASSUME IInv, UNCHANGED <<otp, throttle, resting, sentFor, accepted>>,
         NEW p \in Requests, req' \in [Requests -> Frames], RequestOK(p)',
         \A q \in Requests : q # p => req'[q] = req[q]
  PROVE  IInv'
<1>1. \A q \in Requests : RequestOK(q)'
  BY OthersOK
<1>2. TypeOK' /\ AcceptedAsSent' /\ RecordSent'
  BY DEF IInv, TypeOK, AcceptedAsSent, RecordSent
<1> QED
  BY <1>1, <1>2 DEF IInv

(* The key of a request in flight. *)
LEMMA KeyInKeys ==
  ASSUME NEW p \in Requests, RequestOK(p), req[p].at # "idle"
  PROVE  /\ KeyOf(p) \in Keys
         /\ KeyOf(p).channel = req[p].channel /\ KeyOf(p).user = req[p].user
         /\ KeyOf(p).purpose = req[p].purpose
  BY DEF RequestOK, KeyOf, OtpKey, Keys

(* Nothing is stored and no request is in flight at first. *)
LEMMA Initially == Init => IInv
<1> SUFFICES ASSUME Init PROVE IInv
  OBVIOUS
<1>1. NoFrame \in Frames /\ NoFrame.at = "idle" /\ NoFrame.rec = None
  BY OtpAssumption DEF NoFrame, Frame, Frames, Places
<1>2. TypeOK
  BY <1>1, OtpAssumption, Bounds DEF Init, TypeOK, Larger
<1>3. RecordSent /\ AcceptedAsSent
  BY DEF Init, RecordSent, AcceptedAsSent
<1>4. \A p \in Requests : RequestOK(p)
  BY <1>1 DEF Init, RequestOK, Sends, Answers
<1> QED
  BY <1>2, <1>3, <1>4 DEF IInv

-----------------------------------------------------------------------------
(* A request starts. *)
LEMMA StartPreserves ==
  ASSUME IInv, NEW p \in Requests, Start(p)
  PROVE  IInv'
<1>1. PICK ch \in Channels, u \in Users, purpose \in Purposes :
        \/ \E d \in Destinations : StartSend(p, ch, u, purpose, d)
        \/ \E c \in Codes \cup {None} : StartVerify(p, ch, u, purpose, c)
  BY DEF Start
<1>2. CASE \E d \in Destinations : StartSend(p, ch, u, purpose, d)
  <2>1. PICK d \in Destinations : StartSend(p, ch, u, purpose, d)
    BY <1>2
  <2> DEFINE f == Frame("readThrottle", ch, u, purpose, d, None, 0, None)
  <2>2. /\ f \in Frames /\ f.at = "readThrottle" /\ f.rec = None
        /\ f.channel = ch /\ f.user = u /\ f.purpose = purpose /\ f.dest = d
    BY OtpAssumption DEF Frame, Frames, Places
  <2>3. /\ req' = [req EXCEPT ![p] = f]
        /\ UNCHANGED <<otp, throttle, resting, sentFor, accepted>>
    BY <2>1 DEF StartSend
  <2> HIDE DEF f
  <2>4. req' \in [Requests -> Frames] /\ RequestOK(p)'
    BY <2>2, <2>3 DEF IInv, TypeOK, RequestOK, Sends, Answers
  <2>5. \A q \in Requests : q # p => req'[q] = req[q]
    BY <2>3 DEF IInv, TypeOK
  <2> QED
    BY <2>3, <2>4, <2>5, RequestsOnly
<1>3. CASE \E c \in Codes \cup {None} : StartVerify(p, ch, u, purpose, c)
  <2>1. PICK c \in Codes \cup {None} : StartVerify(p, ch, u, purpose, c)
    BY <1>3
  <2> DEFINE f == Frame("readOtp", ch, u, purpose, None, c, 0, None)
  <2>2. /\ f \in Frames /\ f.at = "readOtp" /\ f.rec = None
        /\ f.channel = ch /\ f.user = u /\ f.purpose = purpose
    BY OtpAssumption DEF Frame, Frames, Places
  <2>3. /\ req' = [req EXCEPT ![p] = f]
        /\ UNCHANGED <<otp, throttle, resting, sentFor, accepted>>
    BY <2>1 DEF StartVerify
  <2> HIDE DEF f
  <2>4. req' \in [Requests -> Frames] /\ RequestOK(p)'
    BY <2>2, <2>3 DEF IInv, TypeOK, RequestOK, Sends, Answers
  <2>5. \A q \in Requests : q # p => req'[q] = req[q]
    BY <2>3 DEF IInv, TypeOK
  <2> QED
    BY <2>3, <2>4, <2>5, RequestsOnly
<1> QED
  BY <1>1, <1>2, <1>3

(* A request that returns, be it answered, refused or lost. *)
LEMMA ReturnPreserves ==
  ASSUME IInv, NEW p \in Requests, Return(p),
         UNCHANGED <<otp, throttle, resting, sentFor, accepted>>
  PROVE  IInv'
  BY ReturnFrame, RequestsOnly DEF IInv

(* A send that is not refused read a count below the maximum. *)
LEMMA ReadThrottlePreserves ==
  ASSUME IInv, NEW p \in Requests, ReadThrottle(p)
  PROVE  IInv'
<1> DEFINE n == throttle[TargetOf(p)]
<1>1. UNCHANGED <<otp, throttle, resting, sentFor, accepted>>
  BY DEF ReadThrottle
<1>2. CASE n >= MaxAttempts /\ Return(p)
  BY <1>1, <1>2, ReturnPreserves
<1>3. CASE /\ n < MaxAttempts
           /\ req' = [req EXCEPT ![p].at = "cooldown", ![p].sends = n]
  <2>1. /\ req[p] \in Frames /\ RequestOK(p) /\ req[p].at = "readThrottle"
        /\ req \in [Requests -> Frames]
    BY DEF IInv, TypeOK, ReadThrottle
  <2>2. TargetOf(p) \in Targets
    BY <2>1 DEF RequestOK, TargetOf, Targets, Sends
  <2>3. n \in 0..MaxAttempts
    BY <2>2 DEF IInv, TypeOK
  <2> HIDE DEF n
  <2>4. req' \in [Requests -> Frames]
    BY <1>3, <2>1, <2>3 DEF Frames, Places
  <2>5. RequestOK(p)'
    BY <1>1, <1>3, <2>1 DEF RequestOK, Sends, Answers, Frames
  <2>6. \A q \in Requests : q # p => req'[q] = req[q]
    BY <1>3, <2>1
  <2> QED
    BY <1>1, <2>4, <2>5, <2>6, RequestsOnly
<1> QED
  BY <1>2, <1>3 DEF ReadThrottle

(* The cooldown refuses or lets the send go on as it is. *)
LEMMA CheckCooldownPreserves ==
  ASSUME IInv, NEW p \in Requests, CheckCooldown(p)
  PROVE  IInv'
<1>1. /\ UNCHANGED <<otp, throttle, resting, sentFor, accepted>>
      /\ req[p].at = "cooldown" /\ (Return(p) \/ Move(p, "store"))
  BY DEF CheckCooldown
<1>2. CASE Return(p)
  BY <1>1, <1>2, ReturnPreserves
<1>3. CASE Move(p, "store")
  <2>1. /\ req' \in [Requests -> Frames] /\ req'[p].at = "store"
        /\ \A q \in Requests : q # p => req'[q] = req[q]
        /\ req'[p].channel = req[p].channel /\ req'[p].user = req[p].user
        /\ req'[p].purpose = req[p].purpose /\ req'[p].dest = req[p].dest
        /\ req'[p].sends = req[p].sends /\ req'[p].rec = req[p].rec
    BY <1>3, MoveFrame DEF IInv, Places
  <2>2. RequestOK(p)
    BY DEF IInv
  <2>3. RequestOK(p)'
    BY <1>1, <2>1, <2>2 DEF RequestOK, Sends, Answers
  <2> QED
    BY <1>1, <2>1, <2>3, RequestsOnly
<1> QED
  BY <1>1, <1>2, <1>3

(* The new code is unused, so no record and no acceptance speaks of it. *)
LEMMA StoreCodePreserves ==
  ASSUME IInv, NEW p \in Requests, StoreCode(p)
  PROVE  IInv'
<1> DEFINE r == req[p]
           k == KeyOf(p)
           what == Sending(r.channel, r.user, r.purpose, r.dest)
           lifetime == CodeTtl(r.channel)
<1>1. /\ r \in Frames /\ RequestOK(p) /\ r.at = "store" /\ Move(p, "count")
      /\ UNCHANGED <<throttle, resting, accepted>>
  BY DEF IInv, TypeOK, StoreCode
<1>2. PICK c \in Codes :
        /\ sentFor[c] = None
        /\ otp' = [otp EXCEPT ![k] = Record(c, r.dest, 0, 0, lifetime)]
        /\ sentFor' = [sentFor EXCEPT ![c] = what]
  BY DEF StoreCode
<1>3. /\ k \in Keys /\ k.channel = r.channel /\ k.user = r.user
      /\ k.purpose = r.purpose
  BY <1>1, KeyInKeys
<1>4. /\ r.channel \in Channels /\ r.user \in Users /\ r.purpose \in Purposes
      /\ r.dest \in Destinations /\ r.sends < MaxAttempts
  BY <1>1 DEF RequestOK, Sends, Answers
<1>5. what \in Sendings /\ what # None
  BY <1>4, OtpAssumption DEF Sending, Sendings
<1>6. lifetime \in 1..LongestTtl
  BY <1>4, Bounds
<1>7. /\ Record(c, r.dest, 0, 0, lifetime) \in Records
      /\ Record(c, r.dest, 0, 0, lifetime).code = c
      /\ Record(c, r.dest, 0, 0, lifetime).dest = r.dest
  BY <1>4, <1>6, Bounds, OtpAssumption DEF Record, Records, OldestAge
<1>8. /\ req' \in [Requests -> Frames] /\ req'[p].at = "count"
      /\ \A q \in Requests : q # p => req'[q] = req[q]
      /\ req'[p].channel = r.channel /\ req'[p].user = r.user
      /\ req'[p].purpose = r.purpose /\ req'[p].dest = r.dest
      /\ req'[p].sends = r.sends /\ req'[p].rec = r.rec
  BY <1>1, MoveFrame DEF IInv, Places
<1>9. /\ otp \in [Keys -> Records \cup {None}]
      /\ sentFor \in [Codes -> Sendings \cup {None}]
      /\ accepted \subseteq [code : Codes, as : Sendings]
  BY DEF IInv, TypeOK
<1> HIDE DEF what, k, lifetime
<1>10. TypeOK'
  BY <1>1, <1>2, <1>3, <1>5, <1>7, <1>8, <1>9 DEF IInv, TypeOK
<1>11. \A d \in Codes : sentFor[d] # None => sentFor'[d] = sentFor[d]
  BY <1>2, <1>9
<1>12. RecordSent'
  <2> SUFFICES ASSUME NEW j \in Keys, otp'[j] # None
               PROVE  sentFor'[otp'[j].code] =
                        Sending(j.channel, j.user, j.purpose, otp'[j].dest)
    BY DEF RecordSent
  <2>1. CASE j = k
    <3>1. otp'[j].code = c /\ otp'[j].dest = r.dest
      BY <1>2, <1>3, <1>7, <1>9, <2>1
    <3>2. sentFor'[c] = what
      BY <1>2, <1>9
    <3> QED
      BY <1>3, <2>1, <3>1, <3>2 DEF what
  <2>2. CASE j # k
    <3>1. /\ otp'[j] = otp[j]
          /\ sentFor[otp[j].code] = Sending(j.channel, j.user, j.purpose, otp[j].dest)
      BY <1>2, <1>9, <2>2 DEF IInv, RecordSent
    <3>2. otp[j].code \in Codes /\ otp[j].dest \in Destinations
      BY <1>9, <3>1 DEF Records
    <3>3. sentFor[otp[j].code] # None
      BY <3>1, <3>2, OtpAssumption DEF Sending, Sendings, Keys
    <3> QED
      BY <1>11, <3>1, <3>2, <3>3
  <2> QED
    BY <2>1, <2>2
<1>13. AcceptedAsSent'
  <2> SUFFICES ASSUME NEW a \in accepted
               PROVE  sentFor'[a.code] = a.as
    BY <1>1 DEF AcceptedAsSent
  <2>1. a.code \in Codes /\ a.as \in Sendings /\ sentFor[a.code] = a.as
    BY <1>9 DEF IInv, AcceptedAsSent
  <2> QED
    BY <1>11, <2>1, OtpAssumption
<1>14. RequestOK(p)'
  BY <1>4, <1>8, OtpAssumption DEF RequestOK, Sends, Answers
<1>15. \A q \in Requests : q # p => RequestOK(q)'
  BY <1>8, <1>11, OthersOK
<1> QED
  BY <1>10, <1>12, <1>13, <1>14, <1>15 DEF IInv

(* The count that is written is one more than one below the maximum. *)
LEMMA StoreThrottlePreserves ==
  ASSUME IInv, NEW p \in Requests, StoreThrottle(p)
  PROVE  IInv'
<1> DEFINE r == req[p]
           t == TargetOf(p)
<1>1. /\ r \in Frames /\ RequestOK(p) /\ r.at = "count" /\ Move(p, "mail")
      /\ throttle' = [throttle EXCEPT ![t] = r.sends + 1]
      /\ resting' = [resting EXCEPT ![t] = ThrottleTtl(t[1])]
      /\ UNCHANGED <<otp, sentFor, accepted>>
  BY DEF IInv, TypeOK, StoreThrottle
<1>2. /\ r.channel \in Channels /\ r.user \in Users /\ r.purpose \in Purposes
      /\ r.dest \in Destinations /\ r.sends < MaxAttempts
  BY <1>1 DEF RequestOK, Sends, Answers
<1>3. t \in Targets /\ t[1] = r.channel
  BY <1>2 DEF TargetOf, Targets
<1>4. r.sends + 1 \in 0..MaxAttempts
  BY <1>1, <1>2, OtpAssumption DEF Frames
<1>5. ThrottleTtl(t[1]) \in 0..Larger(LongestTtl, MinThrottleTtl)
  BY <1>2, <1>3, Bounds
<1>6. /\ req' \in [Requests -> Frames] /\ req'[p].at = "mail"
      /\ \A q \in Requests : q # p => req'[q] = req[q]
      /\ req'[p].channel = r.channel /\ req'[p].user = r.user
      /\ req'[p].purpose = r.purpose /\ req'[p].dest = r.dest
      /\ req'[p].rec = r.rec
  BY <1>1, MoveFrame DEF IInv, Places
<1> HIDE DEF t
<1>7. TypeOK'
  BY <1>1, <1>3, <1>4, <1>5, <1>6 DEF IInv, TypeOK
<1>8. RecordSent' /\ AcceptedAsSent'
  BY <1>1 DEF IInv, RecordSent, AcceptedAsSent
<1>9. RequestOK(p)'
  BY <1>2, <1>6 DEF RequestOK, Sends, Answers
<1>10. \A q \in Requests : q # p => RequestOK(q)'
  BY <1>1, <1>6, OthersOK
<1> QED
  BY <1>7, <1>8, <1>9, <1>10 DEF IInv

(* A send ends with its delivery, any request with its loss. *)
LEMMA DeliverPreserves ==
  ASSUME IInv, NEW p \in Requests, Deliver(p) \/ Abort(p)
  PROVE  IInv'
  BY ReturnPreserves DEF Deliver, Abort

-----------------------------------------------------------------------------
(* A verification takes over what is known of the record it reads. *)
LEMMA ReadOtpPreserves ==
  ASSUME IInv, NEW p \in Requests, ReadOtp(p)
  PROVE  IInv'
<1> DEFINE r == otp[KeyOf(p)]
           place == Verdict(r, req[p].given)
<1>1. /\ UNCHANGED <<otp, throttle, resting, sentFor, accepted>>
      /\ req[p] \in Frames /\ req \in [Requests -> Frames]
      /\ RequestOK(p) /\ req[p].at = "readOtp"
  BY DEF IInv, TypeOK, ReadOtp
<1>2. CASE r = None /\ Return(p)
  BY <1>1, <1>2, ReturnPreserves
<1>3. CASE /\ r # None
           /\ req' = [req EXCEPT ![p].at = place, ![p].rec = r]
  <2>1. /\ KeyOf(p) \in Keys
        /\ KeyOf(p).channel = req[p].channel /\ KeyOf(p).user = req[p].user
        /\ KeyOf(p).purpose = req[p].purpose
    BY <1>1, KeyInKeys
  <2>2. /\ r \in Records
        /\ sentFor[r.code] = Sending(req[p].channel, req[p].user,
                                     req[p].purpose, r.dest)
    BY <1>3, <2>1 DEF IInv, TypeOK, RecordSent
  <2>3. place \in Answers /\ (place = "miss" => r.attempts < MaxAttempts)
    BY <2>2, OtpAssumption DEF Verdict, Answers, Records
  <2> HIDE DEF r, place
  <2>4. /\ req' \in [Requests -> Frames]
        /\ req'[p].at = place /\ req'[p].rec = r
        /\ req'[p].channel = req[p].channel /\ req'[p].user = req[p].user
        /\ req'[p].purpose = req[p].purpose
        /\ \A q \in Requests : q # p => req'[q] = req[q]
    BY <1>1, <1>3, <2>2, <2>3 DEF Frames, Places, Answers
  <2>5. RequestOK(p)'
    BY <1>1, <2>2, <2>3, <2>4 DEF RequestOK, Sends, Answers
  <2> QED
    BY <1>1, <2>4, <2>5, RequestsOnly
<1> QED
  BY <1>2, <1>3 DEF ReadOtp

(* A request that ends by writing a record of a code sent for its key, or
   none, there, and possibly an acceptance of such a code. *)
LEMMA AnswerPreserves ==
  ASSUME IInv, NEW p \in Requests, RequestOK(p), req[p].at \in Answers, Return(p),
         NEW r \in Records \cup {None},
         r # None =>
           /\ r \in Records
           /\ sentFor[r.code] =
                Sending(req[p].channel, req[p].user, req[p].purpose, r.dest),
         otp' = [otp EXCEPT ![KeyOf(p)] = r],
         accepted' = accepted \/ accepted' = accepted \cup {Acceptance(p)},
         UNCHANGED <<throttle, resting, sentFor>>
  PROVE  IInv'
<1>1. /\ KeyOf(p) \in Keys
      /\ KeyOf(p).channel = req[p].channel /\ KeyOf(p).user = req[p].user
      /\ KeyOf(p).purpose = req[p].purpose
  BY KeyInKeys DEF Answers
<1>2. /\ req' \in [Requests -> Frames] /\ RequestOK(p)'
      /\ \A q \in Requests : q # p => req'[q] = req[q]
  BY ReturnFrame DEF IInv
<1>3. /\ Acceptance(p) \in [code : Codes, as : Sendings]
      /\ sentFor[Acceptance(p).code] = Acceptance(p).as
  <2>1. /\ req[p].rec \in Records
        /\ sentFor[req[p].rec.code] =
             Sending(req[p].channel, req[p].user, req[p].purpose, req[p].rec.dest)
        /\ req[p].channel \in Channels /\ req[p].user \in Users
        /\ req[p].purpose \in Purposes
    BY DEF RequestOK, Answers
  <2>2. Sending(req[p].channel, req[p].user, req[p].purpose, req[p].rec.dest) \in Sendings
    BY <2>1 DEF Sending, Sendings, Records
  <2>3. req[p].rec.code \in Codes
    BY <2>1 DEF Records
  <2> QED
    BY <2>1, <2>2, <2>3 DEF Acceptance
<1>4. /\ otp \in [Keys -> Records \cup {None}]
      /\ accepted \subseteq [code : Codes, as : Sendings]
  BY DEF IInv, TypeOK
<1>5. TypeOK'
  <2>1. otp' \in [Keys -> Records \cup {None}]
    BY <1>1, <1>4
  <2>2. accepted' \subseteq [code : Codes, as : Sendings]
    BY <1>3, <1>4
  <2> QED
    BY <1>2, <2>1, <2>2 DEF IInv, TypeOK
<1>6. RecordSent'
  <2> SUFFICES ASSUME NEW k \in Keys, otp'[k] # None
               PROVE  sentFor[otp'[k].code] =
                        Sending(k.channel, k.user, k.purpose, otp'[k].dest)
    BY DEF RecordSent
  <2>1. CASE k = KeyOf(p)
    BY <1>1, <1>4, <2>1
  <2>2. CASE k # KeyOf(p)
    BY <1>1, <1>4, <2>2 DEF IInv, RecordSent
  <2> QED
    BY <2>1, <2>2
<1>7. AcceptedAsSent'
  <2> SUFFICES ASSUME NEW a \in accepted'
               PROVE  sentFor[a.code] = a.as
    BY DEF AcceptedAsSent
  <2>1. CASE a \in accepted
    BY <2>1 DEF IInv, AcceptedAsSent
  <2>2. CASE a = Acceptance(p)
    BY <1>3, <2>2
  <2> QED
    BY <2>1, <2>2
<1>8. \A q \in Requests : q # p => RequestOK(q)'
  BY <1>2, OthersOK
<1> QED
  BY <1>2, <1>5, <1>6, <1>7, <1>8 DEF IInv

(* A record is dropped for too many attempts, or with its acceptance. *)
LEMMA DropPreserves ==
  ASSUME IInv, NEW p \in Requests, DropRecord(p) \/ Consume(p)
  PROVE  IInv'
<1>1. /\ RequestOK(p) /\ req[p].at \in Answers /\ Return(p)
      /\ otp' = [otp EXCEPT ![KeyOf(p)] = None]
      /\ accepted' = accepted \/ accepted' = accepted \cup {Acceptance(p)}
      /\ UNCHANGED <<throttle, resting, sentFor>>
  BY DEF IInv, DropRecord, Consume, Answers
<1> QED
  BY <1>1, AnswerPreserves

(* A record that is written back is of the code that was read. *)
LEMMA CountMissPreserves ==
  ASSUME IInv, NEW p \in Requests, CountMiss(p)
  PROVE  IInv'
<1> DEFINE r == req[p].rec
           lifetime == CodeTtl(req[p].channel)
           left == IF r.age < lifetime THEN lifetime - r.age ELSE 1
           new == Record(r.code, r.dest, r.attempts + 1, r.age, left)
<1>1. /\ RequestOK(p) /\ req[p].at = "miss" /\ Return(p)
      /\ otp' = [otp EXCEPT ![KeyOf(p)] = new]
      /\ UNCHANGED <<throttle, resting, sentFor, accepted>>
  BY DEF IInv, CountMiss
<1>2. /\ r \in Records /\ r.attempts < MaxAttempts /\ req[p].channel \in Channels
      /\ sentFor[r.code] = Sending(req[p].channel, req[p].user, req[p].purpose, r.dest)
  BY <1>1 DEF RequestOK, Answers
<1>3. lifetime \in 1..LongestTtl /\ LongestTtl \in Nat \ {0}
  BY <1>2, Bounds
<1> HIDE DEF r, lifetime
<1>4. left \in 1..LongestTtl
  BY <1>2, <1>3 DEF Records, OldestAge
<1> HIDE DEF left
<1>5. new \in Records /\ new.code = r.code /\ new.dest = r.dest
  BY <1>2, <1>4, OtpAssumption DEF Record, Records
<1> HIDE DEF new
<1>6. req[p].at \in Answers
  BY <1>1 DEF Answers
<1> QED
  BY <1>1, <1>2, <1>5, <1>6, AnswerPreserves

-----------------------------------------------------------------------------
(* Time changes the age and the TTL of a record only. *)
LEMMA AgedRecord ==
  ASSUME NEW r \in Records, NEW ttl \in 1..LongestTtl
  PROVE  /\ Aged(r, ttl) \in Records /\ Aged(r, ttl).code = r.code
         /\ Aged(r, ttl).dest = r.dest /\ Aged(r, ttl).attempts = r.attempts
<1>1. Smaller(r.age + 1, OldestAge) \in 0..OldestAge
  BY Bounds DEF Records, Smaller, OldestAge
<1> QED
  BY <1>1 DEF Aged, Record, Records

(* A record lapses or ages. *)
LEMMA LapsedRecord ==
  ASSUME NEW r \in Records \cup {None}, r # None => r \in Records
  PROVE  /\ Lapse(r) \in Records \cup {None}
         /\ Lapse(r) # None =>
              /\ r # None /\ r \in Records
              /\ Lapse(r).code = r.code /\ Lapse(r).dest = r.dest
<1>1. CASE r = None \/ r.ttl = 1
  BY <1>1 DEF Lapse
<1>2. CASE r # None /\ r.ttl # 1
  <2>1. r.ttl - 1 \in 1..LongestTtl
    BY <1>2, Bounds DEF Records
  <2>2. Lapse(r) = Aged(r, r.ttl - 1)
    BY <1>2 DEF Lapse
  <2> QED
    BY <1>2, <2>1, <2>2, AgedRecord
<1> QED
  BY <1>1, <1>2

(* The records in Redis and those requests hold stay of the same codes. *)
LEMMA TickPreserves ==
  ASSUME IInv, Tick
  PROVE  IInv'
<1>1. /\ otp \in [Keys -> Records \cup {None}] /\ req \in [Requests -> Frames]
      /\ UNCHANGED <<sentFor, accepted>>
  BY DEF IInv, TypeOK, Tick
<1>2. ASSUME NEW k \in Keys
      PROVE  /\ otp'[k] \in Records \cup {None}
             /\ otp'[k] # None =>
                  /\ otp[k] # None
                  /\ otp'[k].code = otp[k].code /\ otp'[k].dest = otp[k].dest
  <2>1. otp'[k] = Lapse(otp[k])
    BY DEF Tick
  <2> QED
    BY <1>1, <2>1, LapsedRecord
<1>3. ASSUME NEW p \in Requests
      PROVE  /\ req'[p] \in Frames /\ req'[p].at = req[p].at
             /\ req'[p].channel = req[p].channel /\ req'[p].user = req[p].user
             /\ req'[p].purpose = req[p].purpose /\ req'[p].dest = req[p].dest
             /\ req'[p].sends = req[p].sends
             /\ req[p].rec \in Records =>
                  /\ req'[p].rec \in Records
                  /\ req'[p].rec.code = req[p].rec.code
                  /\ req'[p].rec.dest = req[p].rec.dest
                  /\ req'[p].rec.attempts = req[p].rec.attempts
  <2>1. req[p] \in Frames
    BY <1>1
  <2>2. CASE req[p].rec = None
    <3>1. req'[p] = req[p]
      BY <2>2 DEF Tick
    <3> QED
      BY <2>1, <3>1
  <2>3. CASE req[p].rec # None
    <3> DEFINE aged == Aged(req[p].rec, req[p].rec.ttl)
    <3>1. req[p].rec \in Records /\ req[p].rec.ttl \in 1..LongestTtl
      BY <2>1, <2>3 DEF Frames, Records
    <3>2. /\ aged \in Records /\ aged.code = req[p].rec.code
          /\ aged.dest = req[p].rec.dest /\ aged.attempts = req[p].rec.attempts
      BY <3>1, AgedRecord
    <3>3. req'[p] = [req[p] EXCEPT !.rec = aged]
      BY <2>3 DEF Tick
    <3> HIDE DEF aged
    <3> QED
      BY <2>1, <3>2, <3>3 DEF Frames
  <2> QED
    BY <2>2, <2>3
<1>4. TypeOK'
  <2>1. otp' \in [Keys -> Records \cup {None}] /\ req' \in [Requests -> Frames]
    BY <1>2, <1>3 DEF Tick
  <2>2. /\ resting' \in [Targets -> 0..Larger(LongestTtl, MinThrottleTtl)]
        /\ throttle' \in [Targets -> 0..MaxAttempts]
    <3>1. Larger(LongestTtl, MinThrottleTtl) \in Nat
      BY Bounds, OtpAssumption DEF Larger
    <3> QED
      BY <3>1, OtpAssumption DEF IInv, TypeOK, Tick
  <2> QED
    BY <1>1, <2>1, <2>2 DEF IInv, TypeOK
<1>5. RecordSent' /\ AcceptedAsSent'
  BY <1>1, <1>2 DEF IInv, RecordSent, AcceptedAsSent
<1>6. ASSUME NEW p \in Requests
      PROVE  RequestOK(p)'
  <2>1. RequestOK(p)
    BY DEF IInv
  <2>2. req[p].at = "miss" => req[p].at \in Answers
    BY DEF Answers
  <2> QED
    BY <1>1, <1>3, <2>1, <2>2 DEF RequestOK
<1> QED
  BY <1>4, <1>5, <1>6 DEF IInv

-----------------------------------------------------------------------------
(* Every step preserves the invariant. *)
LEMMA StepPreserves == IInv /\ [Next]_vars => IInv'
<1> SUFFICES ASSUME IInv, [Next]_vars
             PROVE  IInv'
  OBVIOUS
<1>1. CASE UNCHANGED vars
  BY <1>1 DEF vars, IInv, TypeOK, RecordSent, AcceptedAsSent, RequestOK, KeyOf
<1>2. CASE Tick
  BY <1>2, TickPreserves
<1>3. ASSUME NEW p \in Requests, Start(p) \/ Proceed(p) \/ Abort(p)
      PROVE  IInv'
  <2>1. CASE Start(p)
    BY <2>1, StartPreserves
  <2>2. CASE ReadThrottle(p)
    BY <2>2, ReadThrottlePreserves
  <2>3. CASE CheckCooldown(p)
    BY <2>3, CheckCooldownPreserves
  <2>4. CASE StoreCode(p)
    BY <2>4, StoreCodePreserves
  <2>5. CASE StoreThrottle(p)
    BY <2>5, StoreThrottlePreserves
  <2>6. CASE Deliver(p) \/ Abort(p)
    BY <2>6, DeliverPreserves
  <2>7. CASE ReadOtp(p)
    BY <2>7, ReadOtpPreserves
  <2>8. CASE DropRecord(p) \/ Consume(p)
    BY <2>8, DropPreserves
  <2>9. CASE CountMiss(p)
    BY <2>9, CountMissPreserves
  <2> QED
    BY <1>3, <2>1, <2>2, <2>3, <2>4, <2>5, <2>6, <2>7, <2>8, <2>9 DEF Proceed
<1> QED
  BY <1>1, <1>2, <1>3 DEF Next

(* The invariant holds of send and verify under any interleaving. *)
THEOREM Invariance == Spec => []IInv
  BY Initially, StepPreserves, PTL DEF Spec

(* Every variable keeps a value of its kind: neither the count of sends nor
   the attempts of a record pass the maximum, however late they are written. *)
THEOREM TypeCorrect == Spec => []TypeOK
<1>1. IInv => TypeOK
  BY DEF IInv
<1> QED
  BY <1>1, Invariance, PTL

(* OtpService.verify accepts a code only for the channel, user and purpose
   send generated it for, and answers with the destination it was sent to. *)
THEOREM AcceptedOnlyAsSent == Spec => []AcceptedAsSent
<1>1. IInv => AcceptedAsSent
  BY DEF IInv
<1> QED
  BY <1>1, Invariance, PTL

-----------------------------------------------------------------------------
(* Requests that follow one another, per key: of the verifications between
   their read and their answer, no two are of one key. *)
OneVerifier ==
  \A p, q \in Requests :
    req[p].at \in Answers /\ req[q].at \in Answers /\ KeyOf(p) = KeyOf(q) => p = q

(* A code that was accepted is in no record, neither in Redis nor held by a
   verification. *)
SpentGone ==
  \A a \in accepted :
    /\ \A k \in Keys : otp[k] # None => otp[k].code # a.code
    /\ \A p \in Requests : req[p].at \in Answers => req[p].rec.code # a.code

(* Accepted codes and what a step leaves in records: nothing new is accepted
   and every record is of a code that a record was of before. *)
LEMMA SpentStays ==
  ASSUME SpentGone, accepted' = accepted,
         \A k \in Keys : otp'[k] # None =>
           \/ \E j \in Keys : otp[j] # None /\ otp'[k].code = otp[j].code
           \/ \E q \in Requests :
                req[q].at \in Answers /\ otp'[k].code = req[q].rec.code,
         \A p \in Requests : req'[p].at \in Answers =>
           \/ \E j \in Keys : otp[j] # None /\ req'[p].rec.code = otp[j].code
           \/ \E q \in Requests :
                req[q].at \in Answers /\ req'[p].rec.code = req[q].rec.code
  PROVE  SpentGone'
  BY DEF SpentGone

(* Requests that move to a place without a record, or return, bring no code. *)
LEMMA QuietKeepsSpent ==
  ASSUME SpentGone, UNCHANGED <<otp, accepted>>, NEW p \in Requests,
         req'[p].at \notin Answers, \A q \in Requests : q # p => req'[q] = req[q]
  PROVE  SpentGone'
  BY SpentStays

(* A returned request is at no answer. *)
LEMMA ReturnQuiet ==
  ASSUME TypeOK, NEW p \in Requests, Return(p)
  PROVE  /\ req'[p].at \notin Answers
         /\ \A q \in Requests : q # p => req'[q] = req[q]
<1>1. NoFrame.at = "idle"
  BY DEF NoFrame, Frame
<1> QED
  BY <1>1 DEF TypeOK, Return, Answers

(* The steps of send before and after its code is stored, and the steps that
   start or lose a request, touch no record. *)
LEMMA SendKeepsSpent ==
  ASSUME IInv, SpentGone, NEW p \in Requests,
         \/ Start(p) \/ ReadThrottle(p) \/ CheckCooldown(p) \/ StoreThrottle(p)
         \/ Deliver(p) \/ Abort(p)
  PROVE  SpentGone'
<1>1. TypeOK /\ req \in [Requests -> Frames]
  BY DEF IInv, TypeOK
<1>2. /\ UNCHANGED <<otp, accepted>>
      /\ \/ Return(p)
         \/ \E place \in {"cooldown", "store", "mail"} : req'[p].at = place
         \/ req'[p].at \in {"readThrottle", "readOtp"}
      /\ \A q \in Requests : q # p => req'[q] = req[q]
  <2>1. CASE Start(p)
    BY <1>1, <2>1 DEF Start, StartSend, StartVerify, Frame
  <2>2. CASE ReadThrottle(p)
    BY <1>1, <2>2, ReturnQuiet DEF ReadThrottle, Frames
  <2>3. CASE CheckCooldown(p)
    BY <1>1, <2>3, ReturnQuiet, MoveFrame DEF CheckCooldown, Places
  <2>4. CASE StoreThrottle(p)
    BY <1>1, <2>4, MoveFrame DEF StoreThrottle, Places
  <2>5. CASE Deliver(p) \/ Abort(p)
    BY <1>1, <2>5, ReturnQuiet DEF Deliver, Abort
  <2> QED
    BY <2>1, <2>2, <2>3, <2>4, <2>5
<1>3. req'[p].at \notin Answers
  BY <1>1, <1>2, ReturnQuiet DEF Answers
<1> QED
  BY <1>2, <1>3, QuietKeepsSpent

(* The code a send stores was not used, so it was not accepted. *)
LEMMA StoreCodeKeepsSpent ==
  ASSUME IInv, SpentGone, NEW p \in Requests, StoreCode(p)
  PROVE  SpentGone'
<1>1. PICK c \in Codes :
        /\ sentFor[c] = None
        /\ otp' = [otp EXCEPT ![KeyOf(p)] =
                     Record(c, req[p].dest, 0, 0, CodeTtl(req[p].channel))]
  BY DEF StoreCode
<1>2. /\ req'[p].at = "count" /\ accepted' = accepted
      /\ \A q \in Requests : q # p => req'[q] = req[q]
  BY MoveFrame DEF IInv, StoreCode, Places
<1>3. KeyOf(p) \in Keys /\ otp \in [Keys -> Records \cup {None}]
  BY KeyInKeys DEF IInv, TypeOK, StoreCode
<1>4. \A a \in accepted : a.code # c
  <2> SUFFICES ASSUME NEW a \in accepted
               PROVE  sentFor[a.code] # None
    BY <1>1
  <2> QED
    BY OtpAssumption DEF IInv, TypeOK, AcceptedAsSent
<1>5. otp'[KeyOf(p)].code = c
  BY <1>1, <1>3 DEF Record
<1>6. \A k \in Keys : k # KeyOf(p) => otp'[k] = otp[k]
  BY <1>1, <1>3
<1> QED
  BY <1>2, <1>4, <1>5, <1>6 DEF SpentGone, Answers

(* A verification takes its record from Redis. *)
LEMMA ReadOtpKeepsSpent ==
  ASSUME IInv, SpentGone, NEW p \in Requests, ReadOtp(p)
  PROVE  SpentGone'
<1> DEFINE r == otp[KeyOf(p)]
           place == Verdict(r, req[p].given)
<1>1. /\ UNCHANGED <<otp, accepted>> /\ TypeOK
      /\ req \in [Requests -> Frames] /\ KeyOf(p) \in Keys
  BY KeyInKeys DEF IInv, TypeOK, ReadOtp
<1>2. CASE r = None /\ Return(p)
  BY <1>1, <1>2, ReturnQuiet, QuietKeepsSpent
<1>3. CASE r # None /\ req' = [req EXCEPT ![p].at = place, ![p].rec = r]
  <2> HIDE DEF place
  <2>1. req'[p].rec = r /\ \A q \in Requests : q # p => req'[q] = req[q]
    BY <1>1, <1>3 DEF Frames
  <2> QED
    BY <1>1, <1>3, <2>1, SpentStays
<1> QED
  BY <1>2, <1>3 DEF ReadOtp

(* A record that is dropped is gone; one that is written back was held. *)
LEMMA MissKeepsSpent ==
  ASSUME IInv, SpentGone, NEW p \in Requests, DropRecord(p) \/ CountMiss(p)
  PROVE  SpentGone'
<1>1. /\ Return(p) /\ accepted' = accepted /\ req[p].at \in Answers /\ TypeOK
      /\ KeyOf(p) \in Keys /\ otp \in [Keys -> Records \cup {None}]
  BY KeyInKeys DEF IInv, TypeOK, DropRecord, CountMiss, Answers
<1>2. /\ \A k \in Keys : k # KeyOf(p) => otp'[k] = otp[k]
      /\ otp'[KeyOf(p)] # None => otp'[KeyOf(p)].code = req[p].rec.code
  <2>1. CASE DropRecord(p)
    BY <1>1, <2>1 DEF DropRecord
  <2>2. CASE CountMiss(p)
    BY <1>1, <2>2 DEF CountMiss, Record
  <2> QED
    BY <2>1, <2>2
<1> QED
  BY <1>1, <1>2, ReturnQuiet, SpentStays

(* An accepted code was in the record of its key alone, and no other
   verification holds that record. *)
LEMMA ConsumeKeepsSpent ==
  ASSUME IInv, SpentGone, OneVerifier, NEW p \in Requests, Consume(p)
  PROVE  SpentGone'
<1> DEFINE c == req[p].rec.code
<1>1. /\ Return(p) /\ accepted' = accepted \cup {Acceptance(p)} /\ TypeOK
      /\ req[p].at = "consume" /\ RequestOK(p)
      /\ otp' = [otp EXCEPT ![KeyOf(p)] = None]
      /\ KeyOf(p) \in Keys /\ otp \in [Keys -> Records \cup {None}]
  BY KeyInKeys DEF IInv, TypeOK, Consume
<1>2. Acceptance(p).code = c
  BY DEF Acceptance
<1>3. sentFor[c] = Sending(req[p].channel, req[p].user, req[p].purpose, req[p].rec.dest)
  BY <1>1 DEF RequestOK, Answers
<1>4. /\ otp'[KeyOf(p)] = None
      /\ \A k \in Keys : k # KeyOf(p) => otp'[k] = otp[k]
  BY <1>1
<1>5. /\ req'[p].at \notin Answers
      /\ \A q \in Requests : q # p => req'[q] = req[q]
  BY <1>1, ReturnQuiet
<1> HIDE DEF c
<1>6. ASSUME NEW k \in Keys, otp'[k] # None
      PROVE  otp'[k].code # c
  <2> SUFFICES ASSUME otp[k].code = c, otp[k] # None, k # KeyOf(p)
               PROVE  FALSE
    BY <1>4, <1>6
  <2>1. sentFor[c] = Sending(k.channel, k.user, k.purpose, otp[k].dest)
    BY DEF IInv, RecordSent
  <2>2. /\ k.channel = req[p].channel /\ k.user = req[p].user
        /\ k.purpose = req[p].purpose
    BY <1>3, <2>1 DEF Sending
  <2> QED
    BY <2>2 DEF Keys, KeyOf, OtpKey
<1>7. ASSUME NEW q \in Requests, req'[q].at \in Answers
      PROVE  req'[q].rec.code # c
  <2> SUFFICES ASSUME q # p, req'[q] = req[q], req[q].at \in Answers,
                      req[q].rec.code = c
               PROVE  FALSE
    BY <1>5, <1>7
  <2>1. sentFor[c] = Sending(req[q].channel, req[q].user, req[q].purpose, req[q].rec.dest)
    BY DEF IInv, RequestOK
  <2>2. KeyOf(q) = KeyOf(p)
    BY <1>3, <2>1 DEF Sending, KeyOf, OtpKey
  <2> QED
    BY <1>1, <2>2 DEF OneVerifier, Answers
<1>8. ASSUME NEW a \in accepted
      PROVE  /\ \A k \in Keys : otp'[k] # None => otp'[k].code # a.code
             /\ \A q \in Requests : req'[q].at \in Answers => req'[q].rec.code # a.code
  BY <1>4, <1>5 DEF SpentGone
<1> QED
  BY <1>1, <1>2, <1>6, <1>7, <1>8 DEF SpentGone

(* Time brings back no code. *)
LEMMA TickKeepsSpent ==
  ASSUME IInv, SpentGone, Tick
  PROVE  SpentGone'
<1>1. ASSUME NEW k \in Keys, otp'[k] # None
      PROVE  otp[k] # None /\ otp'[k].code = otp[k].code
  <2>1. otp'[k] = Lapse(otp[k]) /\ otp[k] \in Records \cup {None}
    BY DEF Tick, IInv, TypeOK
  <2> QED
    BY <1>1, <2>1, LapsedRecord
<1>2. ASSUME NEW p \in Requests, req'[p].at \in Answers
      PROVE  req[p].at \in Answers /\ req'[p].rec.code = req[p].rec.code
  <2>1. req[p] \in Frames /\ RequestOK(p)
    BY DEF IInv, TypeOK
  <2>2. CASE req[p].rec = None
    <3>1. req'[p] = req[p]
      BY <2>2 DEF Tick
    <3> QED
      BY <1>2, <3>1
  <2>3. CASE req[p].rec # None
    <3>1. req'[p] = [req[p] EXCEPT !.rec = Aged(req[p].rec, req[p].rec.ttl)]
      BY <2>3 DEF Tick
    <3>2. Aged(req[p].rec, req[p].rec.ttl).code = req[p].rec.code
      BY DEF Aged, Record
    <3> QED
      BY <1>2, <2>1, <3>1, <3>2 DEF Frames
  <2> QED
    BY <2>2, <2>3
<1>3. accepted' = accepted
  BY DEF Tick
<1> QED
  BY <1>1, <1>2, <1>3, SpentStays

(* No step leaves an accepted code in a record. *)
LEMMA StepKeepsSpent ==
  IInv /\ SpentGone /\ OneVerifier /\ [Next]_vars => SpentGone'
<1> SUFFICES ASSUME IInv, SpentGone, OneVerifier, [Next]_vars
             PROVE  SpentGone'
  OBVIOUS
<1>1. CASE UNCHANGED vars
  BY <1>1 DEF vars, SpentGone
<1>2. CASE Tick
  BY <1>2, TickKeepsSpent
<1>3. ASSUME NEW p \in Requests, Start(p) \/ Proceed(p) \/ Abort(p)
      PROVE  SpentGone'
  <2>1. CASE StoreCode(p)
    BY <2>1, StoreCodeKeepsSpent
  <2>2. CASE ReadOtp(p)
    BY <2>2, ReadOtpKeepsSpent
  <2>3. CASE DropRecord(p) \/ CountMiss(p)
    BY <2>3, MissKeepsSpent
  <2>4. CASE Consume(p)
    BY <2>4, ConsumeKeepsSpent
  <2> QED
    BY <1>3, <2>1, <2>2, <2>3, <2>4, SendKeepsSpent DEF Proceed
<1> QED
  BY <1>1, <1>2, <1>3 DEF Next

(* While no two verifications of a key overlap, OtpService.verify accepts a
   code once: compare and delete need not be one step, and requests that send
   new codes, verify other keys, fail or lapse in between do no harm. *)
THEOREM AcceptedOnceApart == Spec /\ []OneVerifier => AcceptedOnce
<1>1. Init => SpentGone
  BY DEF Init, SpentGone
<1>2. SpentGone /\ [Next]_vars =>
        [\A p \in Requests :
           Consume(p) => \A a \in accepted : a.code # req[p].rec.code]_vars
  BY DEF SpentGone, Consume, Answers
<1> QED
  BY <1>1, <1>2, Invariance, StepKeepsSpent, PTL DEF Spec, AcceptedOnce

(* Requests that follow one another never overlap, so a code that was accepted
   is not accepted again. *)
THEOREM AcceptedOnceInSequence ==
  (\A p, q \in Requests : p = q) => (Spec => AcceptedOnce)
<1> SUFFICES ASSUME \A p, q \in Requests : p = q
             PROVE  Spec => AcceptedOnce
  OBVIOUS
<1>1. OneVerifier
  BY DEF OneVerifier
<1> QED
  BY <1>1, AcceptedOnceApart, PTL
=============================================================================
