-------------------------------- MODULE Otp --------------------------------
(***************************************************************************)
(* One-time codes: OtpService.send and verify over the two Redis keys of   *)
(* AuthCacheService, otp:{channel}:{user}:{purpose} (the record of a code) *)
(* and otp:throttle:{channel}:{destination} (a count of sends).            *)
(*                                                                         *)
(* Time is relative: a record has an age and a remaining TTL, and Tick,    *)
(* one unit, moves both.  A code stands for its bcrypt hash; six random    *)
(* digits are taken not to repeat.                                         *)
(***************************************************************************)
EXTENDS Naturals

CONSTANTS Users, Purposes, Channels,
          Destinations,   \* addresses and numbers
          Requests,       \* slots for concurrent requests
          Codes,          \* the codes that can be generated
          SmsConfigured,  \* SmsPort.isConfigured()
          MaxAttempts,    \* OTP_POLICY.maxAttempts
          Cooldown,       \* OTP_POLICY.resendCooldownSeconds
          EmailTtl, SmsTtl, \* OTP_POLICY.emailTtlSeconds, smsTtlSeconds
          MinThrottleTtl, \* the 60 seconds of Math.max(ttl, 60)
          None

(* What a code was generated for. *)
Sending(ch, u, purpose, d) ==
  [purpose |-> purpose, channel |-> ch, user |-> u, dest |-> d]
Sendings == [purpose : Purposes, channel : Channels, user : Users,
             dest : Destinations]

ASSUME OtpAssumption ==
  /\ Channels \subseteq {"email", "sms"}
  /\ SmsConfigured \in BOOLEAN
  /\ MaxAttempts \in Nat \ {0} /\ Cooldown \in Nat
  /\ EmailTtl \in Nat \ {0} /\ SmsTtl \in Nat \ {0} /\ MinThrottleTtl \in Nat
  /\ None \notin Codes \cup Sendings

VARIABLES
  otp,       \* Redis: key -> record of the current code, or None
  throttle,  \* Redis: <<channel, destination>> -> number of sends, 0 if absent
  resting,   \* remaining TTL of that count
  req,       \* the requests in flight: next call, and locals
  sentFor,   \* history: code -> what it was generated for, None if unused
  accepted   \* history: the codes that were answered with success, and where

vars == <<otp, throttle, resting, req, sentFor, accepted>>

Larger(a, b) == IF a > b THEN a ELSE b
Smaller(a, b) == IF a < b THEN a ELSE b

(* Fault: the purpose is left out of the key. *)
OtpKeyOfUser(ch, u, purpose) ==
  [purpose |-> CHOOSE any \in Purposes : TRUE, channel |-> ch, user |-> u]
OtpKey(ch, u, purpose) == [purpose |-> purpose, channel |-> ch, user |-> u]
Keys == [purpose : Purposes, channel : Channels, user : Users]

CodeTtl(ch) == IF ch = "email" THEN EmailTtl ELSE SmsTtl
LongestTtl == Larger(EmailTtl, SmsTtl)
ThrottleTtl(ch) == Larger(CodeTtl(ch), MinThrottleTtl)

(* Ages are counted up to one unit past the longest lifetime. *)
OldestAge == LongestTtl + 1
Records == [dest : Destinations, code : Codes, attempts : 0..MaxAttempts,
            age : 0..OldestAge, ttl : 1..LongestTtl]

Targets == Channels \X Destinations
Places == {"idle", "readThrottle", "cooldown", "store", "count", "mail",
           "readOtp", "drop", "consume", "miss"}
(* for: user and purpose asked for; given: the code presented. *)
Frames == [purpose : Purposes \cup {None}, channel : Channels \cup {None},
           user : Users \cup {None}, dest : Destinations \cup {None},
           at : Places, given : Codes \cup {None}, sends : 0..MaxAttempts,
           rec : Records \cup {None}]
Frame(at, ch, u, purpose, d, c, n, r) ==
  [purpose |-> purpose, channel |-> ch, user |-> u, dest |-> d, at |-> at,
   given |-> c, sends |-> n, rec |-> r]
NoFrame == Frame("idle", None, None, None, None, None, 0, None)
Record(c, d, n, age, ttl) ==
  [dest |-> d, code |-> c, attempts |-> n, age |-> age, ttl |-> ttl]

KeyOf(p) == OtpKey(req[p].channel, req[p].user, req[p].purpose)
TargetOf(p) == <<req[p].channel, req[p].dest>>

Init ==
  /\ otp = [k \in Keys |-> None]
  /\ throttle = [t \in Targets |-> 0] /\ resting = [t \in Targets |-> 0]
  /\ req = [p \in Requests |-> NoFrame]
  /\ sentFor = [c \in Codes |-> None]
  /\ accepted = {}

Move(p, place) == req' = [req EXCEPT ![p].at = place]
Return(p) == req' = [req EXCEPT ![p] = NoFrame]

-----------------------------------------------------------------------------
(* send *)

StartSend(p, ch, u, purpose, d) ==
  /\ req[p].at = "idle"
  /\ req' = [req EXCEPT ![p] =
                Frame("readThrottle", ch, u, purpose, d, None, 0, None)]
  /\ UNCHANGED <<otp, throttle, resting, sentFor, accepted>>

(* Fault: a refused send renews the TTL of the throttle. *)
ReadThrottleRenews(p) ==
  LET t == TargetOf(p) IN
  /\ req[p].at = "readThrottle"
  /\ \/ /\ throttle[t] >= MaxAttempts
        /\ Return(p)
        /\ resting' = [resting EXCEPT ![t] = ThrottleTtl(t[1])]
     \/ /\ throttle[t] < MaxAttempts
        /\ req' = [req EXCEPT ![p].at = "cooldown", ![p].sends = throttle[t]]
        /\ UNCHANGED resting
  /\ UNCHANGED <<otp, throttle, sentFor, accepted>>

ReadThrottle(p) ==
  LET n == throttle[TargetOf(p)] IN
  /\ req[p].at = "readThrottle"
  /\ \/ n >= MaxAttempts /\ Return(p)
     \/ /\ n < MaxAttempts
        /\ req' = [req EXCEPT ![p].at = "cooldown", ![p].sends = n]
  /\ UNCHANGED <<otp, throttle, resting, sentFor, accepted>>

Cooling(r) == r # None /\ r.age < Cooldown

(* An SMS without a provider is refused only after the cooldown check. *)
CheckCooldown(p) ==
  LET refused == \/ Cooling(otp[KeyOf(p)])
                 \/ req[p].channel = "sms" /\ ~SmsConfigured
  IN
  /\ req[p].at = "cooldown"
  /\ IF refused THEN Return(p) ELSE Move(p, "store")
  /\ UNCHANGED <<otp, throttle, resting, sentFor, accepted>>

(* Codes bounds the number of sends; past it a send waits. *)
StoreCode(p) ==
  LET r == req[p] IN
  /\ req[p].at = "store"
  /\ \E c \in Codes :
       /\ sentFor[c] = None
       /\ otp' = [otp EXCEPT ![KeyOf(p)] =
                    Record(c, r.dest, 0, 0, CodeTtl(r.channel))]
       /\ sentFor' = [sentFor EXCEPT ![c] =
                    Sending(r.channel, r.user, r.purpose, r.dest)]
  /\ Move(p, "count")
  /\ UNCHANGED <<throttle, resting, accepted>>

(* Writes the count that was read, plus one, with a full TTL. *)
StoreThrottle(p) ==
  LET t == TargetOf(p) IN
  /\ req[p].at = "count"
  /\ throttle' = [throttle EXCEPT ![t] = req[p].sends + 1]
  /\ resting' = [resting EXCEPT ![t] = ThrottleTtl(t[1])]
  /\ Move(p, "mail")
  /\ UNCHANGED <<otp, sentFor, accepted>>

(* The message goes to the mail queue or to the SMS provider. *)
Deliver(p) ==
  /\ req[p].at = "mail"
  /\ Return(p)
  /\ UNCHANGED <<otp, throttle, resting, sentFor, accepted>>

-----------------------------------------------------------------------------
(* verify *)

StartVerify(p, ch, u, purpose, c) ==
  /\ req[p].at = "idle"
  /\ req' = [req EXCEPT ![p] =
                Frame("readOtp", ch, u, purpose, None, c, 0, None)]
  /\ UNCHANGED <<otp, throttle, resting, sentFor, accepted>>

(* Fault: the check of the attempts admits one more. *)
VerdictLate(r, given) ==
  CASE r.attempts > MaxAttempts -> "drop"
    [] r.attempts <= MaxAttempts /\ given = r.code -> "consume"
    [] OTHER -> "miss"

(* What verify does next is decided by the record it read. *)
Verdict(r, given) ==
  CASE r.attempts >= MaxAttempts -> "drop"
    [] r.attempts < MaxAttempts /\ given = r.code -> "consume"
    [] OTHER -> "miss"

ReadOtp(p) ==
  LET r == otp[KeyOf(p)] IN
  /\ req[p].at = "readOtp"
  /\ \/ r = None /\ Return(p)
     \/ /\ r # None
        /\ req' = [req EXCEPT ![p].at = Verdict(r, req[p].given), ![p].rec = r]
  /\ UNCHANGED <<otp, throttle, resting, sentFor, accepted>>

(* Too many incorrect attempts: the record goes, 429. *)
DropRecord(p) ==
  /\ req[p].at = "drop"
  /\ otp' = [otp EXCEPT ![KeyOf(p)] = None]
  /\ Return(p)
  /\ UNCHANGED <<throttle, resting, sentFor, accepted>>

(* The record that was read is written back with one attempt more and what
   is left of its lifetime, one unit at least. *)
CountMiss(p) ==
  LET r == req[p].rec
      lifetime == CodeTtl(req[p].channel)
      left == IF r.age < lifetime THEN lifetime - r.age ELSE 1
  IN
  /\ req[p].at = "miss"
  /\ otp' = [otp EXCEPT ![KeyOf(p)] =
               Record(r.code, r.dest, r.attempts + 1, r.age, left)]
  /\ Return(p)
  /\ UNCHANGED <<throttle, resting, sentFor, accepted>>

Acceptance(p) ==
  LET r == req[p] IN
  [code |-> r.rec.code, as |-> Sending(r.channel, r.user, r.purpose, r.rec.dest)]

(* Fault: an accepted code stays. *)
AcceptOnly(p) ==
  /\ req[p].at = "consume"
  /\ accepted' = accepted \cup {Acceptance(p)}
  /\ Return(p)
  /\ UNCHANGED <<otp, throttle, resting, sentFor>>

Consume(p) ==
  /\ req[p].at = "consume"
  /\ otp' = [otp EXCEPT ![KeyOf(p)] = None]
  /\ accepted' = accepted \cup {Acceptance(p)}
  /\ Return(p)
  /\ UNCHANGED <<throttle, resting, sentFor>>

-----------------------------------------------------------------------------

(* A storage error, a refusing provider or a lost process. *)
Abort(p) ==
  /\ req[p].at # "idle"
  /\ Return(p)
  /\ UNCHANGED <<otp, throttle, resting, sentFor, accepted>>

Aged(r, ttl) ==
  Record(r.code, r.dest, r.attempts, Smaller(r.age + 1, OldestAge), ttl)
Lapse(r) == IF r = None THEN None
            ELSE IF r.ttl = 1 THEN None ELSE Aged(r, r.ttl - 1)

(* One unit of time: keys whose TTL is over are gone, records age, those a
   request holds included. *)
Tick ==
  /\ otp' = [k \in Keys |-> Lapse(otp[k])]
  /\ resting' = [t \in Targets |-> IF resting[t] = 0 THEN 0 ELSE resting[t] - 1]
  /\ throttle' = [t \in Targets |-> IF resting[t] <= 1 THEN 0 ELSE throttle[t]]
  /\ req' = [p \in Requests |-> IF req[p].rec = None THEN req[p]
                                ELSE [req[p] EXCEPT !.rec = Aged(@, @.ttl)]]
  /\ UNCHANGED <<sentFor, accepted>>

Start(p) ==
  \E ch \in Channels, u \in Users, purpose \in Purposes :
    \/ \E d \in Destinations : StartSend(p, ch, u, purpose, d)
    \/ \E c \in Codes \cup {None} : StartVerify(p, ch, u, purpose, c)

Proceed(p) ==
  \/ ReadThrottle(p) \/ CheckCooldown(p) \/ StoreCode(p) \/ StoreThrottle(p)
  \/ Deliver(p) \/ ReadOtp(p) \/ DropRecord(p) \/ CountMiss(p) \/ Consume(p)

Next == Tick \/ \E p \in Requests : Start(p) \/ Proceed(p) \/ Abort(p)

Spec == Init /\ [][Next]_vars

(* Time passes. *)
FairSpec == Spec /\ WF_vars(Tick)

-----------------------------------------------------------------------------
(* Every variable holds a value of its kind: no count passes the maximum and
   no TTL the lifetime of a code. *)
TypeOK ==
  /\ otp \in [Keys -> Records \cup {None}]
  /\ throttle \in [Targets -> 0..MaxAttempts]
  /\ resting \in [Targets -> 0..Larger(LongestTtl, MinThrottleTtl)]
  /\ req \in [Requests -> Frames]
  /\ sentFor \in [Codes -> Sendings \cup {None}]
  /\ accepted \subseteq [code : Codes, as : Sendings]

(* A code is accepted for the channel, user and purpose it was generated for
   only, and the destination verify returns is the one it was sent to, also
   when records are written back late or overwritten. *)
AcceptedAsSent == \A a \in accepted : sentFor[a.code] = a.as

(* Requests that follow one another: an accepted code is not accepted again,
   though requests fail between comparing and deleting. *)
AcceptedOnce ==
  [][\A p \in Requests :
       Consume(p) => \A a \in accepted : a.code # req[p].rec.code]_vars

(* A destination that has its maximum of sends may send again some day,
   though refused sends keep coming. *)
ThrottleClears ==
  \A t \in Targets : throttle[t] >= MaxAttempts ~> throttle[t] < MaxAttempts
=============================================================================
