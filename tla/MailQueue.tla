----------------------------- MODULE MailQueue -----------------------------
(***************************************************************************)
(* Mail and SMS: QueuedMailerService and QueuedSmsService add a job and    *)
(* return; MailProcessor and SmsProcessor take it and call MailerService   *)
(* or TwilioSmsService; an error makes BullMQ try again, five times, with  *)
(* exponential backoff.                                                    *)
(*                                                                         *)
(* BullMQ is external: one job at a time per worker, and a job whose       *)
(* process was lost is found stalled and queued again, once.  A unit of    *)
(* time is the delay of the first backoff, 5 seconds.                      *)
(***************************************************************************)
EXTENDS Naturals

CONSTANTS Messages,
          Sms,          \* the messages that go by SMS, the others by mail
          Workers,      \* processes, each with a worker for either queue
          Configured,   \* TwilioSmsService.isConfigured()
          Attempts,     \* defaultJobOptions.attempts
          StallTime,    \* until BullMQ finds a job stalled
          None

ASSUME QueueAssumption ==
  /\ Sms \subseteq Messages /\ Configured \in BOOLEAN
  /\ Attempts \in Nat \ {0} /\ StallTime \in Nat \ {0}
  /\ None \notin Workers

VARIABLES
  at,        \* message -> where its job is
  worker,    \* message -> the process that runs its job, None if not active
  made,      \* message -> attemptsMade
  stalls,    \* message -> how often it was found stalled
  due,       \* message -> units of time until it may run again
  since,     \* message -> units of time since its first attempt failed
  accepted   \* history: message -> how often a provider took it

vars == <<at, worker, made, stalls, due, since, accepted>>

(* Fault: the backoff is "fixed". *)
FixedBackoff(n) == 1
(* delay * 2 ^ (attemptsMade - 1) *)
Backoff(n) == 2 ^ (n - 1)

MaxStalls == 1
Rest == {"waiting", "delayed", "stalled"}
Places == {"none", "active", "completed", "failed"} \cup Rest
Unfinished(m) == at[m] \in Rest \cup {"active"}
(* The backoffs of all attempts together; no longer time is told apart. *)
AllBackoffs == 2 ^ (Attempts - 1) - 1
Smaller(a, b) == IF a < b THEN a ELSE b

Init ==
  /\ at = [m \in Messages |-> "none"]
  /\ worker = [m \in Messages |-> None]
  /\ made = [m \in Messages |-> 0] /\ stalls = [m \in Messages |-> 0]
  /\ due = [m \in Messages |-> 0] /\ since = [m \in Messages |-> 0]
  /\ accepted = [m \in Messages |-> 0]

(* send: one job for the message; what the caller does next does not wait. *)
Send(m) ==
  /\ at[m] = "none"
  /\ at' = [at EXCEPT ![m] = "waiting"]
  /\ UNCHANGED <<worker, made, stalls, due, since, accepted>>

Free(w, m) ==
  \A n \in Messages : worker[n] = w => (n \in Sms <=> m \notin Sms)
(* Fault: delayed and stalled jobs are never queued again. *)
ReadyNew(m) == at[m] = "waiting" /\ due[m] = 0
Ready(m) == at[m] \in Rest /\ due[m] = 0

(* A worker takes a job whose delay is over. *)
Take(w, m) ==
  /\ Ready(m) /\ Free(w, m)
  /\ at' = [at EXCEPT ![m] = "active"]
  /\ worker' = [worker EXCEPT ![m] = w]
  /\ UNCHANGED <<made, stalls, due, since, accepted>>

(* The provider can be reached only when it is configured. *)
Reachable(m) == m \notin Sms \/ Configured
Taken(m) == accepted' = [accepted EXCEPT ![m] = @ + 1]

Complete(m) ==
  /\ at' = [at EXCEPT ![m] = "completed"]
  /\ worker' = [worker EXCEPT ![m] = None]
  /\ UNCHANGED <<made, stalls, due, since>>

(* Fault: process logs the error and returns. *)
Swallow(m) ==
  /\ at[m] = "active"
  /\ Taken(m) \/ UNCHANGED accepted
  /\ Complete(m)

(* process returns: the job is completed. *)
Deliver(m) ==
  /\ at[m] = "active" /\ Reachable(m)
  /\ Taken(m) /\ Complete(m)

(* Fault: one attempt too many. *)
ThrowLate(m) ==
  LET n == made[m] + 1 IN
  /\ at[m] = "active"
  /\ worker' = [worker EXCEPT ![m] = None]
  /\ made' = [made EXCEPT ![m] = n]
  /\ \/ /\ n <= Attempts
        /\ at' = [at EXCEPT ![m] = "delayed"]
        /\ due' = [due EXCEPT ![m] = Backoff(n)]
     \/ /\ n > Attempts
        /\ at' = [at EXCEPT ![m] = "failed"]
        /\ UNCHANGED due
  /\ (Reachable(m) /\ Taken(m)) \/ UNCHANGED accepted
  /\ UNCHANGED <<stalls, since>>

(* process throws: the provider refused, could not be reached, or took the
   message and its answer was lost.  Another attempt, or none is left. *)
Throw(m) ==
  LET n == made[m] + 1 IN
  /\ at[m] = "active"
  /\ worker' = [worker EXCEPT ![m] = None]
  /\ made' = [made EXCEPT ![m] = n]
  /\ \/ /\ n < Attempts
        /\ at' = [at EXCEPT ![m] = "delayed"]
        /\ due' = [due EXCEPT ![m] = Backoff(n)]
     \/ /\ n >= Attempts
        /\ at' = [at EXCEPT ![m] = "failed"]
        /\ UNCHANGED due
  /\ (Reachable(m) /\ Taken(m)) \/ UNCHANGED accepted
  /\ UNCHANGED <<stalls, since>>

(* The process is lost with the jobs it runs, sent or not.  The second time
   a job is found stalled it is given up. *)
Lose(w) ==
  LET lost == {m \in Messages : worker[m] = w} IN
  /\ lost # {}
  /\ at' = [m \in Messages |->
              IF m \notin lost THEN at[m]
              ELSE IF stalls[m] < MaxStalls THEN "stalled" ELSE "failed"]
  /\ worker' = [m \in Messages |-> IF m \in lost THEN None ELSE worker[m]]
  /\ stalls' = [m \in Messages |-> IF m \in lost THEN stalls[m] + 1 ELSE stalls[m]]
  /\ due' = [m \in Messages |->
               IF m \in lost /\ stalls[m] < MaxStalls THEN StallTime ELSE due[m]]
  /\ \E sent \in SUBSET {m \in lost : Reachable(m)} :
       accepted' = [m \in Messages |-> accepted[m] + (IF m \in sent THEN 1 ELSE 0)]
  /\ UNCHANGED <<made, since>>

(* One unit of time, also while an attempt is under way, for which the code
   sets no timeout, and while a job that is ready waits for a worker. *)
Tick ==
  /\ due' = [m \in Messages |-> IF due[m] = 0 THEN 0 ELSE due[m] - 1]
  /\ since' = [m \in Messages |->
                 IF Unfinished(m) /\ made[m] > 0
                   THEN Smaller(since[m] + 1, AllBackoffs) ELSE since[m]]
  /\ UNCHANGED <<at, worker, made, stalls, accepted>>

Next ==
  \/ \E m \in Messages : \/ Send(m) \/ Deliver(m) \/ Throw(m)
                         \/ \E w \in Workers : Take(w, m)
  \/ \E w \in Workers : Lose(w)
  \/ Tick

Spec == Init /\ [][Next]_vars

(* Time passes, workers take what is ready and come to an end with it. *)
FairSpec ==
  /\ Spec /\ WF_vars(Tick)
  /\ \A m \in Messages : /\ WF_vars(\E w \in Workers : Take(w, m))
                         /\ WF_vars(Deliver(m) \/ Throw(m))

-----------------------------------------------------------------------------
(* Every variable holds a value of its kind: no job is tried more often than
   the options say, and only an active job has a worker. *)
TypeOK ==
  /\ at \in [Messages -> Places]
  /\ worker \in [Messages -> Workers \cup {None}]
  /\ \A m \in Messages : worker[m] # None <=> at[m] = "active"
  /\ made \in [Messages -> 0..Attempts]
  /\ stalls \in [Messages -> 0..(MaxStalls + 1)]
  /\ due \in [Messages -> Nat] /\ since \in [Messages -> 0..AllBackoffs]
  /\ accepted \in [Messages -> 0..(Attempts + MaxStalls + 1)]

(* A job is completed only when a provider took its message, and no job takes
   it more often than there were errors and lost processes, and once more. *)
CompletedWasTaken ==
  \A m \in Messages :
    /\ at[m] = "completed" => accepted[m] > 0
    /\ accepted[m] <= made[m] + stalls[m] + (IF at[m] = "completed" THEN 1 ELSE 0)

(* An outage shorter than all backoffs together, 75 s in the code, loses no
   message: one that is given up for errors was failed by its provider over at
   least that time, whatever other jobs and lost processes delay its attempts. *)
OutageOutlasted ==
  \A m \in Messages :
    at[m] = "failed" /\ stalls[m] <= MaxStalls => since[m] = AllBackoffs

(* Every message is delivered or given up in the end. *)
EveryJobEnds == \A m \in Messages : at[m] = "waiting" ~> ~Unfinished(m)
=============================================================================
