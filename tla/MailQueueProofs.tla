--------------------------- MODULE MailQueueProofs ---------------------------
(* Proofs about the queues, for any number of messages and workers and any
   number of attempts: a completed job was taken by a provider, no message is
   taken more often than its errors and lost processes account for, and none is
   given up for errors before all backoffs are over. *)
EXTENDS MailQueue, FiniteSetTheorems, TLAPS

USE QueueAssumption

(* The counters count, and a job that is not given up has attempts and a stall
   left. *)
Counted ==
  /\ at \in [Messages -> Places] /\ worker \in [Messages -> Workers \cup {None}]
  /\ made \in [Messages -> Nat] /\ stalls \in [Messages -> Nat]
  /\ accepted \in [Messages -> Nat]
  /\ \A m \in Messages :
       /\ worker[m] # None => at[m] = "active"
       /\ at[m] # "failed" => made[m] < Attempts /\ stalls[m] <= MaxStalls
       /\ made[m] <= Attempts /\ made[m] + stalls[m] <= Attempts + MaxStalls

(* The inductive invariant. *)
IInv == Counted /\ CompletedWasTaken

(* Nothing is queued at first. *)
LEMMA Initially == Init => IInv
BY DEF Init, IInv, Counted, CompletedWasTaken, Places, Rest, MaxStalls

(* A message is queued or taken up by a worker: no counter moves. *)
LEMMA QueueSteps ==
  ASSUME IInv, NEW m \in Messages, Send(m) \/ \E w \in Workers : Take(w, m)
  PROVE  IInv'
<1>1. CASE Send(m)
  BY <1>1 DEF Send, IInv, Counted, CompletedWasTaken, Places, Rest
<1>2. ASSUME NEW w \in Workers, Take(w, m) PROVE IInv'
  BY <1>2 DEF Take, Ready, IInv, Counted, CompletedWasTaken, Places, Rest
<1> QED
  BY <1>1, <1>2

(* A provider takes the message and the job is completed. *)
LEMMA DeliverStep ==
  ASSUME IInv, NEW m \in Messages, Deliver(m)
  PROVE  IInv'
BY DEF Deliver, Taken, Complete, IInv, Counted, CompletedWasTaken, Places, Rest

(* An attempt fails: it accounts for a message that was taken all the same. *)
LEMMA ThrowStep ==
  ASSUME IInv, NEW m \in Messages, Throw(m)
  PROVE  IInv'
<1>1. /\ at[m] = "active" /\ made' = [made EXCEPT ![m] = @ + 1]
      /\ worker' = [worker EXCEPT ![m] = None] /\ stalls' = stalls
      /\ accepted' \in {accepted, [accepted EXCEPT ![m] = @ + 1]}
      /\ \/ made[m] + 1 < Attempts /\ at' = [at EXCEPT ![m] = "delayed"]
         \/ at' = [at EXCEPT ![m] = "failed"]
  BY DEF Throw, Taken
<1>2. Counted'
  BY <1>1 DEF IInv, Counted, Places, Rest, MaxStalls
<1>3. CompletedWasTaken'
  BY <1>1 DEF IInv, Counted, CompletedWasTaken
<1> QED
  BY <1>2, <1>3 DEF IInv

(* A process is lost: every job it ran was found stalled once more, and that
   accounts for its message. *)
LEMMA LoseStep ==
  ASSUME IInv, NEW w \in Workers, Lose(w)
  PROVE  IInv'
<1> DEFINE lost == {m \in Messages : worker[m] = w}
<1>1. PICK sent \in SUBSET {m \in lost : Reachable(m)} :
        accepted' = [m \in Messages |-> accepted[m] + (IF m \in sent THEN 1 ELSE 0)]
  BY DEF Lose
<1>2. \A m \in lost : m \in Messages /\ at[m] = "active"
  BY DEF IInv, Counted
<1>3. /\ made' = made
      /\ at' = [m \in Messages |->
                  IF m \notin lost THEN at[m]
                  ELSE IF stalls[m] < MaxStalls THEN "stalled" ELSE "failed"]
      /\ worker' = [m \in Messages |-> IF m \in lost THEN None ELSE worker[m]]
      /\ stalls' = [m \in Messages |-> IF m \in lost THEN stalls[m] + 1 ELSE stalls[m]]
  BY DEF Lose
<1> HIDE DEF lost
<1>4. Counted'
  BY <1>1, <1>2, <1>3 DEF IInv, Counted, Places, Rest, MaxStalls
<1>5. CompletedWasTaken'
  BY <1>1, <1>2, <1>3 DEF IInv, Counted, CompletedWasTaken
<1> QED
  BY <1>4, <1>5 DEF IInv

(* Every step keeps the invariant. *)
LEMMA StepPreserves == IInv /\ [Next]_vars => IInv'
<1> SUFFICES ASSUME IInv, [Next]_vars
             PROVE  IInv'
  OBVIOUS
<1>1. CASE Tick \/ UNCHANGED vars
  BY <1>1 DEF Tick, vars, IInv, Counted, CompletedWasTaken
<1> QED
  BY <1>1, QueueSteps, DeliverStep, ThrowStep, LoseStep DEF Next

(* A job is never completed unless a provider took its message, and never
   takes it more often than errors and lost processes account for. *)
THEOREM JobsAccounted == Spec => []CompletedWasTaken
<1>1. Spec => []IInv
  BY Initially, StepPreserves, PTL DEF Spec
<1>2. IInv => CompletedWasTaken
  BY DEF IInv
<1> QED
  BY <1>1, <1>2, PTL

(* No job is tried more often than its options say, and a provider takes no
   message more often than there are attempts and tolerated stalls. *)
THEOREM AttemptsBounded ==
  Spec => [](\A m \in Messages : /\ made[m] <= Attempts
                                 /\ accepted[m] <= Attempts + MaxStalls)
<1>1. Spec => []IInv
  BY Initially, StepPreserves, PTL DEF Spec
<1>2. IInv => \A m \in Messages : /\ made[m] <= Attempts
                                  /\ accepted[m] <= Attempts + MaxStalls
  <2> SUFFICES ASSUME IInv, NEW m \in Messages
               PROVE  made[m] <= Attempts /\ accepted[m] <= Attempts + MaxStalls
    OBVIOUS
  <2> QED
    BY DEF IInv, Counted, CompletedWasTaken, MaxStalls
<1> QED
  BY <1>1, <1>2, PTL

-----------------------------------------------------------------------------
(* Time.  The exponential backoff needs the powers of two. *)

(* A power of two is the number of subsets of an interval: a natural number
   that is not 0. *)
LEMMA PowerCounts == \A n \in Nat : 2 ^ n \in Nat \ {0}
<1> SUFFICES ASSUME NEW n \in Nat PROVE 2 ^ n \in Nat \ {0}
  OBVIOUS
<1>1. IsFiniteSet(1..n) /\ Cardinality(1..n) = n
  BY FS_Interval
<1>2. IsFiniteSet(SUBSET (1..n)) /\ Cardinality(SUBSET (1..n)) = 2 ^ n
  BY <1>1, FS_SUBSET
<1>3. SUBSET (1..n) # {}
  OBVIOUS
<1> QED
  BY <1>2, <1>3, FS_CardinalityType, FS_EmptySet

(* A backoff is twice the one before it: half of the subsets of 1..(n + 1)
   have n + 1 in them. *)
LEMMA PowerDoubles == \A n \in Nat : 2 ^ (n + 1) = 2 * 2 ^ n
<1> SUFFICES ASSUME NEW n \in Nat PROVE 2 ^ (n + 1) = 2 * 2 ^ n
  OBVIOUS
<1> DEFINE Old == SUBSET (1..n)
           All == SUBSET (1..(n + 1))
           New == All \ Old
           add == [X \in Old |-> X \cup {n + 1}]
<1>1. /\ IsFiniteSet(Old) /\ Cardinality(Old) = 2 ^ n
      /\ IsFiniteSet(All) /\ Cardinality(All) = 2 ^ (n + 1)
  <2>1. /\ IsFiniteSet(1..n) /\ Cardinality(1..n) = n
        /\ IsFiniteSet(1..(n + 1)) /\ Cardinality(1..(n + 1)) = n + 1
    BY FS_Interval
  <2> QED
    BY <2>1, FS_SUBSET
<1>2. add \in Bijection(Old, New)
  <2>1. add \in [Old -> New]
    OBVIOUS
  <2>2. ASSUME NEW X \in Old, NEW Y \in Old, add[X] = add[Y] PROVE X = Y
    BY <2>2
  <2>3. ASSUME NEW Z \in New PROVE \E X \in Old : add[X] = Z
    <3>1. n + 1 \in Z /\ Z \ {n + 1} \in Old
      OBVIOUS
    <3>2. Z = (Z \ {n + 1}) \cup {n + 1}
      BY <3>1
    <3> QED
      BY <3>1, <3>2
  <2> HIDE DEF add, New, Old
  <2> QED
    BY <2>1, <2>2, <2>3 DEF Bijection, Injection, Surjection, IsInjective
<1>3. IsFiniteSet(New) /\ Cardinality(New) = 2 ^ n
  <2> HIDE DEF add, Old, New
  <2> QED
    BY <1>1, <1>2, FS_Bijection DEF ExistsBijection
<1>4. All = Old \cup New /\ Old \cap New = {}
  OBVIOUS
<1>5. 2 ^ n \in Nat
  BY PowerCounts
<1> HIDE DEF Old, All, New, add
<1>6. Cardinality(All) =
        Cardinality(Old) + Cardinality(New) - Cardinality(Old \cap New)
  BY <1>1, <1>3, <1>4, FS_Union
<1>7. Cardinality(Old \cap New) = 0
  BY <1>4, FS_EmptySet
<1> QED
  BY <1>1, <1>3, <1>5, <1>6, <1>7

(* What a message has waited since its first error, and what it has still to
   wait, make up the backoffs of its errors so far, unless that is more time
   than is told apart. *)
Waited(m) == since[m] = AllBackoffs \/ since[m] + due[m] >= 2 ^ made[m] - 1
Clocked ==
  /\ due \in [Messages -> Nat] /\ since \in [Messages -> 0..AllBackoffs]
  /\ \A m \in Messages : /\ worker[m] # None <=> at[m] = "active"
                         /\ stalls[m] <= MaxStalls + 1
                         /\ at[m] = "active" => due[m] = 0
                         /\ at[m] = "none" => made[m] = 0
                         /\ Unfinished(m) => Waited(m)

(* The inductive invariant with time. *)
TInv == IInv /\ Clocked /\ OutageOutlasted

(* The backoff after error n is 2^(n - 1), and makes 2^n of it. *)
LEMMA BackoffAdds ==
  ASSUME NEW n \in Nat
  PROVE  2 ^ n \in Nat \ {0} /\ Backoff(n + 1) = 2 ^ n /\ 2 ^ (n + 1) = 2 ^ n + Backoff(n + 1)
<1>1. 2 ^ n \in Nat \ {0} /\ 2 ^ (n + 1) = 2 * 2 ^ n
  BY PowerCounts, PowerDoubles
<1>2. (n + 1) - 1 = n
  OBVIOUS
<1>3. Backoff(n + 1) = 2 ^ n
  BY <1>2 DEF Backoff
<1> QED
  BY <1>1, <1>3

(* There is an attempt, so the sum of the backoffs is a number. *)
LEMMA BackoffsCount == AllBackoffs \in Nat /\ 2 ^ 0 = 1
<1>1. Attempts - 1 \in Nat
  OBVIOUS
<1>2. 2 ^ (Attempts - 1) \in Nat \ {0}
  BY <1>1, PowerCounts
<1>3. Cardinality(1..0) = 0 /\ IsFiniteSet(1..0)
  BY FS_Interval
<1>4. Cardinality(SUBSET (1..0)) = 2 ^ 0
  BY <1>3, FS_SUBSET
<1>5. SUBSET (1..0) = {{}}
  OBVIOUS
<1>6. 2 ^ 0 = 1
  BY <1>4, <1>5, FS_Singleton
<1> QED
  BY <1>2, <1>6 DEF AllBackoffs

(* Nothing has waited at first, and nothing has to. *)
LEMMA InitiallyWaited == Init => TInv
<1> SUFFICES ASSUME Init
             PROVE  TInv
  OBVIOUS
<1>1. Clocked /\ OutageOutlasted
  BY BackoffsCount DEF Init, Clocked, OutageOutlasted, MaxStalls, Unfinished, Rest
<1> QED
  BY <1>1, Initially DEF TInv

(* A worker takes a job whose delay is over. *)
LEMMA QueueWaited ==
  ASSUME TInv, NEW m \in Messages,
         Send(m) \/ Deliver(m) \/ \E w \in Workers : Take(w, m)
  PROVE  Clocked' /\ OutageOutlasted'
<1>1. \A n \in Messages : at'[n] = "failed" => at[n] = "failed"
  BY DEF Send, Deliver, Complete, Take, TInv, IInv, Counted
<1>2. UNCHANGED <<made, stalls, due, since>>
  BY DEF Send, Deliver, Complete, Take
<1>3. OutageOutlasted'
  BY <1>1, <1>2 DEF TInv, OutageOutlasted
<1>4. ASSUME NEW n \in Messages, Unfinished(n)' PROVE Waited(n)'
  <2>1. CASE Unfinished(n)
    BY <1>2, <2>1 DEF TInv, Clocked, Waited
  <2>2. CASE ~Unfinished(n)
    <3>1. at[n] = "none"
      BY <1>4, <2>2 DEF Send, Deliver, Complete, Take, Ready, Rest, Unfinished,
                        TInv, IInv, Counted
    <3>2. made[n] = 0 /\ since[n] \in Nat /\ due[n] \in Nat
      BY <3>1, BackoffsCount DEF TInv, Clocked
    <3> QED
      BY <1>2, <3>2, BackoffsCount DEF Waited
  <2> QED
    BY <2>1, <2>2
<1>5. \A n \in Messages : /\ worker'[n] # None <=> at'[n] = "active"
                          /\ at'[n] = "active" => due'[n] = 0
                          /\ at'[n] = "none" => made'[n] = 0
  BY <1>2 DEF Send, Deliver, Complete, Take, Ready, TInv, IInv, Counted, Clocked
<1> QED
  BY <1>2, <1>3, <1>4, <1>5 DEF TInv, Clocked

(* An error adds its backoff; the last one comes when all are over. *)
LEMMA ThrowWaited ==
  ASSUME TInv, NEW m \in Messages, Throw(m)
  PROVE  Clocked' /\ OutageOutlasted'
<1> DEFINE n == made[m] + 1
<1>1. /\ at[m] = "active" /\ made' = [made EXCEPT ![m] = n]
      /\ worker' = [worker EXCEPT ![m] = None] /\ UNCHANGED <<stalls, since>>
      /\ \/ /\ n < Attempts /\ at' = [at EXCEPT ![m] = "delayed"]
            /\ due' = [due EXCEPT ![m] = Backoff(n)]
         \/ n >= Attempts /\ at' = [at EXCEPT ![m] = "failed"] /\ due' = due
  BY DEF Throw
<1>2. /\ made[m] \in Nat /\ made[m] < Attempts
      /\ made \in [Messages -> Nat] /\ at \in [Messages -> Places]
      /\ worker \in [Messages -> Workers \cup {None}]
      /\ due \in [Messages -> Nat] /\ since[m] \in 0..AllBackoffs
  BY <1>1 DEF TInv, IInv, Counted, Clocked
<1>3. /\ 2 ^ made[m] \in Nat \ {0} /\ Backoff(n) = 2 ^ made[m]
      /\ 2 ^ n = 2 ^ made[m] + Backoff(n)
  BY <1>2, BackoffAdds
<1>4. since[m] = AllBackoffs \/ since[m] >= 2 ^ made[m] - 1
  <2>1. Waited(m) /\ due[m] = 0
    BY <1>1 DEF TInv, Clocked, Unfinished
  <2> QED
    BY <1>2, <1>3, <2>1, BackoffsCount DEF Waited
<1>5. at'[m] = "failed" => since[m] = AllBackoffs
  <2>1. SUFFICES ASSUME at'[m] = "failed"
                 PROVE  since[m] = AllBackoffs
    OBVIOUS
  <2>2. made[m] = Attempts - 1
    BY <1>1, <1>2, <2>1
  <2>3. since[m] = AllBackoffs \/ since[m] >= AllBackoffs
    BY <1>4, <2>2 DEF AllBackoffs
  <2> QED
    BY <1>2, <2>3, BackoffsCount
<1> HIDE DEF n
<1>6. OutageOutlasted'
  BY <1>1, <1>2, <1>5 DEF TInv, OutageOutlasted
<1>7. Unfinished(m)' => Waited(m)'
  BY <1>1, <1>2, <1>3, <1>4, BackoffsCount DEF Waited, Unfinished, Rest
<1>8. \A k \in Messages : k # m /\ Unfinished(k)' => Waited(k)'
  BY <1>1, <1>2 DEF TInv, Clocked, Waited, Unfinished
<1>9. due' \in [Messages -> Nat]
  BY <1>1, <1>2, <1>3
<1> QED
  BY <1>1, <1>2, <1>6, <1>7, <1>8, <1>9 DEF TInv, Clocked

(* A lost process makes its jobs wait the longer. *)
LEMMA LoseWaited ==
  ASSUME TInv, NEW w \in Workers, Lose(w)
  PROVE  Clocked' /\ OutageOutlasted'
<1> DEFINE lost == {m \in Messages : worker[m] = w}
<1>1. \A m \in lost : m \in Messages /\ at[m] = "active" /\ due[m] = 0
  BY DEF TInv, IInv, Counted, Clocked
<1>2. /\ made' = made /\ since' = since
      /\ at' = [m \in Messages |->
                  IF m \notin lost THEN at[m]
                  ELSE IF stalls[m] < MaxStalls THEN "stalled" ELSE "failed"]
      /\ worker' = [m \in Messages |-> IF m \in lost THEN None ELSE worker[m]]
      /\ stalls' = [m \in Messages |-> IF m \in lost THEN stalls[m] + 1 ELSE stalls[m]]
      /\ due' = [m \in Messages |->
                   IF m \in lost /\ stalls[m] < MaxStalls THEN StallTime ELSE due[m]]
  BY DEF Lose
<1>3. \A m \in Messages : worker[m] = w <=> m \in lost
  OBVIOUS
<1> HIDE DEF lost
<1>4. OutageOutlasted'
  <2> SUFFICES ASSUME NEW m \in Messages, at'[m] = "failed", stalls'[m] <= MaxStalls
               PROVE  since'[m] = AllBackoffs
    BY DEF OutageOutlasted
  <2>1. m \notin lost
    BY <1>1, <1>2 DEF TInv, IInv, Counted, MaxStalls
  <2> QED
    BY <1>2, <2>1 DEF TInv, OutageOutlasted
<1>5. ASSUME NEW m \in Messages, Unfinished(m)' PROVE Waited(m)'
  <2>1. Waited(m) /\ due[m] \in Nat /\ due'[m] \in Nat /\ due'[m] >= due[m]
    BY <1>1, <1>2, <1>5 DEF TInv, Clocked, Unfinished
  <2>2. since[m] \in Nat /\ 2 ^ made[m] \in Nat
    BY BackoffsCount, PowerCounts DEF TInv, IInv, Counted, Clocked
  <2> QED
    BY <1>2, <2>1, <2>2 DEF Waited
<1>6. /\ due' \in [Messages -> Nat] /\ since' \in [Messages -> 0..AllBackoffs]
      /\ \A m \in Messages : /\ worker'[m] # None <=> at'[m] = "active"
                             /\ stalls'[m] <= MaxStalls + 1
                             /\ at'[m] = "active" => due'[m] = 0
                             /\ at'[m] = "none" => made'[m] = 0
  BY <1>1, <1>2, <1>3 DEF TInv, Clocked, IInv, Counted, MaxStalls
<1> QED
  BY <1>4, <1>5, <1>6 DEF Clocked

(* Time turns what is still to wait into what was waited. *)
LEMMA TickWaited ==
  ASSUME TInv, Tick
  PROVE  Clocked' /\ OutageOutlasted'
<1>1. /\ due' = [m \in Messages |-> IF due[m] = 0 THEN 0 ELSE due[m] - 1]
      /\ since' = [m \in Messages |->
                     IF Unfinished(m) /\ made[m] > 0
                       THEN Smaller(since[m] + 1, AllBackoffs) ELSE since[m]]
      /\ UNCHANGED <<at, worker, made, stalls>>
  BY DEF Tick
<1>2. ASSUME NEW m \in Messages
      PROVE  /\ due[m] \in Nat /\ since[m] \in 0..AllBackoffs /\ made[m] \in Nat
             /\ 2 ^ made[m] \in Nat
  BY PowerCounts DEF TInv, IInv, Counted, Clocked
<1>3. /\ due' \in [Messages -> Nat]
      /\ since' \in [Messages -> 0..AllBackoffs]
  BY <1>1, <1>2, BackoffsCount DEF Smaller
<1>4. OutageOutlasted'
  BY <1>1 DEF TInv, OutageOutlasted, Unfinished, Rest
<1>5. ASSUME NEW m \in Messages, Unfinished(m) PROVE Waited(m)'
  <2>1. Waited(m)
    BY <1>5 DEF TInv, Clocked
  <2>2. CASE Unfinished(m) /\ made[m] > 0
    BY <1>1, <1>2, <2>1, <2>2, BackoffsCount DEF Waited, Smaller
  <2>3. CASE made[m] = 0
    <3>1. 2 ^ made'[m] - 1 = 0
      BY <1>1, <2>3, BackoffsCount
    <3>2. since'[m] \in Nat /\ due'[m] \in Nat
      BY <1>3, BackoffsCount
    <3> QED
      BY <3>1, <3>2 DEF Waited
  <2>4. made[m] > 0 \/ made[m] = 0
    BY <1>2
  <2> QED
    BY <1>5, <2>2, <2>3, <2>4
<1> QED
  BY <1>1, <1>3, <1>4, <1>5 DEF TInv, Clocked, Unfinished

(* Every step keeps the invariant. *)
LEMMA StepWaited == TInv /\ [Next]_vars => TInv'
<1> SUFFICES ASSUME TInv, [Next]_vars
             PROVE  TInv'
  OBVIOUS
<1>1. IInv'
  BY StepPreserves DEF TInv
<1>2. Clocked' /\ OutageOutlasted'
  <2>1. CASE UNCHANGED vars
    BY <2>1 DEF vars, TInv, Clocked, Waited, Unfinished, OutageOutlasted
  <2> QED
    BY <2>1, QueueWaited, ThrowWaited, LoseWaited, TickWaited DEF Next
<1> QED
  BY <1>1, <1>2 DEF TInv

(* So it always holds. *)
LEMMA AlwaysWaited == Spec => []TInv
BY InitiallyWaited, StepWaited, PTL DEF Spec

(* Every variable of MailQueue keeps a value of its kind. *)
THEOREM TypeCorrect == Spec => []TypeOK
<1>1. TInv => TypeOK
  <2> SUFFICES ASSUME TInv
               PROVE  TypeOK
    OBVIOUS
  <2>1. ASSUME NEW m \in Messages
        PROVE  /\ made[m] \in 0..Attempts /\ stalls[m] \in 0..(MaxStalls + 1)
               /\ accepted[m] \in 0..(Attempts + MaxStalls + 1)
    BY DEF TInv, IInv, Counted, CompletedWasTaken, Clocked, MaxStalls
  <2> QED
    BY <2>1 DEF TypeOK, TInv, IInv, Counted, Clocked
<1> QED
  BY AlwaysWaited, <1>1, PTL

(* No outage shorter than all backoffs together loses a message, for any
   number of attempts and with any backlog, slow attempts and lost processes:
   a job is not given up for errors before that time has passed since its
   first one. *)
THEOREM ShortOutagesLoseNothing == Spec => []OutageOutlasted
<1>1. TInv => OutageOutlasted
  BY DEF TInv
<1> QED
  BY AlwaysWaited, <1>1, PTL
=============================================================================
