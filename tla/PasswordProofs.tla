--------------------------- MODULE PasswordProofs ---------------------------
(***************************************************************************)
(* Proofs about PasswordFlows: the composed system implements Sessions, so *)
(* every theorem of SessionsProofs holds of it, and a replaced password    *)
(* ends the sessions held under the old one.                               *)
(***************************************************************************)
EXTENDS PasswordFlows, SessionsProofs

(* What the locals of a handler mean, by where it stands. *)
FlowOK(p) ==
  LET f == flow[p] IN
  /\ f.at \notin {"idle", "readLink"} => f.user \in Users
  /\ f.at \in {"check", "recordFail"} => f.count < MaxFails
  /\ f.at \in {"compare", "readLink", "update"} => f.new \in Passwords
  /\ f.at = "tokens" <=> f.at # "idle" /\ pc[p] # "idle"
  /\ f.at \notin {"deleteLink", "revoke", "tokens"} => f.held = {}
  /\ f.at \in {"deleteLink", "revoke"} => f.held \subseteq HeldBy(f.user)
  /\ f.at = "tokens" =>
       \/ f.held = {} /\ f.link = None
       \/ pc[p] \in {"list", "revoke", "wipe"} /\ f.held \subseteq req[p].before
  /\ f.at \in {"idle", "readFails", "check", "recordFail", "clearFails",
               "issue", "compare"} => f.link = None
  /\ f.at = "readLink" => f.by = "resetByLink"
  /\ f.at = "compare" => f.by = "change"
  /\ f.at = "update" => f.link = None \/ f.by = "resetByLink"
  /\ f.at \in {"readLink", "mailLink", "deleteLink"} => f.link \in issued
  /\ f.at = "update" /\ f.by = "resetByLink" => f.link \in issued
  /\ f.at \in {"revoke", "tokens"} /\ f.link # None
       => f.link \in issued /\ links[f.link] = None

PIInv ==
  /\ IInv
  /\ PTypeOK
  /\ \A p \in Requests : FlowOK(p)
  /\ outdated \subseteq ended
  /\ ConsumedLinkGone

(* Every step of a handler is a step of Sessions or leaves it alone. *)
LEMMA HandlerStep == PIInv /\ [PNext]_allvars => [Next]_vars
<1> SUFFICES ASSUME PIInv, [PNext]_allvars PROVE [Next]_vars
  OBVIOUS
<1>1. CASE SessionTime
  BY <1>1 DEF SessionTime, Next
<1>2. CASE \E l \in Links : ExpireLink(l)
  BY <1>2 DEF ExpireLink
<1>3. CASE \E u \in Users : Elapse(u)
  BY <1>3 DEF Elapse
<1>4. ASSUME NEW p \in Requests, PStart(p) PROVE [Next]_vars
  <2>1. ASSUME NEW h \in Tokens, StartTokenHandler(p, h) PROVE Next
    BY <2>1 DEF StartTokenHandler, Next, Start
  <2>2. CASE ~ \E h \in Tokens : StartTokenHandler(p, h)
    BY <1>4, <2>2
    DEF PStart, StartForgot, StartLogin, StartOtpReset, StartChange,
        StartReset, Enter
  <2> QED BY <2>1, <2>2
<1>5. ASSUME NEW p \in Requests, PProceed(p) PROVE [Next]_vars
  <2>1. CASE \/ ReadFails(p) \/ CheckPassword(p) \/ RecordFail(p)
             \/ ClearFails(p) \/ CompareCurrent(p) \/ StoreLink(p)
             \/ MailLink(p) \/ ReadLink(p) \/ UpdateHash(p) \/ DeleteLink(p)
    BY <2>1 DEF ReadFails, CheckPassword, RecordFail, ClearFails, StoreLink,
                CompareCurrent, MailLink, ReadLink, UpdateHash, DeleteLink, At
  <2>2. CASE IssueTokens(p)
    <3>1. flow[p].user \in Users
      BY <2>2 DEF IssueTokens, PIInv, FlowOK
    <3> QED BY <2>2, <3>1 DEF IssueTokens, Next, Start
  <2>3. CASE RevokeSessions(p)
    <3>1. flow[p].user \in Users
      BY <2>3 DEF RevokeSessions, PIInv, FlowOK
    <3> QED BY <2>3, <3>1 DEF RevokeSessions, Next, Start
  <2>4. CASE SessionStep(p)
    BY <2>4 DEF SessionStep, Next
  <2> QED BY <1>5, <2>1, <2>2, <2>3, <2>4 DEF PProceed
<1>6. ASSUME NEW p \in Requests, PAbort(p) PROVE [Next]_vars
  BY <1>6 DEF PAbort, Next
<1>7. CASE UNCHANGED allvars
  BY <1>7 DEF allvars
<1> QED BY <1>1, <1>2, <1>3, <1>4, <1>5, <1>6, <1>7 DEF PNext
(* The part of PIInv that Sessions does not know. *)
PRest ==
  /\ PTypeOK
  /\ \A p \in Requests : FlowOK(p)
  /\ outdated \subseteq ended
  /\ ConsumedLinkGone

(* A handler that returned. *)
LEMMA Returned ==
  ASSUME NEW p \in Requests, flow'[p] = NoFrame
  PROVE  FlowOK(p)'
BY DEF FlowOK, NoFrame, Frame

(* Assigning one local keeps the locals well typed. *)
LEMMA SetAt ==
  ASSUME NEW fl \in [Requests -> Frames], NEW p \in Requests,
         NEW place \in Places
  PROVE  [fl EXCEPT ![p].at = place] \in [Requests -> Frames]
BY DEF Frames

(* Setting the link of a frame leaves a frame. *)
LEMMA SetLink ==
  ASSUME NEW fl \in [Requests -> Frames], NEW p \in Requests,
         NEW l \in Links
  PROVE  [fl EXCEPT ![p].link = l] \in [Requests -> Frames]
BY DEF Frames

(* Setting the held tokens of a frame leaves a frame. *)
LEMMA SetHeld ==
  ASSUME NEW fl \in [Requests -> Frames], NEW p \in Requests,
         NEW held \in SUBSET Tokens
  PROVE  [fl EXCEPT ![p].held = held] \in [Requests -> Frames]
BY DEF Frames

(* An empty slot is a frame. *)
LEMMA NoFrameIsFrame == NoFrame \in Frames
BY PasswordAssumption DEF NoFrame, Frame, Frames, Places, Handlers

(* What a Sessions step of request p leaves to the handlers. *)
LEMMA ProceedFrame ==
  ASSUME TypeOK, NEW p \in Requests, Proceed(p)
  PROVE  /\ pc[p] # "idle"
         /\ \A q \in Requests \ {p} : pc'[q] = pc[q] /\ req'[q] = req[q]
         /\ delivered \subseteq delivered' /\ ended \subseteq ended'
         /\ pc[p] \in {"list", "revoke", "wipe"} =>
              \/ pc'[p] = "idle" /\ req[p].before \subseteq ended'
              \/ /\ pc'[p] \in {"list", "revoke", "wipe"}
                 /\ req'[p].before = req[p].before
<1> USE DEF TypeOK, Locals, Goto, Finish, Call, stored, history
<1>1. CASE Sign(p) \/ Create(p) \/ CreateRefused(p) \/ SetMirror(p)
  BY <1>1 DEF Sign, Create, CreateRefused, SetMirror
<1>2. CASE FindActive(p) \/ ReuseDetected(p) \/ RevokeByHash(p) \/ DeleteMirror(p)
  BY <1>2 DEF FindActive, ReuseDetected, RevokeByHash, DeleteMirror
<1>3. CASE ListActive(p)
  BY <1>3 DEF ListActive
<1>4. CASE RevokeAll(p) \/ WipeDone(p) \/ \E h \in Tokens : WipeOne(p, h)
  BY <1>4 DEF RevokeAll, WipeDone, WipeOne
<1> QED BY <1>1, <1>2, <1>3, <1>4 DEF Proceed

(* Every call of a handler preserves what is said of the handlers. *)
LEMMA ProceedKeepsPRest ==
  ASSUME PIInv, IInv', NEW r \in Requests, PProceed(r)
  PROVE  PRest'
<1> USE PasswordAssumption
    DEF PIInv, PTypeOK, PRest, At, Move, Return, pstored, vars, HeldBy
<1>1. ASSUME NEW p \in Requests, ReadFails(p) PROVE PRest'
  <2> USE <1>1 DEF ReadFails
  <2>1. flow' \in [Requests -> Frames]
    BY NoFrameIsFrame, SMTT(30) DEF FlowOK, Frames, Places
  <2>2. PTypeOK'
    BY <2>1 DEF IInv, FlowOK
  <2>3. ASSUME NEW q \in Requests PROVE FlowOK(q)'
    <3>1. CASE q = p /\ flow'[p] = NoFrame
      BY <3>1, Returned
    <3>2. CASE q = p /\ flow'[p] # NoFrame
      BY <3>2, SMTT(30) DEF FlowOK, Frames
    <3>3. CASE q # p
      BY <3>3 DEF FlowOK
    <3> QED BY <3>1, <3>2, <3>3
  <2>4. (outdated \subseteq ended /\ ConsumedLinkGone)'
    BY DEF FlowOK, ConsumedLinkGone
  <2> QED BY <2>2, <2>3, <2>4
<1>2. ASSUME NEW p \in Requests, CheckPassword(p) PROVE PRest'
  <2> USE <1>2 DEF CheckPassword
  <2>1. flow' \in [Requests -> Frames]
    BY NoFrameIsFrame, SMTT(30) DEF FlowOK, Frames, Places
  <2>2. PTypeOK'
    BY <2>1 DEF IInv, FlowOK
  <2>3. ASSUME NEW q \in Requests PROVE FlowOK(q)'
    <3>1. CASE q = p /\ flow'[p] = NoFrame
      BY <3>1, Returned
    <3>2. CASE q = p /\ flow'[p] # NoFrame
      BY <3>2, SMTT(30) DEF FlowOK, Frames
    <3>3. CASE q # p
      BY <3>3 DEF FlowOK
    <3> QED BY <3>1, <3>2, <3>3
  <2>4. (outdated \subseteq ended /\ ConsumedLinkGone)'
    BY DEF FlowOK, ConsumedLinkGone
  <2> QED BY <2>2, <2>3, <2>4
<1>3. ASSUME NEW p \in Requests, RecordFail(p) PROVE PRest'
  <2> USE <1>3 DEF RecordFail
  <2>a. flow[p].count + 1 \in 0..MaxFails
    BY DEF FlowOK, IInv, TypeOK, Frames
  <2>1. flow' \in [Requests -> Frames]
    BY NoFrameIsFrame, <2>a, SMTT(30) DEF FlowOK, Frames, Places
  <2>2. PTypeOK'
    BY <2>1, <2>a DEF IInv, FlowOK
  <2>3. ASSUME NEW q \in Requests PROVE FlowOK(q)'
    <3>1. CASE q = p /\ flow'[p] = NoFrame
      BY <3>1, Returned
    <3>2. CASE q = p /\ flow'[p] # NoFrame
      BY <3>2, SMTT(30) DEF FlowOK, Frames
    <3>3. CASE q # p
      BY <3>3 DEF FlowOK
    <3> QED BY <3>1, <3>2, <3>3
  <2>4. (outdated \subseteq ended /\ ConsumedLinkGone)'
    BY DEF FlowOK, ConsumedLinkGone
  <2> QED BY <2>2, <2>3, <2>4
<1>4. ASSUME NEW p \in Requests, ClearFails(p) PROVE PRest'
  <2> USE <1>4 DEF ClearFails
  <2>1. flow' \in [Requests -> Frames]
    BY NoFrameIsFrame, SMTT(30) DEF FlowOK, Frames, Places
  <2>2. PTypeOK'
    BY <2>1 DEF IInv, FlowOK
  <2>3. ASSUME NEW q \in Requests PROVE FlowOK(q)'
    <3>1. CASE q = p /\ flow'[p] = NoFrame
      BY <3>1, Returned
    <3>2. CASE q = p /\ flow'[p] # NoFrame
      BY <3>2, SMTT(30) DEF FlowOK, Frames
    <3>3. CASE q # p
      BY <3>3 DEF FlowOK
    <3> QED BY <3>1, <3>2, <3>3
  <2>4. (outdated \subseteq ended /\ ConsumedLinkGone)'
    BY DEF FlowOK, ConsumedLinkGone
  <2> QED BY <2>2, <2>3, <2>4
<1>5. ASSUME NEW p \in Requests, CompareCurrent(p) PROVE PRest'
  <2> USE <1>5 DEF CompareCurrent
  <2>1. flow' \in [Requests -> Frames]
    BY NoFrameIsFrame, SMTT(30) DEF FlowOK, Frames, Places
  <2>2. PTypeOK'
    BY <2>1 DEF IInv, FlowOK
  <2>3. ASSUME NEW q \in Requests PROVE FlowOK(q)'
    <3>1. CASE q = p /\ flow'[p] = NoFrame
      BY <3>1, Returned
    <3>2. CASE q = p /\ flow'[p] # NoFrame
      BY <3>2, SMTT(30) DEF FlowOK, Frames
    <3>3. CASE q # p
      BY <3>3 DEF FlowOK
    <3> QED BY <3>1, <3>2, <3>3
  <2>4. (outdated \subseteq ended /\ ConsumedLinkGone)'
    BY DEF FlowOK, ConsumedLinkGone
  <2> QED BY <2>2, <2>3, <2>4
<1>6. ASSUME NEW p \in Requests, StoreLink(p) PROVE PRest'
  <2> USE <1>6 DEF StoreLink
  <2>a. flow[p].user \in Users
    BY DEF FlowOK, IInv, TypeOK, Frames
  <2>0. PICK l \in Links \ issued :
         flow' = [flow EXCEPT ![p].at = "mailLink", ![p].link = l]
    OBVIOUS
  <2> DEFINE moved == [flow EXCEPT ![p].at = "mailLink"]
  <2>c. moved \in [Requests -> Frames]
    BY SetAt DEF Places
  <2>d. flow' = [moved EXCEPT ![p].link = l]
    BY <2>0
  <2> HIDE DEF moved
  <2>1. flow' \in [Requests -> Frames]
    BY <2>c, <2>d, SetLink
  <2>2. PTypeOK'
    BY <2>1, <2>a DEF IInv, FlowOK
  <2>3. ASSUME NEW q \in Requests PROVE FlowOK(q)'
    <3>1. CASE q = p /\ flow'[p] = NoFrame
      BY <3>1, Returned
    <3>2. CASE q = p /\ flow'[p] # NoFrame
      BY <3>2, SMTT(30) DEF FlowOK, Frames
    <3>3. CASE q # p
      BY <3>3 DEF FlowOK
    <3> QED BY <3>1, <3>2, <3>3
  <2>4. (outdated \subseteq ended /\ ConsumedLinkGone)'
    BY DEF FlowOK, ConsumedLinkGone
  <2> QED BY <2>2, <2>3, <2>4
<1>7. ASSUME NEW p \in Requests, MailLink(p) PROVE PRest'
  <2> USE <1>7 DEF MailLink
  <2>a. flow[p].link \in issued
    BY DEF FlowOK, IInv, TypeOK, Frames
  <2>1. flow' \in [Requests -> Frames]
    BY NoFrameIsFrame, <2>a, SMTT(30) DEF FlowOK, Frames, Places
  <2>2. PTypeOK'
    BY <2>1, <2>a DEF IInv, FlowOK
  <2>3. ASSUME NEW q \in Requests PROVE FlowOK(q)'
    <3>1. CASE q = p /\ flow'[p] = NoFrame
      BY <3>1, Returned
    <3>2. CASE q = p /\ flow'[p] # NoFrame
      BY <3>2, SMTT(30) DEF FlowOK, Frames
    <3>3. CASE q # p
      BY <3>3 DEF FlowOK
    <3> QED BY <3>1, <3>2, <3>3
  <2>4. (outdated \subseteq ended /\ ConsumedLinkGone)'
    BY DEF FlowOK, ConsumedLinkGone
  <2> QED BY <2>2, <2>3, <2>4
<1>8. ASSUME NEW p \in Requests, ReadLink(p) PROVE PRest'
  <2> USE <1>8 DEF ReadLink
  <2>1. flow' \in [Requests -> Frames]
    BY NoFrameIsFrame, SMTT(30) DEF FlowOK, Frames, Places
  <2>2. PTypeOK'
    BY <2>1 DEF IInv, FlowOK
  <2>3. ASSUME NEW q \in Requests PROVE FlowOK(q)'
    <3>1. CASE q = p /\ flow'[p] = NoFrame
      BY <3>1, Returned
    <3>2. CASE q = p /\ flow'[p] # NoFrame
      BY <3>2, SMTT(30) DEF FlowOK, Frames
    <3>3. CASE q # p
      BY <3>3 DEF FlowOK
    <3> QED BY <3>1, <3>2, <3>3
  <2>4. (outdated \subseteq ended /\ ConsumedLinkGone)'
    BY DEF FlowOK, ConsumedLinkGone
  <2> QED BY <2>2, <2>3, <2>4
<1>9. ASSUME NEW p \in Requests, UpdateHash(p) PROVE PRest'
  <2> USE <1>9 DEF UpdateHash
  <2>a. flow[p].user \in Users /\ flow[p].new \in Passwords
    BY DEF FlowOK, IInv, TypeOK, Frames
  <2>b. HeldBy(flow[p].user) \in SUBSET Tokens
    BY DEF FlowOK, IInv, TypeOK, Frames
  <2>0. PICK place \in {"deleteLink", "revoke"} :
         flow' = [flow EXCEPT ![p].at = place, ![p].held = HeldBy(flow[p].user)]
    OBVIOUS
  <2> DEFINE moved == [flow EXCEPT ![p].at = place]
  <2>c. moved \in [Requests -> Frames]
    BY SetAt DEF Places
  <2> DEFINE kept == HeldBy(flow[p].user)
  <2>d. flow' = [moved EXCEPT ![p].held = kept]
    BY <2>0
  <2>e. kept \in SUBSET Tokens
    BY <2>b
  <2> HIDE DEF moved, kept
  <2>1. flow' \in [Requests -> Frames]
    <3>1. p \in Requests
      OBVIOUS
    <3>2. [moved EXCEPT ![p].held = kept] \in [Requests -> Frames]
      BY ONLY <3>1, <2>c, <2>e, SetHeld
    <3> QED BY ONLY <3>2, <2>d
  <2>2. PTypeOK'
    BY <2>1, <2>a, <2>b DEF IInv, FlowOK
  <2>3. ASSUME NEW q \in Requests PROVE FlowOK(q)'
    <3>1. CASE q = p /\ flow'[p] = NoFrame
      BY <3>1, Returned
    <3>2. CASE q = p /\ flow'[p] # NoFrame
      BY <3>2, SMTT(30) DEF FlowOK, Frames
    <3>3. CASE q # p
      BY <3>3 DEF FlowOK
    <3> QED BY <3>1, <3>2, <3>3
  <2>4. (outdated \subseteq ended /\ ConsumedLinkGone)'
    BY DEF FlowOK, ConsumedLinkGone
  <2> QED BY <2>2, <2>3, <2>4
<1>10. ASSUME NEW p \in Requests, DeleteLink(p) PROVE PRest'
  <2> USE <1>10 DEF DeleteLink
  <2>a. flow[p].link \in Links
    BY DEF FlowOK, IInv, TypeOK, Frames
  <2>1. flow' \in [Requests -> Frames]
    BY NoFrameIsFrame, <2>a, SMTT(30) DEF FlowOK, Frames, Places
  <2>2. PTypeOK'
    BY <2>1, <2>a DEF IInv, FlowOK
  <2>3. ASSUME NEW q \in Requests PROVE FlowOK(q)'
    <3>1. CASE q = p /\ flow'[p] = NoFrame
      BY <3>1, Returned
    <3>2. CASE q = p /\ flow'[p] # NoFrame
      BY <3>2, SMTT(30) DEF FlowOK, Frames
    <3>3. CASE q # p
      BY <3>3 DEF FlowOK
    <3> QED BY <3>1, <3>2, <3>3
  <2>4. (outdated \subseteq ended /\ ConsumedLinkGone)'
    BY DEF FlowOK, ConsumedLinkGone
  <2> QED BY <2>2, <2>3, <2>4
<1>11. ASSUME NEW p \in Requests, IssueTokens(p) PROVE PRest'
  <2> USE <1>11 DEF IssueTokens, StartIssue, Begin, Call, stored, history
  <2>1. flow' \in [Requests -> Frames]
    BY SetAt DEF Places
  <2>2. PTypeOK'
    BY <2>1 DEF IInv, TypeOK
  <2>3. ASSUME NEW q \in Requests PROVE FlowOK(q)'
    BY SMTT(30) DEF FlowOK, Frames, IInv, TypeOK
  <2>4. (outdated \subseteq ended /\ ConsumedLinkGone)'
    BY DEF ConsumedLinkGone
  <2> QED BY <2>2, <2>3, <2>4
<1>12. ASSUME NEW p \in Requests, RevokeSessions(p) PROVE PRest'
  <2> USE <1>12 DEF RevokeSessions, StartRevokeAll, Begin, Call, stored, history
  <2>1. flow' \in [Requests -> Frames]
    BY SetAt DEF Places
  <2>2. PTypeOK'
    BY <2>1 DEF IInv, TypeOK
  <2>3. ASSUME NEW q \in Requests PROVE FlowOK(q)'
    BY SMTT(30) DEF FlowOK, Frames, IInv, TypeOK
  <2>4. (outdated \subseteq ended /\ ConsumedLinkGone)'
    BY DEF ConsumedLinkGone
  <2> QED BY <2>2, <2>3, <2>4
<1>13. ASSUME NEW p \in Requests, SessionStep(p) PROVE PRest'
  <2>0. /\ Proceed(p) /\ TypeOK /\ TypeOK'
        /\ UNCHANGED pstored
    BY <1>13 DEF SessionStep, IInv
  <2> HIDE DEF HeldBy
  <2>1. CASE pc'[p] # "idle"
    <3>1. UNCHANGED <<flow, outdated, consumed>>
      BY <2>1, <1>13 DEF SessionStep
    <3>2. PTypeOK'
      BY <2>0, <2>1, <3>1, ProceedFrame DEF FlowOK
    <3>3. ASSUME NEW q \in Requests PROVE FlowOK(q)'
      <4>1. HeldBy(flow[q].user) \subseteq HeldBy(flow[q].user)'
        BY <2>0, <3>1, ProceedFrame DEF HeldBy
      <4> QED BY <2>0, <2>1, <3>1, <4>1, ProceedFrame DEF FlowOK
    <3>4. (outdated \subseteq ended /\ ConsumedLinkGone)'
      BY <2>0, <3>1, ProceedFrame DEF ConsumedLinkGone
    <3> QED BY <3>2, <3>3, <3>4
  <2>2. CASE pc'[p] = "idle"
    <3>1. /\ flow' = [flow EXCEPT ![p] = NoFrame]
          /\ outdated' = outdated \cup flow[p].held
          /\ consumed' = consumed \cup ({flow[p].link} \ {None})
      BY <2>2, <1>13 DEF SessionStep
    <3>2. flow[p].held \subseteq ended'
      BY <2>0, <2>2, ProceedFrame DEF FlowOK
    <3>3. flow[p].held \subseteq Tokens /\ flow[p].link \in Links \cup {None}
      BY DEF Frames
    <3>4. PTypeOK'
      <4>1. flow' \in [Requests -> Frames]
        BY <3>1, NoFrameIsFrame
      <4> QED BY <2>0, <2>2, <3>1, <3>3, <4>1, ProceedFrame
    <3>5. ASSUME NEW q \in Requests PROVE FlowOK(q)'
      <4>1. CASE q = p
        BY <3>1, <4>1, Returned
      <4>2. CASE q # p
        <5>1. HeldBy(flow[q].user) \subseteq HeldBy(flow[q].user)'
          BY <2>0, <3>1, <4>2, ProceedFrame DEF HeldBy
        <5> QED BY <2>0, <3>1, <4>2, <5>1, ProceedFrame DEF FlowOK
      <4> QED BY <4>1, <4>2
    <3>6. (outdated \subseteq ended)'
      BY <2>0, <3>1, <3>2, ProceedFrame
    <3>7. ConsumedLinkGone'
      <4>1. flow[p].link # None => flow[p].link \in issued /\ links[flow[p].link] = None
        BY <2>0, <1>13, ProceedFrame DEF FlowOK
      <4> QED BY <2>0, <3>1, <4>1 DEF ConsumedLinkGone
    <3> QED BY <3>4, <3>5, <3>6, <3>7
  <2> QED BY <2>1, <2>2
<1> QED
  BY <1>1, <1>2, <1>3, <1>4, <1>5, <1>6, <1>7, <1>8, <1>9, <1>10, <1>11, <1>12,
     <1>13 DEF PProceed

(* PIInv is inductive. *)
LEMMA PNextKeepsPIInv == PIInv /\ [PNext]_allvars => PIInv'
<1> SUFFICES ASSUME PIInv, [PNext]_allvars PROVE PIInv'
  OBVIOUS
<1>0. IInv'
  BY HandlerStep, NextKeepsIInv DEF PIInv
<1> SUFFICES PRest'
  BY <1>0 DEF PIInv, PRest
<1> USE PasswordAssumption DEF PRest
<1>1. CASE UNCHANGED pvars /\ UNCHANGED <<pc, req, delivered, ended>>
  BY <1>0, <1>1 DEF pvars, PIInv, IInv, PTypeOK, FlowOK, HeldBy, ConsumedLinkGone
<1>2. CASE SessionTime \/ UNCHANGED allvars
  BY <1>1, <1>2 DEF SessionTime, Tick, ExpireMirror, history, allvars, vars
<1>3. ASSUME NEW l \in Links, ExpireLink(l) PROVE PRest'
  <2>1. PTypeOK'
    BY <1>3 DEF ExpireLink, vars, PIInv, PTypeOK, TypeOK
  <2>2. ASSUME NEW q \in Requests PROVE FlowOK(q)'
    BY <1>3 DEF ExpireLink, vars, PIInv, PTypeOK, FlowOK, HeldBy
  <2>3. (outdated \subseteq ended /\ ConsumedLinkGone)'
    BY <1>3 DEF ExpireLink, vars, PIInv, PTypeOK, ConsumedLinkGone
  <2> QED BY <2>1, <2>2, <2>3
<1>4. ASSUME NEW u \in Users, Elapse(u) PROVE PRest'
  <2>1. PTypeOK'
    BY <1>4 DEF Elapse, vars, PIInv, PTypeOK, TypeOK
  <2>2. ASSUME NEW q \in Requests PROVE FlowOK(q)'
    BY <1>4 DEF Elapse, vars, PIInv, PTypeOK, FlowOK, HeldBy
  <2>3. (outdated \subseteq ended /\ ConsumedLinkGone)'
    BY <1>4 DEF Elapse, vars, PIInv, PTypeOK, ConsumedLinkGone
  <2> QED BY <2>1, <2>2, <2>3
<1>5. ASSUME NEW p \in Requests, PStart(p) PROVE PRest'
  <2>1. ASSUME NEW h \in Tokens, StartTokenHandler(p, h) PROVE PRest'
    <3>1. UNCHANGED <<pvars, delivered, ended>> /\ flow[p].at = "idle"
      BY <2>1 DEF StartTokenHandler, StartRotate, StartLogout, Begin, history
    <3>2. \A q \in Requests \ {p} : pc'[q] = pc[q] /\ req'[q] = req[q]
      BY <2>1 DEF StartTokenHandler, StartRotate, StartLogout, Begin, Call,
                  PIInv, IInv, TypeOK
    <3>3. ASSUME NEW q \in Requests PROVE FlowOK(q)'
      <4>1. CASE q = p
        BY <3>1, <4>1 DEF PIInv, FlowOK, pvars
      <4>2. CASE q # p
        BY <3>1, <3>2, <4>2 DEF PIInv, FlowOK, pvars, HeldBy
      <4> QED BY <4>1, <4>2
    <3>4. PTypeOK'
      BY <1>0, <3>1, <3>2 DEF PIInv, IInv, PTypeOK, pvars
    <3> QED BY <3>1, <3>3, <3>4 DEF PIInv, ConsumedLinkGone, pvars
  <2>2. ASSUME NEW f \in Frames, Enter(p, f),
               f.at \in {"readFails", "compare", "storeLink", "readLink", "update"},
               f.held = {},
               f.at # "readLink" => f.user \in Users /\ f.link = None,
               f.at \in {"compare", "readLink", "update"} => f.new \in Passwords,
               f.at = "readLink" => f.link \in issued /\ f.by = "resetByLink",
               f.at = "compare" => f.by = "change",
               f.at = "update" => f.by = "resetByOtp"
        PROVE  PRest'
    <3>1. PTypeOK'
      BY <2>2 DEF Enter, vars, pstored, PIInv, PTypeOK, TypeOK
    <3>2. ASSUME NEW q \in Requests PROVE FlowOK(q)'
      BY <2>2 DEF Enter, vars, pstored, PIInv, PTypeOK, FlowOK, HeldBy
    <3>3. (outdated \subseteq ended /\ ConsumedLinkGone)'
      BY <2>2 DEF Enter, vars, pstored, PIInv, ConsumedLinkGone
    <3> QED BY <3>1, <3>2, <3>3
  <2> USE DEF Frames, Places, Handlers, Frame
  <2>3. ASSUME NEW u \in Users, StartForgot(p, u) PROVE PRest'
    BY <2>2, <2>3 DEF StartForgot
  <2>4. ASSUME NEW u \in Users, NEW pw \in Passwords, StartLogin(p, u, pw)
        PROVE  PRest'
    BY <2>2, <2>4 DEF StartLogin
  <2>5. ASSUME NEW u \in Users, NEW pw \in Passwords, StartOtpReset(p, u, pw)
        PROVE  PRest'
    BY <2>2, <2>5 DEF StartOtpReset
  <2>6. ASSUME NEW u \in Users, NEW pw \in Passwords, NEW new \in Passwords,
               StartChange(p, u, pw, new)
        PROVE  PRest'
    BY <2>2, <2>6 DEF StartChange
  <2>7. ASSUME NEW l \in Links, NEW new \in Passwords, StartReset(p, l, new)
        PROVE  PRest'
    BY <2>2, <2>7 DEF StartReset, PIInv, PTypeOK
  <2> QED BY <1>5, <2>1, <2>3, <2>4, <2>5, <2>6, <2>7 DEF PStart
<1>6. ASSUME NEW p \in Requests, PProceed(p) PROVE PRest'
  BY <1>0, <1>6, ProceedKeepsPRest
<1>7. ASSUME NEW p \in Requests, PAbort(p) PROVE PRest'
  <2>1. /\ flow' = [flow EXCEPT ![p] = NoFrame]
        /\ UNCHANGED <<pstored, outdated, consumed, delivered, ended>>
    BY <1>7 DEF PAbort, Return, Abort, vars, history
  <2>2. \A q \in Requests \ {p} : pc'[q] = pc[q] /\ req'[q] = req[q]
    BY <1>7 DEF PAbort, Abort, Finish, Call, vars, PIInv, IInv, TypeOK
  <2>3. PTypeOK'
    BY <1>0, <2>1, <2>2, NoFrameIsFrame
    DEF PIInv, IInv, PTypeOK, pstored, NoFrame, Frame
  <2>4. ASSUME NEW q \in Requests PROVE FlowOK(q)'
    <3>1. CASE q = p
      BY <2>1, <3>1, Returned DEF PIInv, PTypeOK
    <3>2. CASE q # p
      BY <2>1, <2>2, <3>2 DEF PIInv, PTypeOK, FlowOK, pstored, HeldBy
    <3> QED BY <3>1, <3>2
  <2> QED BY <2>1, <2>3, <2>4 DEF PIInv, pstored, ConsumedLinkGone
<1> QED BY <1>2, <1>3, <1>4, <1>5, <1>6, <1>7 DEF PNext

(* The composed system starts in the invariant. *)
LEMMA PInitPIInv == PInit => PIInv
<1> SUFFICES ASSUME PInit PROVE PIInv
  OBVIOUS
<1>1. IInv
  BY InitIInv DEF PInit
<1>2. PTypeOK
  BY <1>1, PasswordAssumption, NoFrameIsFrame
  DEF PInit, Init, IInv, PTypeOK, NoFrame, Frame
<1>3. ASSUME NEW p \in Requests PROVE FlowOK(p)
  BY DEF PInit, Init, FlowOK, NoFrame, Frame
<1> QED BY <1>1, <1>2, <1>3 DEF PInit, PIInv, ConsumedLinkGone

(* The invariant holds of the handlers composed with Sessions. *)
THEOREM PInvariance == PSpec => []PIInv
  BY PInitPIInv, PNextKeepsPIInv, PTL DEF PSpec

(* Every variable of the composed system keeps a value of its kind. *)
THEOREM PTypeCorrect == PSpec => []PTypeOK
  BY PInvariance, PTL DEF PIInv

(* The handlers use sessions only through TokenService: what holds of Spec
   holds of the composed system. *)
THEOREM ImplementsSessions == PSpec => Spec
<1>1. PInit => Init
  BY DEF PInit
<1> QED BY <1>1, PInvariance, HandlerStep, PTL DEF PSpec, Spec

(* An answered change or reset of a password left no session of before the
   new hash active, and none becomes active again. *)
THEOREM ReplacedPasswordEndsSessions == PSpec => []OutdatedSessionsEnd
<1>1. PIInv => OutdatedSessionsEnd
  BY DEF PIInv, IInv, EndedIsFinal, OutdatedSessionsEnd
<1> QED BY <1>1, PInvariance, PTL

(* A reset link is gone once its reset was answered. *)
THEOREM ConsumedLinksStayGone == PSpec => []ConsumedLinkGone
  BY PInvariance, PTL DEF PIInv
=============================================================================
