--------------------------- MODULE HttpCacheProofs ---------------------------
(* The Redis client keeps its invariants for any number of callers and
   connections, and the HTTP cache uses it only as RedisClient allows. *)
EXTENDS HttpCache, TLAPS

(* What the adapter relies on between two callbacks: a connection is closed
   unless it is the client or in the making, never both; a teardown that has
   begun quits the client. *)
AdapterOK ==
  /\ \A c \in Conns : conn[c] # "closed" => c = client \/ c = connecting
  /\ connecting # None => conn[connecting] \in {"opening", "failing"}
  /\ client = None \/ connecting = None
  /\ teardown \in Conns => teardown = client

(* The inductive invariant of RedisClient. *)
RInv == RTypeOK /\ AdapterOK /\ ClientIsOpen /\ WaitersBelong

USE RedisAssumption

-----------------------------------------------------------------------------
(* Every connection but the client and the one in the making is closed, so
   there is one at most. *)
LEMMA InvImpliesOne == RInv => OneConnection
BY DEF RInv, AdapterOK, OneConnection, RTypeOK, ClientIsOpen

(* The adapter starts without a connection. *)
LEMMA RInitially == RInit => RInv
BY DEF RInit, RInv, RTypeOK, AdapterOK, ClientIsOpen, WaitersBelong, Calls,
       NoCall, Call, ConnStates

(* A caller that gets the client, joins or makes a connection. *)
LEMMA GetClientPreserves ==
  ASSUME RInv, NEW p \in Requests, GetClient(p) PROVE RInv'
<1>1. CASE UseClient(p)
  BY <1>1 DEF UseClient, RInv, RTypeOK, AdapterOK, ClientIsOpen,
     WaitersBelong, Calls, Call
<1>2. CASE JoinConnecting(p)
  BY <1>2 DEF JoinConnecting, RInv, RTypeOK, AdapterOK, ClientIsOpen,
     WaitersBelong, Calls, Call
<1>3. CASE Connect(p)
  BY <1>3 DEF Connect, Unheld, RInv, RTypeOK, AdapterOK, ClientIsOpen,
     WaitersBelong, Calls, Call, ConnStates
<1> QED BY <1>1, <1>2, <1>3 DEF GetClient

(* What Answer leaves behind: nobody waits for c, and who did not wait for it
   is as before. *)
LEMMA Answered ==
  ASSUME RTypeOK, NEW c \in Conns, NEW at \in {"command", "failed"}, Answer(c, at)
  PROVE /\ call' \in [Requests -> Calls]
        /\ \A p \in Requests :
             call'[p].at = "wait" => call[p].at = "wait" /\ call[p].on # c
BY DEF Answer, RTypeOK, Calls, Call

(* A connection that opens, fails or is given up. *)
LEMMA SettlePreserves == ASSUME RInv, Settle PROVE RInv'
<1>1. ASSUME NEW c \in Conns, Connected(c) PROVE RInv'
  <2>1. c = connecting /\ client = None
    BY <1>1 DEF Connected, RInv, AdapterOK, ClientIsOpen, RTypeOK
  <2>2. /\ call' \in [Requests -> Calls]
        /\ \A p \in Requests :
             call'[p].at = "wait" => call[p].at = "wait" /\ call[p].on # c
    BY <1>1, Answered DEF Connected, RInv
  <2>3. \A p \in Requests : call'[p].at # "wait"
    BY <2>1, <2>2 DEF RInv, WaitersBelong
  <2>4. RTypeOK'
    BY <1>1, <2>2 DEF Connected, RInv, RTypeOK, ConnStates
  <2>5. AdapterOK' /\ ClientIsOpen'
    BY <1>1, <2>1 DEF Connected, RInv, RTypeOK, AdapterOK, ClientIsOpen
  <2> QED BY <2>3, <2>4, <2>5 DEF RInv, WaitersBelong
<1>2. ASSUME NEW c \in Conns, ConnectFails(c) PROVE RInv'
  <2>1. c = connecting /\ client = None
    BY <1>2 DEF ConnectFails, RInv, AdapterOK, ClientIsOpen, RTypeOK
  <2> QED
    BY <1>2, <2>1 DEF ConnectFails, RInv, RTypeOK, AdapterOK, ClientIsOpen,
       WaitersBelong, ConnStates
<1>3. ASSUME NEW c \in Conns, GiveUp(c) PROVE RInv'
  <2>1. c = connecting /\ client = None
    BY <1>3 DEF GiveUp, RInv, AdapterOK, ClientIsOpen, RTypeOK
  <2>2. /\ call' \in [Requests -> Calls]
        /\ \A p \in Requests :
             call'[p].at = "wait" => call[p].at = "wait" /\ call[p].on # c
    BY <1>3, Answered DEF GiveUp, RInv
  <2>3. \A p \in Requests : call'[p].at # "wait"
    BY <2>1, <2>2 DEF RInv, WaitersBelong
  <2>4. RTypeOK'
    BY <1>3, <2>2 DEF GiveUp, RInv, RTypeOK, ConnStates
  <2>5. AdapterOK' /\ ClientIsOpen'
    BY <1>3, <2>1 DEF GiveUp, RInv, RTypeOK, AdapterOK, ClientIsOpen
  <2> QED BY <2>3, <2>4, <2>5 DEF RInv, WaitersBelong
<1> QED BY <1>1, <1>2, <1>3 DEF Settle

(* The teardown quits the client, which is the one connection then. *)
LEMMA TeardownPreserves ==
  ASSUME RInv, Destroy \/ Quit PROVE RInv'
<1>1. CASE Destroy
  BY <1>1 DEF Destroy, RInv, RTypeOK, AdapterOK, ClientIsOpen, WaitersBelong
<1>2. CASE Quit
  BY <1>2 DEF Quit, RInv, RTypeOK, AdapterOK, ClientIsOpen, WaitersBelong,
     ConnStates
<1> QED BY <1>1, <1>2

(* A restart and a caller that is done. *)
LEMMA OthersPreserve ==
  ASSUME RInv, Restart \/ \E p \in Requests : Finish(p)
  PROVE RInv'
<1>1. CASE Restart
  BY <1>1 DEF Restart, RInv, RTypeOK, AdapterOK, ClientIsOpen, WaitersBelong,
     Calls, NoCall, Call, ConnStates
<1>2. CASE \E p \in Requests : Finish(p)
  BY <1>2 DEF Finish, RInv, RTypeOK, AdapterOK, ClientIsOpen, WaitersBelong,
     Calls, NoCall, Call
<1> QED BY <1>1, <1>2

(* Every step keeps the invariant. *)
LEMMA RStepPreserves ==
  ASSUME RInv, [RNext]_rvars PROVE RInv'
<1>1. CASE UNCHANGED rvars
  BY <1>1 DEF rvars, RInv, RTypeOK, AdapterOK, ClientIsOpen, WaitersBelong
<1>2. CASE RNext
  BY <1>2, GetClientPreserves, SettlePreserves, TeardownPreserves,
     OthersPreserve DEF RNext
<1> QED BY <1>1, <1>2

(* The invariant holds in every state. *)
THEOREM RInvariance == RSpec => []RInv
BY RInitially, RStepPreserves, PTL DEF RSpec

(* One connection at most, whoever asks for it and however it fails. *)
THEOREM OneConnectionAlways == RSpec => []OneConnection
BY RInvariance, InvImpliesOne, PTL

(* The client that is handed out is open. *)
THEOREM ClientAlwaysOpen == RSpec => []ClientIsOpen
<1>1. RInv => ClientIsOpen
  BY DEF RInv
<1> QED BY <1>1, RInvariance, PTL

(* Whoever waits, waits for the connection in the making. *)
THEOREM WaitersAlwaysBelong == RSpec => []WaitersBelong
<1>1. RInv => WaitersBelong
  BY DEF RInv
<1> QED BY <1>1, RInvariance, PTL

-----------------------------------------------------------------------------
(* A step of a GET request asks for the client, is done with it, starts the
   process again, or leaves the client alone. *)
LEMMA ProceedRefines ==
  ASSUME NEW p \in Requests, Proceed(p) PROVE RNext \/ UNCHANGED rvars
<1>1. CASE Boot(p) \/ Handle(p)
  BY <1>1 DEF Boot, Handle
<1>2. CASE Ask(p)
  BY <1>2 DEF Ask, RNext
<1>3. CASE Booted(p) \/ Lookup(p) \/ LookupFails(p) \/ Store(p)
  BY <1>3 DEF Booted, Lookup, LookupFails, Store, Sent, Failing, RNext
<1>4. CASE Uncaught(p)
  BY <1>4 DEF Uncaught, Crash, RNext
<1> QED BY <1>1, <1>2, <1>3, <1>4 DEF Proceed

(* Every step of the cache is a step of the client or leaves it alone. *)
LEMMA StepRefines == [HNext]_allvars => [RNext]_rvars
<1> SUFFICES ASSUME [HNext]_allvars PROVE RNext \/ UNCHANGED rvars
  OBVIOUS
<1>1. CASE UNCHANGED allvars
  BY <1>1 DEF allvars
<1>2. CASE Settle \/ Quit \/ (Listening /\ Destroy)
  BY <1>2 DEF RNext
<1>3. CASE \E p \in Requests : Proceed(p)
  BY <1>3, ProceedRefines
<1>4. CASE \E p \in Requests, u \in Users, url \in Urls : StartGet(p, u, url)
  BY <1>4 DEF StartGet
<1>5. CASE (\E u \in Users : Write(u)) \/ Tick
  BY <1>5 DEF Write, Tick
<1>6. CASE Shutdown
  BY <1>6 DEF Shutdown, Crash, RNext
<1> QED BY <1>1, <1>2, <1>3, <1>4, <1>5, <1>6 DEF HNext

(* The HTTP cache, with its boot, crashes and teardown, uses the client only
   as RedisClient says. *)
THEOREM UsesClient == HSpec => RSpec
<1>1. HInit => RInit
  BY DEF HInit
<1> QED BY <1>1, StepRefines, PTL DEF HSpec, RSpec
-----------------------------------------------------------------------------
USE CacheAssumption

(* The variables of the cache hold values of their kinds. *)
CacheTypeOK ==
  /\ data \in [Users -> Versions]
  /\ cache \in [Urls -> Entries \cup {None}]
  /\ get \in [Requests -> Frames]
  /\ \A p \in Requests :
       /\ get[p].at \in {"lookup", "handle", "store"} =>
            get[p].user \in Users /\ get[p].url \in Urls
       /\ get[p].at = "store" => get[p].answer \in Answers

(* A frame of the right parts is a frame. *)
LEMMA FrameType ==
  ASSUME NEW at \in {"idle", "boot", "lookup", "handle", "store"},
         NEW u \in Users \cup {None}, NEW url \in Urls \cup {None},
         NEW a \in Answers \cup {None}
  PROVE /\ Frame(at, u, url, a) \in Frames
        /\ Frame(at, u, url, a).at = at /\ Frame(at, u, url, a).user = u
        /\ Frame(at, u, url, a).url = url /\ Frame(at, u, url, a).answer = a
BY DEF Frame, Frames

(* So is the frame of a slot without a request, or one that boots. *)
LEMMA PlainFrames ==
  /\ NoFrame \in Frames /\ NoFrame.at = "idle"
  /\ Frame("boot", None, None, None) \in Frames
  /\ Frame("boot", None, None, None).at = "boot"
BY DEF NoFrame, Frame, Frames

(* Leaving keeps the kinds. *)
LEMMA LeaveType ==
  ASSUME CacheTypeOK, NEW p \in Requests, Leave(p), UNCHANGED data,
         cache' \in [Urls -> Entries \cup {None}]
  PROVE CacheTypeOK'
BY PlainFrames DEF Leave, CacheTypeOK

(* So does starting the process again. *)
LEMMA CrashType == ASSUME CacheTypeOK, Crash PROVE CacheTypeOK'
BY PlainFrames DEF Crash, CacheTypeOK

(* So does every step of a GET request. *)
LEMMA ProceedType ==
  ASSUME CacheTypeOK, NEW p \in Requests, Proceed(p) PROVE CacheTypeOK'
<1> DEFINE g == get[p]
<1>0. g \in Frames
  BY DEF CacheTypeOK
<1>1. CASE Boot(p)
  BY <1>1, PlainFrames DEF Boot, CacheTypeOK
<1>2. CASE Ask(p)
  BY <1>2 DEF Ask, hvars, CacheTypeOK
<1>3. CASE Booted(p) \/ LookupFails(p)
  BY <1>3, LeaveType DEF Booted, LookupFails, CacheTypeOK
<1>4. CASE Lookup(p)
  <2>1. g.user \in Users /\ g.url \in Urls
    BY <1>4 DEF Lookup, CacheTypeOK
  <2>2. CASE Leave(p)
    BY <1>4, <2>2, LeaveType DEF Lookup, CacheTypeOK
  <2>3. CASE get' = [get EXCEPT ![p] = Frame("handle", g.user, g.url, None)]
    BY <1>4, <2>1, <2>3, FrameType DEF Lookup, CacheTypeOK
  <2> QED BY <1>4, <2>2, <2>3 DEF Lookup
<1>5. CASE Handle(p)
  <2>1. g.user \in Users /\ g.url \in Urls /\ Computed(g.user) \in Answers
    BY <1>5 DEF Handle, CacheTypeOK, Computed, Answers
  <2>2. CASE Leave(p)
    BY <1>5, <2>2, LeaveType DEF Handle, CacheTypeOK
  <2>3. CASE get' = [get EXCEPT ![p] = Frame("store", g.user, g.url, Computed(g.user))]
    BY <1>5, <2>1, <2>3, FrameType DEF Handle, CacheTypeOK
  <2> QED BY <1>5, <2>2, <2>3 DEF Handle
<1>6. CASE Store(p)
  <2>1. g.url \in Urls /\ g.answer \in Answers
    BY <1>6 DEF Store, CacheTypeOK
  <2>2. Entry(g.answer, Ttl) \in Entries
    BY <2>1 DEF Entry, Entries
  <2>3. cache' \in [Urls -> Entries \cup {None}]
    BY <1>6, <2>2 DEF Store, CacheTypeOK
  <2> QED BY <1>6, <2>3, LeaveType DEF Store
<1>7. CASE Uncaught(p)
  BY <1>7, CrashType DEF Uncaught
<1> QED BY <1>1, <1>2, <1>3, <1>4, <1>5, <1>6, <1>7 DEF Proceed

(* A unit of time leaves keys with at least one unit. *)
LEMMA TickType == ASSUME CacheTypeOK, Tick PROVE CacheTypeOK'
<1>1. ASSUME NEW url \in Urls, cache[url] # None, cache[url].ttl # 1
      PROVE Entry(cache[url].answer, cache[url].ttl - 1) \in Entries
  <2>1. cache[url] \in Entries
    BY <1>1 DEF CacheTypeOK
  <2>2. cache[url].answer \in Answers /\ cache[url].ttl - 1 \in 1..Ttl
    BY <1>1, <2>1 DEF Entries
  <2> QED BY <2>2 DEF Entry, Entries
<1>2. cache' \in [Urls -> Entries \cup {None}]
  BY <1>1 DEF Tick
<1> QED BY <1>2 DEF Tick, CacheTypeOK

(* And every other step. *)
LEMMA CacheTypeStep ==
  ASSUME CacheTypeOK, [HNext]_allvars PROVE CacheTypeOK'
<1>1. CASE UNCHANGED hvars
  BY <1>1 DEF hvars, CacheTypeOK
<1>2. CASE \E p \in Requests : Proceed(p)
  BY <1>2, ProceedType
<1>3. CASE \E p \in Requests, u \in Users, url \in Urls : StartGet(p, u, url)
  BY <1>3, FrameType DEF StartGet, CacheTypeOK
<1>4. CASE \E u \in Users : Write(u)
  BY <1>4 DEF Write, CacheTypeOK, Versions
<1>5. CASE Tick
  BY <1>5, TickType
<1>6. CASE Shutdown
  BY <1>6, CrashType DEF Shutdown
<1> QED BY <1>1, <1>2, <1>3, <1>4, <1>5, <1>6 DEF HNext, allvars

(* Every variable of client and cache holds a value of its kind, and no key is
   kept past its TTL. *)
THEOREM HTypeCorrect == HSpec => []HTypeOK
<1>1. HInit => CacheTypeOK
  BY PlainFrames DEF HInit, CacheTypeOK, Versions
<1>2. HSpec => []CacheTypeOK
  BY <1>1, CacheTypeStep, PTL DEF HSpec
<1>3. CacheTypeOK /\ RInv => HTypeOK
  BY DEF CacheTypeOK, RInv, HTypeOK
<1> QED BY <1>2, <1>3, UsesClient, RInvariance, PTL
=============================================================================
