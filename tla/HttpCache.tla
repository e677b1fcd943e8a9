----------------------------- MODULE HttpCache -----------------------------
(***************************************************************************)
(* CacheInterceptor around the GET handlers of the application, over the   *)
(* RedisClient of its process: look up, handle, answer, and store behind   *)
(* the answer.  The key is the URL, whoever asks.                          *)
(*                                                                         *)
(* The data a handler reads is a version per user that other requests      *)
(* write.  Time is the TTL of the keys.                                    *)
(***************************************************************************)
EXTENDS RedisClient

CONSTANTS Users, Urls,
          Ttl,        \* the TTL of a key: CacheTtl or the default
          MaxVersion  \* bound on writes

ASSUME CacheAssumption == Ttl \in Nat \ {0} /\ MaxVersion \in Nat

VARIABLES
  data,   \* what a handler answers: user -> version
  cache,  \* Redis http-cache: url -> answer and remaining TTL, or None
  get     \* the GET requests in flight: next call, and locals

hvars == <<data, cache, get>>
allvars == <<rvars, hvars>>

Versions == 0..MaxVersion
Answers == [user : Users, version : Versions]
Computed(u) == [user |-> u, version |-> data[u]]
(* Fault: EX is given milliseconds. *)
EntryMilli(a, ttl) == [answer |-> a, ttl |-> 1000 * ttl]
(* A key and what is left of its EX. *)
Entry(a, ttl) == [answer |-> a, ttl |-> ttl]
Entries == [answer : Answers, ttl : 1..Ttl]
Frame(at, u, url, a) == [user |-> u, answer |-> a, at |-> at, url |-> url]
Frames == [user : Users \cup {None}, answer : Answers \cup {None},
           at : {"idle", "boot", "lookup", "handle", "store"}, url : Urls \cup {None}]
NoFrame == Frame("idle", None, None, None)

HInit ==
  /\ RInit
  /\ data = [u \in Users |-> 0]
  /\ cache = [url \in Urls |-> None]
  /\ get = [p \in Requests |-> NoFrame]

Leave(p) == get' = [get EXCEPT ![p] = NoFrame]

(* A process makes its client when it starts, and listens after that. *)
Listening == client # None \/ teardown # "up"

Boot(p) ==
  /\ ~Listening /\ \A q \in Requests : get[q].at = "idle"
  /\ get' = [get EXCEPT ![p] = Frame("boot", None, None, None)]
  /\ UNCHANGED <<rvars, data, cache>>

Booted(p) ==
  /\ get[p].at = "boot" /\ Sent(p) /\ Finish(p)
  /\ Leave(p)
  /\ UNCHANGED <<data, cache>>

StartGet(p, u, url) ==
  /\ get[p].at = "idle" /\ Listening
  /\ get' = [get EXCEPT ![p] = Frame("lookup", u, url, None)]
  /\ UNCHANGED <<rvars, data, cache>>

(* REDIS_CLIENT, and RedisService.get and set, begin with the client. *)
Ask(p) ==
  /\ get[p].at \in {"boot", "lookup", "store"}
  /\ GetClient(p)
  /\ UNCHANGED hvars

(* Fault: a hit renews the TTL. *)
LookupRenews(p) ==
  LET g == get[p] IN
  /\ g.at = "lookup" /\ Sent(p) /\ Finish(p)
  /\ \/ /\ cache[g.url] # None /\ Leave(p)
        /\ cache' = [cache EXCEPT ![g.url] = Entry(cache[g.url].answer, Ttl)]
     \/ /\ cache[g.url] = None
        /\ get' = [get EXCEPT ![p] = Frame("handle", g.user, g.url, None)]
        /\ UNCHANGED cache
  /\ UNCHANGED data

(* A hit answers with what is there. *)
Lookup(p) ==
  LET g == get[p] IN
  /\ g.at = "lookup" /\ Sent(p) /\ Finish(p)
  /\ \/ cache[g.url] # None /\ Leave(p)
     \/ /\ cache[g.url] = None
        /\ get' = [get EXCEPT ![p] = Frame("handle", g.user, g.url, None)]
  /\ UNCHANGED <<data, cache>>

(* The look-up rejects, and so does the request. *)
LookupFails(p) ==
  /\ get[p].at = "lookup" /\ Failing(p) /\ Finish(p)
  /\ Leave(p)
  /\ UNCHANGED <<data, cache>>

(* The handler answers, or throws; only an answer is stored. *)
Handle(p) ==
  LET g == get[p] IN
  /\ g.at = "handle"
  /\ \/ get' = [get EXCEPT ![p] = Frame("store", g.user, g.url, Computed(g.user))]
     \/ Leave(p)
  /\ UNCHANGED <<rvars, data, cache>>

Store(p) ==
  LET g == get[p] IN
  /\ g.at = "store" /\ Sent(p) /\ Finish(p)
  /\ cache' = [cache EXCEPT ![g.url] = Entry(g.answer, Ttl)]
  /\ Leave(p)
  /\ UNCHANGED data

(* Fault: a process that is started again holds on to the client. *)
CrashKeepsClient ==
  /\ conn' = [c \in Conns |-> "closed"] /\ connecting' = None
  /\ call' = [p \in Requests |-> NoCall]
  /\ teardown' = "up"
  /\ get' = [p \in Requests |-> NoFrame]
  /\ UNCHANGED <<client, data, cache>>

Crash ==
  /\ Restart
  /\ get' = [p \in Requests |-> NoFrame]
  /\ UNCHANGED <<data, cache>>

(* Nobody handles the promise of set: its rejection ends the process, as a
   client that cannot be made ends the start of one. *)
Uncaught(p) == get[p].at \in {"boot", "store"} /\ Failing(p) /\ Crash

(* Another request changes what the handler of u would answer. *)
Write(u) ==
  /\ data[u] < MaxVersion
  /\ data' = [data EXCEPT ![u] = @ + 1]
  /\ UNCHANGED <<rvars, cache, get>>

(* One unit of time: keys whose TTL is over are gone. *)
Tick ==
  /\ cache' = [url \in Urls |->
                 IF cache[url] = None THEN None
                 ELSE IF cache[url].ttl = 1 THEN None
                 ELSE Entry(cache[url].answer, cache[url].ttl - 1)]
  /\ UNCHANGED <<rvars, data, get>>

(* The signal that destroyed the module ends the process. *)
Shutdown == teardown = "done" /\ Crash

Proceed(p) ==
  \/ Boot(p) \/ Ask(p) \/ Booted(p) \/ Lookup(p) \/ LookupFails(p)
  \/ Handle(p) \/ Store(p) \/ Uncaught(p)

HNext ==
  \/ (Settle \/ Quit \/ (Listening /\ Destroy)) /\ UNCHANGED hvars
  \/ \E p \in Requests : \/ Proceed(p)
                         \/ \E u \in Users, url \in Urls : StartGet(p, u, url)
  \/ \E u \in Users : Write(u)
  \/ Tick \/ Shutdown

HSpec == HInit /\ [][HNext]_allvars

(* Time passes; connect, ping and quit are answered or fail in the end
   (ioredis has a connectTimeout); a request goes on. *)
HFairSpec ==
  /\ HSpec /\ WF_allvars(Tick)
  /\ \A c \in Conns :
       WF_allvars((Connected(c) \/ ConnectFails(c) \/ GiveUp(c)) /\ UNCHANGED hvars)
  /\ \A p \in Requests : WF_allvars(Proceed(p))

-----------------------------------------------------------------------------
(* Every variable holds a value of its kind; no key is kept past its TTL. *)
HTypeOK ==
  /\ RTypeOK
  /\ data \in [Users -> Versions]
  /\ cache \in [Urls -> Entries \cup {None}]
  /\ get \in [Requests -> Frames]

Stale(url) == cache[url] # None
              /\ cache[url].answer.version # data[cache[url].answer.user]

(* An answer the data has moved on from does not stay in the cache, however
   often it is asked for and however late it was stored. *)
StaleEnds == \A url \in Urls : Stale(url) ~> ~Stale(url)
=============================================================================
