---------------------------- MODULE RedisClient ----------------------------
(***************************************************************************)
(* RedisAdapter: the one ioredis client of a process, made on first use,   *)
(* shared by every caller, closed when the module is destroyed.  A slot of *)
(* Requests stands for a caller of RedisService.get, set or del: it asks   *)
(* for the client, may wait for a connection in the making, then sends its *)
(* command.                                                                *)
(*                                                                         *)
(* An await is a step: between two steps any other callback may run.       *)
(***************************************************************************)
EXTENDS Naturals

CONSTANTS Requests,
          Conns,   \* ioredis objects; a closed one nobody holds is reused
          None

ASSUME RedisAssumption == None \notin Conns /\ {"up", "done"} \cap Conns = {}

VARIABLES
  client,      \* RedisAdapter.client
  connecting,  \* RedisAdapter.connectingPromise: the connection it makes
  conn,        \* the state of every connection
  call,        \* what each caller waits for or holds
  teardown     \* onModuleDestroy: the connection it quits, or how far it is

rvars == <<client, connecting, conn, call, teardown>>

ConnStates == {"opening", "open", "failing", "closed"}
Call(at, c) == [at |-> at, on |-> c]
Calls == [at : {"none", "wait", "command", "failed"}, on : Conns \cup {None}]
NoCall == Call("none", None)

RInit ==
  /\ client = None /\ connecting = None
  /\ conn = [c \in Conns |-> "closed"]
  /\ call = [p \in Requests |-> NoCall]
  /\ teardown = "up"

(* The callers that wait for c get it, or its error. *)
Answer(c, at) ==
  call' = [p \in Requests |->
             IF call[p] = Call("wait", c) THEN Call(at, c) ELSE call[p]]
Unheld(c) ==
  conn[c] = "closed" /\ c # teardown /\ \A p \in Requests : call[p].on # c

-----------------------------------------------------------------------------
(* getClient *)

UseClient(p) ==
  /\ client # None
  /\ call' = [call EXCEPT ![p] = Call("command", client)]
  /\ UNCHANGED <<client, connecting, conn, teardown>>

JoinConnecting(p) ==
  /\ client = None /\ connecting # None
  /\ call' = [call EXCEPT ![p] = Call("wait", connecting)]
  /\ UNCHANGED <<client, connecting, conn, teardown>>

(* Fault: the connection in the making is not looked at. *)
ConnectAlways(p) ==
  /\ client = None
  /\ \E c \in Conns :
       /\ Unheld(c)
       /\ connecting' = c
       /\ conn' = [conn EXCEPT ![c] = "opening"]
       /\ call' = [call EXCEPT ![p] = Call("wait", c)]
  /\ UNCHANGED <<client, teardown>>

Connect(p) ==
  /\ client = None /\ connecting = None
  /\ \E c \in Conns :
       /\ Unheld(c)
       /\ connecting' = c
       /\ conn' = [conn EXCEPT ![c] = "opening"]
       /\ call' = [call EXCEPT ![p] = Call("wait", c)]
  /\ UNCHANGED <<client, teardown>>

GetClient(p) ==
  call[p].at = "none" /\ (UseClient(p) \/ JoinConnecting(p) \/ Connect(p))

(* connect and ping were answered. *)
Connected(c) ==
  /\ conn[c] = "opening"
  /\ conn' = [conn EXCEPT ![c] = "open"]
  /\ client' = c /\ connecting' = None
  /\ Answer(c, "command")
  /\ UNCHANGED teardown

(* One of them was not: the client is told to quit. *)
ConnectFails(c) ==
  /\ conn[c] = "opening"
  /\ conn' = [conn EXCEPT ![c] = "failing"]
  /\ UNCHANGED <<client, connecting, call, teardown>>

(* Fault: only the caller that made the connection gets the error. *)
GiveUpOnOne(c) ==
  /\ conn[c] = "failing"
  /\ conn' = [conn EXCEPT ![c] = "closed"]
  /\ connecting' = None
  /\ \E p \in Requests :
       /\ call[p] = Call("wait", c)
       /\ call' = [call EXCEPT ![p] = Call("failed", c)]
  /\ UNCHANGED <<client, teardown>>

(* It has quit, or could not: either way the error reaches who waits, those
   that joined meanwhile included. *)
GiveUp(c) ==
  /\ conn[c] = "failing"
  /\ conn' = [conn EXCEPT ![c] = "closed"]
  /\ connecting' = None
  /\ Answer(c, "failed")
  /\ UNCHANGED <<client, teardown>>

-----------------------------------------------------------------------------
(* onModuleDestroy, on SIGINT or SIGTERM: requests are still served *)

Destroy ==
  /\ teardown = "up"
  /\ teardown' = IF client = None THEN "done" ELSE client
  /\ UNCHANGED <<client, connecting, conn, call>>

(* Fault: the field keeps the client that has quit. *)
QuitKeeping ==
  /\ teardown \in Conns
  /\ conn' = [conn EXCEPT ![teardown] = "closed"]
  /\ teardown' = "done"
  /\ UNCHANGED <<client, connecting, call>>

(* QUIT is answered; the assignment after it runs before anything else. *)
Quit ==
  /\ teardown \in Conns
  /\ conn' = [conn EXCEPT ![teardown] = "closed"]
  /\ client' = None
  /\ teardown' = "done"
  /\ UNCHANGED <<connecting, call>>

(* The process ends, by the signal or by an error, and is started again. *)
Restart ==
  /\ client' = None /\ connecting' = None
  /\ conn' = [c \in Conns |-> "closed"]
  /\ call' = [p \in Requests |-> NoCall]
  /\ teardown' = "up"

-----------------------------------------------------------------------------
(* A caller: its command is answered, or fails, or its client did. *)

Sent(p) == call[p].at = "command" /\ conn[call[p].on] = "open"
Failing(p) == call[p].at \in {"command", "failed"}
Finish(p) ==
  /\ call' = [call EXCEPT ![p] = NoCall]
  /\ UNCHANGED <<client, connecting, conn, teardown>>

Settle == \E c \in Conns : Connected(c) \/ ConnectFails(c) \/ GiveUp(c)

RNext ==
  \/ Settle \/ Destroy \/ Quit \/ Restart
  \/ \E p \in Requests : GetClient(p) \/ (Failing(p) /\ Finish(p))

RSpec == RInit /\ [][RNext]_rvars

-----------------------------------------------------------------------------
(* Every variable holds a value of its kind. *)
RTypeOK ==
  /\ client \in Conns \cup {None} /\ connecting \in Conns \cup {None}
  /\ conn \in [Conns -> ConnStates]
  /\ call \in [Requests -> Calls]
  /\ teardown \in {"up", "done"} \cup Conns

(* However many callers come at once, while a connection fails or the module
   is destroyed, a process has one connection that is not closed at most. *)
OneConnection ==
  \A c, d \in Conns : conn[c] # "closed" /\ conn[d] # "closed" => c = d

(* The client that is handed out has answered a ping and has not quit. *)
ClientIsOpen == client # None => conn[client] = "open"

(* Nobody waits for a connection that is not being made any more. *)
WaitersBelong ==
  \A p \in Requests : call[p].at = "wait" =>
    /\ connecting # None /\ call[p].on = connecting
    /\ conn[connecting] \in {"opening", "failing"}

(* Whoever waits for the client gets it or an error. *)
WaitersAnswered ==
  \A p \in Requests : call[p].at = "wait" ~> call[p].at # "wait"
=============================================================================
