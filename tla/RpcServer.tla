----------------------------- MODULE RpcServer ------------------------------
(***************************************************************************)
(* _listen_loop, _accept_conn and _serving of src/python/tvm/rpc/server.py,*)
(* composed with the tracker and its clients.  A server offers itself to   *)
(* the tracker under a fresh match key, waits for the client that presents *)
(* it, serves that client and offers itself again.  While it waits it asks *)
(* every ping_period whether the key is still unclaimed, and offers a new  *)
(* key when a client has taken the key and does not come.                  *)
(***************************************************************************)
EXTENDS RpcClient

CONSTANTS
  Servers,
  RpcKey,           \* server -> the kind of device it is
  ping_period, unmatch_timeout,
  MaxKeys           \* more keys than a server generates within the other bounds

ASSUME ServerAssumption ==
  /\ Servers \subseteq Peers /\ Servers \subseteq Hosts
  /\ RpcKey \in [Servers -> RpcKeys]
  /\ ping_period \in Nat \ {0} /\ unmatch_timeout \in Nat

VARIABLE server  \* server -> where it is in _listen_loop

vars == <<trackerVars, clientVars, server>>

NoClient == "none"

Init ==
  /\ TrackerInit
  /\ ClientInit
  /\ server = [s \in Servers |->
       [pc |-> "connect", conn |-> 0, made |-> 0, keys |-> 0,
        unmatch_period_count |-> 0, client |-> NoClient]]

ServerConn(s) == <<s, server[s].conn>>

\* base.random_key: the k-th key that server s generates; none occurs twice.
MatchKey(s, k) == [rpc_key |-> RpcKey[s], addr |-> s, n |-> k]

matchkey(s) == MatchKey(s, server[s].keys)

PutMessage(s) == [code |-> "PUT", matchkey |-> MatchKey(s, server[s].keys + 1)]

\* Step 1 of _listen_loop: connect to the tracker and report the server's key.  (A
\* tracker that restarts is back within the timeout of connect_with_retry; were it not,
\* the RuntimeError would end the loop, and the server as in ServerTerminate.)
ServerConnect(s) ==
  /\ server[s].pc = "connect"
  /\ server[s].made < MaxConn
  /\ LET new == server[s].made + 1
     IN  /\ connections' = Connected(connections, <<s, new>>, [code |-> "UPDATE_INFO"])
         /\ server' = [server EXCEPT ![s].pc = "info", ![s].conn = new, ![s].made = new]
  /\ UNCHANGED <<scheduler_map, clientVars>>

\* The old match key is put again.
OfferOldKey(s, cs) ==
  /\ connections' = Sent(cs, ServerConn(s),
       [code |-> "PUT", matchkey |-> MatchKey(s, IF server[s].keys = 0 THEN 1
                                                 ELSE server[s].keys)])
  /\ server' = [server EXCEPT ![s].pc = "put", ![s].keys = IF @ = 0 THEN 1 ELSE @,
                              ![s].unmatch_period_count = 0, ![s].client = NoClient]

\* A fresh match key is put on connection c.
OfferKey(s, cs) ==
  /\ connections' = Sent(cs, ServerConn(s), PutMessage(s))
  /\ server' = [server EXCEPT ![s].pc = "put", ![s].keys = @ + 1,
                              ![s].unmatch_period_count = 0, ![s].client = NoClient]

\* _accept_conn begins: report the resource to the tracker.
PutKey(s) ==
  /\ server[s].pc = "info"
  /\ Answered(ServerConn(s))
  /\ OfferKey(s, AnswerTaken(ServerConn(s)))
  /\ UNCHANGED <<scheduler_map, clientVars>>

PutDone(s) ==
  /\ server[s].pc = "put"
  /\ Answered(ServerConn(s))
  /\ connections' = AnswerTaken(ServerConn(s))
  /\ server' = [server EXCEPT ![s].pc = "wait"]
  /\ UNCHANGED <<scheduler_map, clientVars>>

\* select times out: nothing has connected for ping_period seconds.
Poll(s) ==
  /\ server[s].pc = "wait"
  /\ backlog[s].queue = <<>>
  /\ connections' = Sent(connections, ServerConn(s), [code |-> "GET_PENDING_MATCHKEYS"])
  /\ server' = [server EXCEPT ![s].pc = "poll"]
  /\ UNCHANGED <<scheduler_map, clientVars>>

\* The key is acquired but not used for a while: regenerate it.
Unmatched(count) == count * ping_period > unmatch_timeout + ping_period

Polled(s) ==
  /\ server[s].pc = "poll"
  /\ Answered(ServerConn(s))
  /\ LET pending_keys == Answer(ServerConn(s)).keys
         count == IF matchkey(s) \in pending_keys THEN 0
                  ELSE server[s].unmatch_period_count + 1
     IN  \/ Unmatched(count) /\ OfferKey(s, AnswerTaken(ServerConn(s)))
         \/ /\ ~Unmatched(count)
            /\ connections' = AnswerTaken(ServerConn(s))
            /\ server' = [server EXCEPT ![s].pc = "wait",
                                        ![s].unmatch_period_count = count]
  /\ UNCHANGED <<scheduler_map, clientVars>>

\* The server goes on with the broken connection.
ServerTrackerIgnored(s) ==
  /\ server[s].pc \in {"info", "put", "poll"}
  /\ AnswerLost(ServerConn(s))
  /\ server' = [server EXCEPT ![s].pc = "wait"]
  /\ UNCHANGED <<trackerVars, clientVars>>

\* An answer of the tracker does not come: retry when tracker is dropped.
ServerTrackerFailed(s) ==
  /\ server[s].pc \in {"info", "put", "poll"}
  /\ AnswerLost(ServerConn(s))
  /\ connections' = Disconnected(connections, ServerConn(s))
  /\ server' = [server EXCEPT ![s].pc = "connect", ![s].conn = 0]
  /\ UNCHANGED <<scheduler_map, clientVars>>

Accepts(s) == server[s].pc = "wait" /\ backlog[s].queue # <<>>

Attempt(s) == Head(backlog[s].queue)

Accepted(s) == [backlog EXCEPT ![s].queue = Tail(@)]

\* arr[0] # expect_header
KeyMatches(s, key) == key = matchkey(s)

\* The connection presents the current match key: serve it.
AcceptMatch(s) ==
  /\ Accepts(s)
  /\ ~Attempt(s).torn
  /\ KeyMatches(s, Attempt(s).matchkey)
  /\ backlog' = Accepted(s)
  /\ server' = [server EXCEPT ![s].pc = "serving", ![s].client = Attempt(s).client]
  /\ LET c == Attempt(s).client
     IN  client' = IF client[c].pc = "connecting"
                   THEN [client EXCEPT ![c].pc = "session"] ELSE client
  /\ UNCHANGED <<trackerVars, faults>>

\* Another key: RPC_CODE_MISMATCH, and on to the next connection.
AcceptMismatch(s) ==
  /\ Accepts(s)
  /\ ~Attempt(s).torn
  /\ ~KeyMatches(s, Attempt(s).matchkey)
  /\ backlog' = Accepted(s)
  /\ LET c == Attempt(s).client
     IN  client' = IF client[c].pc = "connecting" THEN Retry(client, c) ELSE client
  /\ UNCHANGED <<trackerVars, server, faults>>

\* The connection breaks before the key is read: the IOError of recvall is taken
\* for a loss of the tracker.
AcceptTorn(s) ==
  /\ Accepts(s)
  /\ Attempt(s).torn
  /\ backlog' = Accepted(s)
  /\ connections' = Disconnected(connections, ServerConn(s))
  /\ server' = [server EXCEPT ![s].pc = "connect", ![s].conn = 0]
  /\ UNCHANGED <<scheduler_map, client, faults>>

InSession(s, c) == client[c].pc = "session" /\ client[c].value.addr = s

\* ServerLoop returns when the client is gone; _accept_conn puts a new key.
ServingDone(s) ==
  /\ server[s].pc = "serving"
  /\ ~InSession(s, server[s].client)
  /\ OfferKey(s, connections)
  /\ UNCHANGED <<scheduler_map, clientVars>>

\* The session outlives session_timeout: the serving process is killed, and the
\* client's call fails.
SessionTimeout(s) ==
  /\ server[s].pc = "serving"
  /\ InSession(s, server[s].client)
  /\ client' = [client EXCEPT ![server[s].client].pc = "idle",
                              ![server[s].client].value = NoValue]
  /\ OfferKey(s, connections)
  /\ UNCHANGED <<scheduler_map, backlog, faults>>

\* The server's process ends: its sockets close, what had connected is refused.
ServerTerminate(s) ==
  /\ faults > 0
  /\ server[s].pc # "terminated"
  /\ faults' = faults - 1
  /\ server' = [server EXCEPT ![s].pc = "terminated", ![s].client = NoClient]
  /\ connections' = IF server[s].conn = 0 THEN connections
                    ELSE Disconnected(connections, ServerConn(s))
  /\ backlog' = [backlog EXCEPT ![s] = [listening |-> FALSE, queue |-> <<>>]]
  /\ client' = [c \in Clients |->
       CASE InSession(s, c) -> [client[c] EXCEPT !.pc = "idle", !.value = NoValue]
         [] client[c].pc = "connecting" /\ client[c].value.addr = s -> Retry(client, c)[c]
         [] OTHER -> client[c]]
  /\ UNCHANGED scheduler_map

ServerStep(s) ==
  \/ ServerConnect(s)
  \/ PutKey(s)
  \/ PutDone(s)
  \/ Poll(s)
  \/ Polled(s)
  \/ ServerTrackerFailed(s)
  \/ AcceptMatch(s)
  \/ AcceptMismatch(s)
  \/ AcceptTorn(s)
  \/ ServingDone(s)

Next ==
  \/ \E c \in Conns : Handle(c) /\ UNCHANGED <<clientVars, server>>
  \/ \E c \in Clients : (ClientStep(c) \/ SendRequest(c)) /\ UNCHANGED server
  \/ \E s \in Servers : ServerStep(s) \/ SessionTimeout(s) \/ ServerTerminate(s)
  \/ \E c \in Conns : ConnectionReset(c) /\ UNCHANGED server
  \/ \E c \in Clients : ClientCrash(c) /\ UNCHANGED server
  \/ TrackerFails /\ UNCHANGED server

Spec == Init /\ [][Next]_vars

\* Steps that the code takes when it can: the tracker's event loop serves every
\* peer, servers and clients go on with their loops, sessions end.  Users make no
\* promise to ask for a server, nobody promises a fault or a session timeout.
TrackerServes(p) ==
  \E i \in 1 .. MaxConn : Handle(<<p, i>>) /\ UNCHANGED <<clientVars, server>>

ClientGoesOn(c) ==
  /\ ClientStep(c) \/ (client[c].pc = "retry" /\ SendRequest(c))
  /\ UNCHANGED server

Fairness ==
  /\ \A c \in Clients : WF_vars(TrackerServes(c) \/ ClientGoesOn(c))
  /\ \A s \in Servers : WF_vars(TrackerServes(s) \/ ServerStep(s))

FairSpec == Spec /\ Fairness
-----------------------------------------------------------------------------
(* Properties *)

Queued(k) == ToSet(scheduler_map[k].values)

\* The variables hold values of their types, and the bound on connections never
\* keeps a peer from reconnecting.
TypeOK ==
  /\ \A k \in RpcKeys :
       \A v \in Queued(k) : v.conn \in Conns /\ v.matchkey.rpc_key = k
  /\ \A c \in Conns : connections[c].open \in BOOLEAN /\ connections[c].info \in BOOLEAN
  /\ \A c \in Clients :
       /\ client[c].pc \in {"idle", "waiting", "granted", "connecting", "session",
                            "retry", "failed", "crashed"}
       /\ client[c].tries \in 0 .. max_retry[c]
       /\ client[c].pc = "retry" /\ client[c].conn = 0 => client[c].made < MaxConn
  /\ \A s \in Servers :
       /\ server[s].pc \in {"connect", "info", "put", "wait", "poll", "serving",
                            "terminated"}
       /\ server[s].keys \in 0 .. MaxKeys
       /\ server[s].pc = "connect" => server[s].made < MaxConn

\* _schedule leaves no server in the queue while a request waits, and no request
\* waiting while there is a server: after each handler one of them is empty.
NoIdleMatch ==
  \A k \in RpcKeys :
    scheduler_map[k].values = <<>> \/ scheduler_map[k].requests = <<>>

\* What the tracker has on offer can be had: the connection that put it is open,
\* and if that is the server's present connection then it is the key the server
\* expects, and the server is not serving anyone.
OffersAreCurrent ==
  \A k \in RpcKeys : \A v \in Queued(k) :
    /\ connections[v.conn].open
    /\ v.conn = ServerConn(v.addr) =>
         v.matchkey = matchkey(v.addr) /\ server[v.addr].pc # "serving"

\* A client that waits for a server gets one, or its request raises, or it dies;
\* unless no server of its kind is left.  (Clients that die with a server in
\* hand, lost connections and a restarted tracker are among the behaviours.)
WaitingIsServed ==
  \A c \in Clients :
    client[c].pc = "waiting"
      ~> \/ client[c].pc \in {"session", "failed", "crashed"}
         \/ \A s \in Servers : RpcKey[s] = Wants[c] => server[s].pc = "terminated"

\* A server whose key was taken does not wait for ever: it serves the client, or
\* is on offer again.
OfferReturns ==
  \A s \in Servers :
    server[s].pc \in {"wait", "poll"} /\ matchkey(s) \notin {v.matchkey : v \in Queued(RpcKey[s])}
      ~> \/ server[s].pc \in {"serving", "terminated"}
         \/ matchkey(s) \in {v.matchkey : v \in Queued(RpcKey[s])}

\* Refinement: where each match key is in the life that MatchKeyLease describes.
HeldBy(k) ==
  {c \in Clients :
     \/ \E i \in 1 .. MaxConn : \E m \in ToSet(connections[<<c, i>>].down) :
          m.code = "VALUE" /\ m.value.matchkey = k
     \/ client[c].value # NoValue /\ client[c].value.matchkey = k
     \/ \E h \in Hosts : \E a \in ToSet(backlog[h].queue) :
          a.client = c /\ a.matchkey = k}

OnOffer(k) ==
  \/ k \in {v.matchkey : v \in Queued(k.rpc_key)}
  \/ \E c \in Conns : \E m \in ToSet(connections[c].up) :
       m.code = "PUT" /\ m.matchkey = k

Lease == INSTANCE MatchKeyLease WITH
  life <- [p \in Servers \X (1 .. MaxKeys) |->
    LET s == p[1]
        k == MatchKey(s, p[2])
    IN  CASE p[2] > server[s].keys -> [at |-> "new"]
          [] server[s].pc = "serving" /\ matchkey(s) = k ->
               [at |-> "used", to |-> server[s].client]
          [] HeldBy(k) # {} -> [at |-> "lent", to |-> CHOOSE c \in HeldBy(k) : TRUE]
          [] OnOffer(k) -> [at |-> "offered"]
          [] OTHER -> [at |-> "void"]]

\* Tracker, servers and clients together keep the promise of MatchKeyLease: a
\* match key is lent once, to one client, and admits only that client, once, while
\* it is the newest key of its server.
ImplementsLease == Lease!Spec
=============================================================================
