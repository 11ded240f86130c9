----------------------------- MODULE RpcClient ------------------------------
(***************************************************************************)
(* TrackerSession of src/python/tvm/rpc/client.py: a client asks the       *)
(* tracker for a server, connects to it with the match key it was given    *)
(* and retries when either step fails.  A server is reached through its    *)
(* listening socket: `backlog' is what has connected to it and was not yet *)
(* accepted.                                                               *)
(***************************************************************************)
EXTENDS RpcTracker

CONSTANTS
  Clients, Hosts,   \* the clients, and the addresses that listen
  Priority,         \* client -> the priority of its requests
  Wants,            \* client -> the kind of device it asks for
  max_retry,        \* client -> the attempts of one request
  MaxRequest,       \* bound: requests of one client
  MaxFault          \* bound: crashes, resets and restarts of a behaviour

ASSUME ClientAssumption ==
  /\ Clients \subseteq Peers
  /\ Priority \in [Clients -> Int]
  /\ Wants \in [Clients -> RpcKeys]
  /\ max_retry \in [Clients -> Nat \ {0}]

VARIABLES
  client,    \* client -> where it is in TrackerSession.request
  backlog,   \* host -> the connections waiting in its listening socket
  faults     \* the faults left

clientVars == <<client, backlog, faults>>

NoValue == [addr |-> "none"]

NewClient == [pc |-> "idle", made |-> 0, conn |-> 0, tries |-> 0,
              value |-> NoValue, todo |-> MaxRequest]

ClientInit ==
  /\ client = [c \in Clients |-> NewClient]
  /\ backlog = [h \in Hosts |-> [listening |-> TRUE, queue |-> <<>>]]
  /\ faults = MaxFault

ClientConn(c) == <<c, client[c].conn>>

\* An attempt failed: the loop goes on, or raises RuntimeError.
Retry(cl, c) ==
  [cl EXCEPT ![c].value = NoValue,
             ![c].pc = IF cl[c].tries < max_retry[c] THEN "retry" ELSE "failed"]

\* TrackerSession._connect if there is no connection, and the REQUEST.
SendRequest(c) ==
  /\ \/ client[c].pc = "idle" /\ client[c].todo > 0
     \/ client[c].pc = "retry"
  /\ LET m == [code |-> "REQUEST", key |-> Wants[c], priority |-> Priority[c]]
         first == client[c].pc = "idle"
         begun == [client[c] EXCEPT !.pc = "waiting",
                                    !.tries = IF first THEN 1 ELSE @ + 1,
                                    !.todo = IF first THEN @ - 1 ELSE @]
         new == client[c].made + 1
     IN  \/ /\ client[c].conn # 0
            /\ connections' = Sent(connections, ClientConn(c), m)
            /\ client' = [client EXCEPT ![c] = begun]
         \/ /\ client[c].conn = 0 /\ new <= MaxConn
            /\ connections' = Connected(connections, <<c, new>>, m)
            /\ client' = [client EXCEPT ![c] = [begun EXCEPT !.conn = new, !.made = new]]
  /\ UNCHANGED <<scheduler_map, backlog, faults>>

\* recvjson returns a server.
GotValue(c) ==
  /\ client[c].pc = "waiting"
  /\ Answered(ClientConn(c))
  /\ client' = [client EXCEPT ![c].pc = "granted",
                              ![c].value = Answer(ClientConn(c)).value]
  /\ connections' = AnswerTaken(ClientConn(c))
  /\ UNCHANGED <<scheduler_map, backlog, faults>>

\* recvjson fails: the session closes its connection and makes another.
TrackerFailed(c) ==
  /\ client[c].pc = "waiting"
  /\ AnswerLost(ClientConn(c))
  /\ client' = [Retry(client, c) EXCEPT ![c].conn = 0]
  /\ connections' = Disconnected(connections, ClientConn(c))
  /\ UNCHANGED <<scheduler_map, backlog, faults>>

\* rpc.connect to the address of the value, with its match key.
Connect(c) ==
  /\ client[c].pc = "granted"
  /\ LET v == client[c].value
     IN  \/ /\ backlog[v.addr].listening
            /\ backlog' = [backlog EXCEPT ![v.addr].queue =
                             Append(@, [client |-> c, matchkey |-> v.matchkey,
                                        torn |-> FALSE])]
            /\ client' = [client EXCEPT ![c].pc = "connecting"]
         \/ /\ ~backlog[v.addr].listening
            /\ client' = Retry(client, c)
            /\ UNCHANGED backlog
  /\ UNCHANGED <<trackerVars, faults>>

\* The client has finished with the server and drops the RPCSession.
CloseSession(c) ==
  /\ client[c].pc = "session"
  /\ client' = [client EXCEPT ![c].pc = "idle", ![c].value = NoValue]
  /\ UNCHANGED <<trackerVars, backlog, faults>>

\* The client dies.  A connection that it was making to a server may break
\* before its key was sent (torn), or after.
ClientCrash(c) ==
  /\ faults > 0
  /\ client[c].pc \notin {"crashed", "failed"}
  /\ faults' = faults - 1
  /\ client' = [client EXCEPT ![c] = [NewClient EXCEPT !.pc = "crashed"]]
  /\ connections' = IF client[c].conn = 0 THEN connections
                    ELSE Disconnected(connections, ClientConn(c))
  /\ \E torn \in BOOLEAN :
       backlog' = [h \in Hosts |-> [backlog[h] EXCEPT !.queue =
         [i \in DOMAIN @ |-> IF @[i].client = c THEN [@[i] EXCEPT !.torn = torn]
                             ELSE @[i]]]]
  /\ UNCHANGED scheduler_map

\* The network, and the tracker, fail.
ConnectionReset(c) == faults > 0 /\ faults' = faults - 1 /\ Reset(c)
                      /\ UNCHANGED <<client, backlog>>

TrackerFails == faults > 0 /\ faults' = faults - 1 /\ TrackerRestart
                /\ UNCHANGED <<client, backlog>>

ClientStep(c) == GotValue(c) \/ TrackerFailed(c) \/ Connect(c) \/ CloseSession(c)
=============================================================================
