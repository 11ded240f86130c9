----------------------------- MODULE RpcTracker -----------------------------
(***************************************************************************)
(* The RPC tracker of src/python/tvm/rpc/tracker.py: it lends the servers  *)
(* that register with it to the clients that ask for one.  The tracker is  *)
(* a single-threaded event loop (tornado_util.py), so a handler is one     *)
(* step; what interleaves are the messages and the ends of the             *)
(* connections.                                                            *)
(*                                                                         *)
(* A connection is a pair of in-order channels, `up' to the tracker and    *)
(* `down' from it, and ends with EOF on either.  Every peer waits for the  *)
(* answer to its last message before it sends another, so a write that     *)
(* fails because the peer is gone is the EOF of that peer handled just     *)
(* before the write (_cb returns False) or just after it (the answer is    *)
(* lost): write errors need no actions of their own.                       *)
(***************************************************************************)
EXTENDS Integers, FiniteSets, Sequences, SequencesExt

CONSTANTS
  Peers,     \* the processes that connect to the tracker
  RpcKeys,   \* the kinds of device
  MaxConn    \* bound: connections that one peer makes

Conns == Peers \X (1 .. MaxConn)

EOF == [code |-> "EOF"]
SUCCESS == [code |-> "SUCCESS"]

VARIABLES
  scheduler_map,  \* rpc key -> the _values and _requests of its scheduler
  connections     \* connection -> its TCPEventHandler and its two channels

trackerVars == <<scheduler_map, connections>>

\* The tracker, as the handlers pass it along.
Tracker == [sched |-> scheduler_map, conn |-> connections]

\* A handler whose connection is not open: not yet accepted, or closed.
NoConn == [open |-> FALSE, info |-> FALSE, pending_matchkeys |-> {},
           put_values |-> <<>>, up |-> <<>>, down |-> <<>>]

TrackerInit ==
  /\ scheduler_map = [k \in RpcKeys |-> [values |-> <<>>, requests |-> <<>>]]
  /\ connections = [c \in Conns |-> NoConn]

\* The peer has closed its end; the tracker may not know yet.
PeerGone(t, c) == Contains(t.conn[c].up, EOF)

\* TCPEventHandler.ret_value: what is sent to a peer that is gone is lost.
ret_value(t, c, m) ==
  IF PeerGone(t, c) THEN t ELSE [t EXCEPT !.conn[c].down = Append(@, m)]
-----------------------------------------------------------------------------
(* PriorityScheduler *)

\* _requests is a heap of (-priority, request_cnt): first the highest priority,
\* among equals the earliest.
heappush(requests, r) ==
  LET ahead == {i \in 1 .. Len(requests) : requests[i].priority >= r.priority}
  IN  InsertAt(requests, Cardinality(ahead) + 1, r)

\* The callback _cb of a REQUEST: it fails if the connection is closed.
Deliver(t, r, v) == ret_value(t, r.conn, [code |-> "VALUE", value |-> v])

\* One turn of the loop of _schedule: the first value goes to the best request.
\* If the client has left, its request is dropped and the value goes to the end.
ServeRequest(t, key, r) ==
  LET v == Head(t.sched[key].values)
      rest == Tail(t.sched[key].values)
  IN  IF t.conn[r.conn].open
      THEN [Deliver(t, r, v) EXCEPT !.sched[key].values = rest,
                                    !.conn[v.conn].pending_matchkeys = @ \ {v.matchkey}]
      ELSE [t EXCEPT !.sched[key].values = Append(rest, v)]

\* A scheduler that looks at one request only.
ScheduleOnce(t, key) ==
  IF t.sched[key].values = <<>> \/ t.sched[key].requests = <<>> THEN t
  ELSE ServeRequest([t EXCEPT !.sched[key].requests = Tail(@)], key,
                    Head(t.sched[key].requests))

\* PriorityScheduler._schedule: as long as there are requests and values.
Schedule(t, key) ==
  LET turn(s, r) == IF s.sched[key].values = <<>>
                    THEN [s EXCEPT !.sched[key].requests = Append(@, r)]
                    ELSE ServeRequest(s, key, r)
  IN  IF t.sched[key].values = <<>> THEN t
      ELSE FoldLeft(turn, [t EXCEPT !.sched[key].requests = <<>>],
                    t.sched[key].requests)

\* PriorityScheduler.put, request and remove
PutValue(t, key, v) ==
  Schedule([t EXCEPT !.sched[key].values = Append(@, v)], key)

PushRequest(t, key, r) ==
  Schedule([t EXCEPT !.sched[key].requests = heappush(@, r)], key)

RemoveValue(t, key, v) ==
  IF Contains(t.sched[key].values, v)
  THEN Schedule([t EXCEPT !.sched[key].values = RemoveFirst(@, v)], key)
  ELSE t
-----------------------------------------------------------------------------
(* TCPEventHandler.call_handler and TrackerServerHandler *)

\* The message that the tracker handles next on connection c.
Received(c, code) ==
  /\ connections[c].open
  /\ connections[c].up # <<>>
  /\ Head(connections[c].up).code = code

Message(c) == Head(connections[c].up)

Consumed(c) == [Tracker EXCEPT !.conn[c].up = Tail(@)]

Becomes(t) == scheduler_map' = t.sched /\ connections' = t.conn

\* PUT: the key counts as pending before the value is put, which may lend it at
\* once; the value is remembered for on_close.  (Server and proxy name as the key of a
\* PUT the one that their match key was made from.)
PutHandler(t, c, v) ==
  LET t1 == [t EXCEPT !.conn[c].pending_matchkeys = @ \union {v.matchkey}]
      t2 == PutValue(t1, v.matchkey.rpc_key, v)
  IN  [t2 EXCEPT !.conn[c].put_values = Append(@, v)]

Put(c) ==
  /\ Received(c, "PUT")
  /\ LET v == [conn |-> c, addr |-> c[1], matchkey |-> Message(c).matchkey]
     IN  Becomes(ret_value(PutHandler(Consumed(c), c, v), c, SUCCESS))

Request(c) ==
  /\ Received(c, "REQUEST")
  /\ Becomes(PushRequest(Consumed(c), Message(c).key,
                         [conn |-> c, priority |-> Message(c).priority]))

\* The answer lists every key that was put.
GetPutMatchkeys(c) ==
  /\ Received(c, "GET_PENDING_MATCHKEYS")
  /\ Becomes(ret_value(Consumed(c), c,
                       [code |-> "KEYS",
                        keys |-> {v.matchkey : v \in ToSet(connections[c].put_values)}]))

GetPendingMatchkeys(c) ==
  /\ Received(c, "GET_PENDING_MATCHKEYS")
  /\ Becomes(ret_value(Consumed(c), c,
                       [code |-> "KEYS",
                        keys |-> connections[c].pending_matchkeys]))

UpdateInfo(c) ==
  /\ Received(c, "UPDATE_INFO")
  /\ Becomes(ret_value([Consumed(c) EXCEPT !.conn[c].info = TRUE], c, SUCCESS))

\* on_close without the loop over put_values.
CloseHandlerKeep(t, c) ==
  [t EXCEPT !.conn[c].open = FALSE, !.conn[c].up = <<>>,
            !.conn[c].put_values = <<>>]

\* TCPHandler.close, then TrackerServerHandler.close: what a connection that has
\* told its key ever put is taken out of the queue that its match key names, if it
\* is still there (remove passes over the others, and no remove adds to a queue).
\* (The tracker closes a connection only after its peer did, so there is nobody
\* left to see it; put_values is not read again and is emptied here.)
CloseHandler(t, c) ==
  LET closed == [t EXCEPT !.conn[c].open = FALSE, !.conn[c].up = <<>>,
                          !.conn[c].put_values = <<>>]
      queued(v) == Contains(t.sched[v.matchkey.rpc_key].values, v)
      drop(s, v) == RemoveValue(s, v.matchkey.rpc_key, v)
  IN  IF t.conn[c].info
      THEN FoldLeft(drop, closed, SelectSeq(t.conn[c].put_values, queued))
      ELSE closed

\* The read of a closed connection returns nothing, or fails.
Close(c) == Received(c, "EOF") /\ Becomes(CloseHandler(Tracker, c))

Handle(c) ==
  \/ Put(c)
  \/ Request(c)
  \/ GetPendingMatchkeys(c)
  \/ UpdateInfo(c)
  \/ Close(c)

\* STOP (Tracker.terminate), or the death of the tracker's process, and its
\* restart: every connection ends, and the schedulers start empty.
TrackerRestart ==
  /\ scheduler_map' = [k \in RpcKeys |-> [values |-> <<>>, requests |-> <<>>]]
  /\ connections' = [c \in Conns |->
       IF connections[c].open /\ ~PeerGone(Tracker, c)
       THEN [NoConn EXCEPT !.down = Append(connections[c].down, EOF)]
       ELSE [NoConn EXCEPT !.down = connections[c].down]]
-----------------------------------------------------------------------------
(* The peer's end of a connection: connect, sendjson, recvjson, close.     *)

\* _on_event accepts the connection; the exchange of magic numbers is left out.
Connected(cs, c, m) == [cs EXCEPT ![c] = [NoConn EXCEPT !.open = TRUE, !.up = <<m>>]]

\* sendjson to a tracker that has closed the connection is not noticed.
Sent(cs, c, m) == [cs EXCEPT ![c].up = IF cs[c].open THEN Append(@, m) ELSE @]

\* recvjson has an answer, or fails.
Answered(c) == connections[c].down # <<>> /\ Head(connections[c].down) # EOF

Answer(c) == Head(connections[c].down)

AnswerTaken(c) == [connections EXCEPT ![c].down = Tail(@)]

AnswerLost(c) == connections[c].down # <<>> /\ Head(connections[c].down) = EOF

\* The peer closes its end: the tracker reads what was sent before the EOF.
Disconnected(cs, c) ==
  [cs EXCEPT ![c].up = IF cs[c].open THEN Append(@, EOF) ELSE @, ![c].down = <<>>]

\* The network breaks the connection: both ends see an error, what was on the
\* way is lost.
Reset(c) ==
  /\ connections[c].open
  /\ ~PeerGone(Tracker, c)
  /\ connections' = [connections EXCEPT ![c].up = <<EOF>>, ![c].down = <<EOF>>]
  /\ UNCHANGED scheduler_map
=============================================================================
