------------------------------ MODULE RpcProxy ------------------------------
(***************************************************************************)
(* The RPC proxy of src/python/tvm/rpc/proxy.py with the servers behind it *)
(* (_connect_proxy_loop of server.py) and, in tracker mode, the tracker and*)
(* its clients.  Servers and clients connect to the proxy, which pairs a   *)
(* server with a client and forwards what either sends.                    *)
(*                                                                         *)
(* Without a tracker ("proxy mode") both sides name a key, wait in a pool  *)
(* for the other side and are turned away after a timeout.  With a tracker *)
(* the proxy makes up a match key for every server, puts it to the tracker,*)
(* and a client comes with the match key it was lent.                      *)
(*                                                                         *)
(* The proxy is an event loop: an event is one step.  It blocks in its     *)
(* exchanges with the tracker, so such an exchange is part of the event;   *)
(* the connection may break after any message of it.                       *)
(***************************************************************************)
EXTENDS RpcClient

CONSTANTS
  Servers,      \* the servers that connect to the proxy
  RpcKey,       \* server -> the key it names
  proxy,        \* the proxy as a peer of the tracker, and its listening port
  Modes,        \* which of "proxy" and "tracker" are considered
  Requests,     \* client -> the requests it makes of the tracker
  MaxData,      \* bound: server or client -> the messages it sends in a session
  MaxHandler,   \* bound: connections of one process to the proxy
  MaxKeys,      \* bound: match keys that the proxy makes up
  MaxMessages,  \* bound: more messages than the proxy sends the tracker at once
  Mangled,      \* the rpc key that is read off a regenerated match key
  max_retry_server  \* max_retry of _connect_proxy_loop

ASSUME ProxyAssumption ==
  /\ proxy \in Peers /\ Hosts = {proxy}
  /\ Servers \cap Clients = {} /\ Mangled \in RpcKeys
  /\ RpcKey \in [Servers -> RpcKeys]
  /\ Modes \subseteq {"proxy", "tracker"}

\* The connections to the proxy; each has a ForwardHandler.
Handlers == (Servers \union Clients) \X (1 .. MaxHandler)
NoHandler == <<"none", 0>>

Eof == <<"EOF">>

VARIABLES
  mode,          \* "tracker" iff _tracker_addr is set
  handler,       \* connection -> its handler and its two channels
  server_pool, client_pool,  \* key -> the handler that waits under it
  timers,        \* the cleanup callbacks that were scheduled
  update,        \* the proxy's connection to the tracker, see UpdateTracker
  remote         \* server -> where it is in _connect_proxy_loop

proxyVars == <<mode, handler, server_pool, client_pool, timers, update, remote>>
vars == <<trackerVars, clientVars, proxyVars>>

\* The key that a server or client names itself.
PlainKey(k) == [rpc_key |-> k, addr |-> proxy, n |-> 0]

\* ForwardHandler._init_handler, and the channels to and from the peer: `down' is
\* all that was ever written, of which the peer has taken the first `read'.
NewHandler ==
  [used |-> FALSE, open |-> FALSE, match_key |-> PlainKey(Mangled), forward_proxy |-> NoHandler,
   pending_write |-> <<>>, signal_close |-> FALSE, alloc_time |-> FALSE,
   up |-> <<>>, down |-> <<>>, read |-> 0, sent |-> 0]

\* The pools are dictionaries.
Empty == [k \in {} |-> NoHandler]
With(pool, k, h) == [j \in DOMAIN pool \union {k} |-> IF j = k THEN h ELSE pool[j]]
Without(pool, ks) == [j \in DOMAIN pool \ ks |-> pool[j]]
Holding(pool, h) == {k \in DOMAIN pool : pool[k] = h}

\* The state that an event of the proxy passes along.
P == [h |-> handler, sp |-> server_pool, cp |-> client_pool, timers |-> timers]

ProxyBecomes(q) ==
  /\ handler' = q.h
  /\ server_pool' = q.sp
  /\ client_pool' = q.cp
  /\ timers' = q.timers
-----------------------------------------------------------------------------
(* TCPHandler of tornado_util.py, ForwardHandler *)

PeerLeft(q, h) == Contains(q.h[h].up, Eof)

\* A handler that stays in the pool when it closes.
ShutInPool(q, h) ==
  [q EXCEPT !.h[h].open = FALSE, !.h[h].up = <<>>, !.h[h].pending_write = <<>>,
            !.h[h].down = Append(@, Eof), !.h[h].forward_proxy = NoHandler]

\* close and on_close_event of one handler: it leaves the pools, where it is
\* looked for under its match key.
Shut(q, h) ==
  LET k == q.h[h].match_key
      leave(pool) == IF k \in DOMAIN pool /\ pool[k] = h THEN Without(pool, {k})
                     ELSE pool
  IN  [q EXCEPT !.h[h].open = FALSE, !.h[h].up = <<>>, !.h[h].pending_write = <<>>,
                !.h[h].down = Append(@, Eof), !.h[h].forward_proxy = NoHandler,
                !.sp = leave(q.sp), !.cp = leave(q.cp)]

\* signal_close does not wait for what is pending.
SignalCloseNow(q, h) == IF q.h[h].open THEN Shut(q, h) ELSE q

\* signal_close: at once, or when what is pending was written.
SignalClose(q, h) ==
  IF ~q.h[h].open THEN q
  ELSE IF q.h[h].pending_write = <<>> THEN Shut(q, h)
  ELSE [q EXCEPT !.h[h].signal_close = TRUE]

\* The other side of a closed connection is not told.
CloseAlone(q, h) == Shut(q, h)

\* close with on_close, and close_pair: the other side is told.  (Told in turn, its
\* on_close finds this handler closed.)
CloseHandlerPair(q, h) ==
  LET g == q.h[h].forward_proxy
      closed == Shut(q, h)
  IN  IF g = NoHandler THEN closed ELSE SignalClose(closed, g)

\* A message overtakes what is pending.
WriteOvertakes(q, h, m, out) ==
  IF out = "error" /\ PeerLeft(q, h) THEN CloseHandlerPair(q, h)
  ELSE IF out = "full" THEN [q EXCEPT !.h[h].pending_write = Append(@, m)]
  ELSE [q EXCEPT !.h[h].down = Append(@, m)]

\* write_message: the socket takes the message, or it stays pending (the socket is
\* full), or send fails because the peer has left, and on_error closes both sides.
Write(q, h, m, out) ==
  IF out = "error" /\ PeerLeft(q, h) THEN CloseHandlerPair(q, h)
  ELSE IF out = "full" \/ q.h[h].pending_write # <<>>
  THEN [q EXCEPT !.h[h].pending_write = Append(@, m)]
  ELSE [q EXCEPT !.h[h].down = Append(@, m)]

\* What may become of the first message on a connection: there is room for it.
FirstOut == {"sent", "error"}

\* _pair_up, in an event of rhs.  If lhs is closed, or is closed by the failure of
\* its send, the next write_message raises, and that closes rhs.
PairUp(q, lhs, rhs, out) ==
  LET paired == [q EXCEPT !.h[lhs].forward_proxy = rhs, !.h[rhs].forward_proxy = lhs]
      told == IF q.h[lhs].open THEN Write(paired, lhs, <<"SUCCESS", rhs>>, out) ELSE paired
  IN  IF told.h[lhs].open THEN Write(told, rhs, <<"SUCCESS", lhs>>, out)
      ELSE IF told.h[rhs].open THEN CloseHandlerPair(told, rhs) ELSE told

Refuse(q, h, code, out) == SignalClose(Write(q, h, <<code>>, out), h)
-----------------------------------------------------------------------------
(* ProxyServerHandler: handler_ready *)

\* Nobody is turned away after a time.
ReadyNoTimer(q, h, is_server, out) ==
  LET key == q.h[h].match_key
      src == IF is_server THEN q.cp ELSE q.sp
      dst == IF is_server THEN q.sp ELSE q.cp
  IN  CASE key \in DOMAIN src ->
             PairUp(IF is_server THEN [q EXCEPT !.cp = Without(@, {key})]
                    ELSE [q EXCEPT !.sp = Without(@, {key})], src[key], h, out)
        [] key \notin DOMAIN src /\ key \notin DOMAIN dst ->
             IF is_server THEN [q EXCEPT !.sp = With(@, key, h)]
             ELSE [q EXCEPT !.cp = With(@, key, h)]
        [] OTHER -> Refuse(q, h, "DUPLICATE", out)

\* _handler_ready_proxy_mode
ReadyProxyMode(q, h, is_server, out) ==
  LET key == q.h[h].match_key
      src == IF is_server THEN q.cp ELSE q.sp
      dst == IF is_server THEN q.sp ELSE q.cp
      timer == [server |-> is_server, key |-> key, handler |-> h]
  IN  CASE key \in DOMAIN src ->
             PairUp(IF is_server THEN [q EXCEPT !.cp = Without(@, {key})]
                    ELSE [q EXCEPT !.sp = Without(@, {key})], src[key], h, out)
        [] key \notin DOMAIN src /\ key \notin DOMAIN dst ->
             IF is_server
             THEN [q EXCEPT !.sp = With(@, key, h), !.timers = @ \union {timer}]
             ELSE [q EXCEPT !.cp = With(@, key, h), !.timers = @ \union {timer}]
        [] OTHER -> Refuse(q, h, "DUPLICATE", out)

\* Whoever waits under the key.
SomebodyWaits(q, t) == t.key \in DOMAIN (IF t.server THEN q.sp ELSE q.cp)

\* The cleanup callback: only if it is still this handler that waits.
StillWaits(q, t) ==
  LET pool == IF t.server THEN q.sp ELSE q.cp
  IN  t.key \in DOMAIN pool /\ pool[t.key] = t.handler

Cleanup(t) ==
  /\ t \in timers
  /\ LET q == [P EXCEPT !.timers = @ \ {t}]
         h == (IF t.server THEN q.sp ELSE q.cp)[t.key]
         popped == IF t.server THEN [q EXCEPT !.sp = Without(@, {t.key})]
                   ELSE [q EXCEPT !.cp = Without(@, {t.key})]
     IN  \E out \in FirstOut :
           ProxyBecomes(IF StillWaits(q, t) THEN Refuse(popped, h, "MISMATCH", out) ELSE q)
  /\ UNCHANGED <<trackerVars, clientVars, mode, update, remote>>
-----------------------------------------------------------------------------
(* ProxyServerHandler: the tracker *)

TrackerConn(u) == <<proxy, u.conn>>

\* random_key(match_key, cmap=...)
ServerKey(k, n) == [rpc_key |-> k, addr |-> proxy, n |-> n]

\* random_key(rpc_key, keyset) takes the set for the delimiter: what
\* split_random_key then finds before the last ":" is not the server's key.
RegeneratedKey(n) == [rpc_key |-> Mangled, addr |-> proxy, n |-> n]

\* _regenerate_server_keys: new keys in the pool, the handlers do not know.
Regenerate(q, u, ks) ==
  LET seq == SetToSeq(ks)
      new == [i \in DOMAIN seq |-> RegeneratedKey(u.nkeys + i)]
      old(k) == CHOOSE i \in DOMAIN seq : new[i] = k
  IN  [q |-> [q EXCEPT !.sp = [k \in (DOMAIN @ \ ks) \union ToSet(new) |->
                                 IF k \in ToSet(new) THEN @[seq[old(k)]] ELSE @[k]]],
       u |-> [u EXCEPT !.nkeys = @ + Len(seq)],
       new |-> new]

\* The exchange is over: what became of the proxy, the tracker and the connection,
\* and whether an exception left _update_tracker.
Outcome(q, t, u, raised) == [q |-> q, t |-> t, u |-> u, raised |-> raised]

\* A socket error: the connection is dropped and every key replaced.  A dictionary
\* whose keys change while they are iterated over may raise.
Lost(q, t, u) ==
  LET r == Regenerate(q, [u EXCEPT !.conn = 0], DOMAIN q.sp)
      gone == [t EXCEPT !.conn = Disconnected(@, TrackerConn(u))]
  IN  {Outcome(r.q, gone, r.u, raised) :
         raised \in IF DOMAIN q.sp = {} THEN {FALSE} ELSE BOOLEAN}

\* The PUTs, and the UPDATE_INFO if there is a key that was never told.  Only
\* `reach' messages are exchanged before the connection breaks.
Report(q, t, u, reach) ==
  LET c == TrackerConn(u)
      puts == IF u.view THEN SetToSeq(DOMAIN q.sp) ELSE u.puts
      done == Min({reach, Len(puts)})
      put(s, k) == PutHandler(s, c, [conn |-> c, addr |-> proxy, matchkey |-> k])
      t1 == FoldLeft(put, t, SubSeq(puts, 1, done))
      told == u.key_set \union {puts[i].rpc_key : i \in 1 .. done}
      info == told # u.key_set
      u1 == [u EXCEPT !.key_set = told]
  IN  IF reach < Len(puts) + (IF info THEN 1 ELSE 0) THEN Lost(q, t1, u1)
      ELSE {Outcome(q, IF info THEN [t1 EXCEPT !.conn[c].info = TRUE] ELSE t1,
                    [u1 EXCEPT !.puts = <<>>, !.view = FALSE], FALSE)}

\* The periodic part: keys that the tracker has lent and nobody came with are
\* replaced, if that was noticed longer than timeout_alloc ago (late).
Refresh(q, t, u, late, reach) ==
  LET pending == t.conn[TrackerConn(u)].pending_matchkeys
      lent == {k \in DOMAIN q.sp : k \notin pending}
      expired == {k \in lent : q.h[q.sp[k]].alloc_time /\ late}
      q1 == [q EXCEPT !.h = [h \in Handlers |-> [q.h[h] EXCEPT !.alloc_time =
               CASE h \in {q.sp[k] : k \in expired} -> FALSE
                 [] h \in {q.sp[k] : k \in lent \ expired} -> TRUE
                 [] OTHER -> @]]]
      r == Regenerate(q1, u, expired)
  IN  IF reach = 0 THEN Lost(q, t, u)
      ELSE IF expired = {} THEN Report(q1, t, u, reach - 1)
      ELSE IF u.view THEN {Outcome(r.q, t, r.u, TRUE)}
      ELSE Report(r.q, t, [r.u EXCEPT !.puts = @ \o r.new], reach - 1)

\* _update_tracker: connect if there is no connection, then the messages.
UpdateTracker(q, t, u, period, late, reach) ==
  LET new == u.made + 1
      u1 == IF u.conn # 0 THEN u
            ELSE [u EXCEPT !.conn = new, !.made = new, !.view = TRUE]
      t1 == IF u.conn # 0 THEN t
            ELSE [t EXCEPT !.conn[<<proxy, new>>] = [NoConn EXCEPT !.open = TRUE]]
      dead == ~t1.conn[TrackerConn(u1)].open \/ PeerGone(t1, TrackerConn(u1))
      n == IF dead THEN 0 ELSE reach
  IN  IF period THEN Refresh(q, t1, u1, late, n) ELSE Report(q, t1, u1, n)

CanUpdate == update.conn # 0 \/ update.made < MaxConn

\* Every message gets through, or the connection breaks after some of them.
Reaches == {MaxMessages} \union (IF faults > 0 THEN 0 .. MaxMessages - 1 ELSE {})

Updates(o, period) ==
  /\ ProxyBecomes(o.q)
  /\ Becomes(o.t)
  /\ update' = [o.u EXCEPT !.armed = IF period THEN ~o.raised ELSE @]

\* The callback of call_later(update_tracker_period), which schedules itself again.
PeriodicUpdate ==
  /\ mode = "tracker" /\ update.armed /\ CanUpdate
  /\ update.nkeys + Cardinality(DOMAIN server_pool) <= MaxKeys
  /\ \E late \in BOOLEAN, reach \in Reaches :
       /\ \E o \in UpdateTracker(P, Tracker, update, TRUE, late, reach) : Updates(o, TRUE)
       /\ faults' = IF reach < MaxMessages THEN faults - 1 ELSE faults
  /\ UNCHANGED <<client, backlog, mode, remote>>
-----------------------------------------------------------------------------
(* Connections arrive, and are told what became of them *)

Used(p) == {i \in 1 .. MaxHandler : handler[<<p, i>>].used}
Current(p) == <<p, Cardinality(Used(p))>>
Next1(p) == <<p, Cardinality(Used(p)) + 1>>

\* _on_event and _init_step: the connection is accepted and has sent its key.
Arrived(q, h, key) ==
  [q EXCEPT !.h[h] = [NewHandler EXCEPT !.used = TRUE, !.open = TRUE, !.match_key = key]]

\* A server connects (_connect_proxy_loop) and handler_ready is called for it.  In
\* tracker mode it gets a match key, which is reported at once.  (append fails
\* while the pending puts are a view of the pool.)
ServerArrives(s) ==
  /\ remote[s].pc = "connect"
  /\ Cardinality(Used(s)) < MaxHandler
  /\ remote' = [remote EXCEPT ![s].pc = "code"]
  /\ LET h == Next1(s)
         key == ServerKey(RpcKey[s], update.nkeys + 1)
         q == [Arrived(P, h, key) EXCEPT !.sp = With(@, key, h)]
         u == [update EXCEPT !.nkeys = @ + 1]
     IN  \/ /\ mode = "proxy"
            /\ \E out \in FirstOut :
                 ProxyBecomes(ReadyProxyMode(Arrived(P, h, PlainKey(RpcKey[s])), h, TRUE, out))
            /\ UNCHANGED <<trackerVars, update, faults>>
         \/ /\ mode = "tracker" /\ update.view
            /\ ProxyBecomes(q)
            /\ update' = u
            /\ UNCHANGED <<trackerVars, faults>>
         \/ /\ mode = "tracker" /\ ~update.view /\ CanUpdate
            /\ \E reach \in Reaches :
                 /\ \E o \in UpdateTracker(q, Tracker, [u EXCEPT !.puts = Append(@, key)],
                                           FALSE, FALSE, reach) : Updates(o, FALSE)
                 /\ faults' = IF reach < MaxMessages THEN faults - 1 ELSE faults
  /\ UNCHANGED <<client, backlog, mode>>

\* _handler_ready_tracker_mode of a client.
ReadyTrackerMode(q, h, out) ==
  LET key == q.h[h].match_key
  IN  IF key \in DOMAIN q.sp
      THEN PairUp([q EXCEPT !.sp = Without(@, {key})], q.sp[key], h, out)
      ELSE Refuse(q, h, "MISMATCH", out)

\* A client's connection is accepted and, unless it is torn, its key read.
ClientArrives ==
  /\ backlog[proxy].queue # <<>>
  /\ LET a == Head(backlog[proxy].queue)
         h == Next1(a.client)
         ready(q, out) == IF mode = "proxy" THEN ReadyProxyMode(q, h, FALSE, out)
                          ELSE ReadyTrackerMode(q, h, out)
         left == IF client[a.client].pc = "crashed" THEN <<Eof>> ELSE <<>>
         arrived == [Arrived(P, h, a.matchkey) EXCEPT !.h[h].up = left]
     IN  /\ Cardinality(Used(a.client)) < MaxHandler
         /\ \E out \in FirstOut : ProxyBecomes(IF a.torn THEN P ELSE ready(arrived, out))
         /\ backlog' = [backlog EXCEPT ![proxy].queue = Tail(@)]
  /\ UNCHANGED <<trackerVars, client, faults, mode, update, remote>>
-----------------------------------------------------------------------------
(* Forwarding *)

\* _update_read with data: on_data hands it to the other side.  If that is closed
\* already, the IOError of its write_message closes this side as well.
OnData(h) ==
  /\ handler[h].open /\ handler[h].up # <<>> /\ Head(handler[h].up) # Eof
  /\ LET q == [P EXCEPT !.h[h].up = Tail(@)]
         g == handler[h].forward_proxy
     IN  IF g # NoHandler /\ handler[g].open
         THEN \E out \in {"sent", "full", "error"} :
                ProxyBecomes(Write(q, g, <<"DATA", h, Head(handler[h].up)[2]>>, out))
         ELSE ProxyBecomes(CloseHandlerPair(q, h))
  /\ UNCHANGED <<trackerVars, clientVars, mode, update, remote>>

\* The peer has closed; or it has died and the read fails before all was read.
OnClose(h) ==
  /\ handler[h].open
  /\ \/ handler[h].up # <<>> /\ Head(handler[h].up) = Eof
     \/ PeerLeft(P, h) /\ h[1] \in Clients /\ client[h[1]].pc = "crashed"
     \/ PeerLeft(P, h) /\ h[1] \in Servers /\ remote[h[1]].pc = "dead"
  /\ ProxyBecomes(CloseHandlerPair(P, h))
  /\ UNCHANGED <<trackerVars, clientVars, mode, update, remote>>

\* _update_write on a WRITE event: the socket takes another message; when nothing
\* is left and the handler was signalled, it closes.  Or the send fails.
OnWritable(h) ==
  /\ handler[h].open /\ handler[h].pending_write # <<>>
  /\ LET q == [P EXCEPT !.h[h].down = Append(@, Head(handler[h].pending_write)),
                        !.h[h].pending_write = Tail(@)]
     IN  \/ ProxyBecomes(IF q.h[h].pending_write = <<>> /\ q.h[h].signal_close
                         THEN CloseHandlerPair(q, h) ELSE q)
         \/ PeerLeft(P, h) /\ ProxyBecomes(CloseHandlerPair(P, h))
  /\ UNCHANGED <<trackerVars, clientVars, mode, update, remote>>
-----------------------------------------------------------------------------
(* The processes at the other ends *)

Readable(h) == handler[h].used /\ handler[h].read < Len(handler[h].down)
Incoming(h) == handler[h].down[handler[h].read + 1]
Code(h) == Incoming(h)[1]
Taken(h) == [handler EXCEPT ![h].read = @ + 1]

\* The process closes its end.
Leave(hs, h) == [hs EXCEPT ![h].up = IF hs[h].open THEN Append(@, Eof) ELSE @,
                           ![h].read = Len(hs[h].down)]

\* A server that lost its connection tries again, max_retry times.
ServerRetry(s) ==
  [remote EXCEPT ![s].retry_count = @ + 1,
                 ![s].pc = IF remote[s].retry_count + 1 > max_retry_server
                           THEN "failed" ELSE "connect"]

\* _connect_proxy_loop after the key was sent.  RPC_CODE_MISMATCH is only logged:
\* the read of the key that does not follow fails.
ServerReads(s) ==
  LET h == Current(s)
  IN  /\ remote[s].pc \in {"code", "serving"}
      /\ Readable(h)
      /\ handler' = IF Code(h) = "DUPLICATE" THEN Leave(handler, h) ELSE Taken(h)
      /\ remote' = CASE Code(h) = "SUCCESS" -> [remote EXCEPT ![s].pc = "serving"]
                     [] Code(h) = "DUPLICATE" -> [remote EXCEPT ![s].pc = "failed"]
                     [] Code(h) = "EOF" /\ remote[s].pc = "serving" ->
                          [remote EXCEPT ![s].pc = "connect", ![s].retry_count = 0]
                     [] Code(h) = "EOF" /\ remote[s].pc = "code" -> ServerRetry(s)
                     [] OTHER -> remote
      /\ UNCHANGED <<trackerVars, clientVars, mode, server_pool, client_pool, timers,
                     update>>

\* The client has no connection in the proxy's listening queue.
InQueue(c) == \E a \in ToSet(backlog[proxy].queue) : a.client = c

ClientReads(c) ==
  LET h == Current(c)
  IN  /\ client[c].pc \in {"connecting", "session"}
      /\ ~InQueue(c) /\ Readable(h)
      /\ handler' = IF Code(h) \in {"MISMATCH", "DUPLICATE"} THEN Leave(handler, h)
                    ELSE Taken(h)
      /\ client' = CASE Code(h) = "SUCCESS" -> [client EXCEPT ![c].pc = "session"]
                     [] Code(h) = "DATA" -> client
                     [] Code(h) = "EOF" /\ client[c].pc = "session" ->
                          [client EXCEPT ![c].pc = "idle", ![c].value = NoValue]
                     [] OTHER -> Retry(client, c)
      /\ UNCHANGED <<trackerVars, backlog, faults, mode, server_pool, client_pool, timers,
                     update, remote>>

\* One side of a session sends a message.
Sends(p) ==
  LET h == Current(p)
  IN  /\ \/ p \in Servers /\ remote[p].pc = "serving"
         \/ p \in Clients /\ client[p].pc = "session"
      /\ handler[h].sent < MaxData[p]
      /\ handler' = [handler EXCEPT ![h].sent = @ + 1,
                       ![h].up = IF handler[h].open THEN Append(@, <<"DATA", handler[h].sent + 1>>)
                                 ELSE @]
      /\ UNCHANGED <<trackerVars, clientVars, mode, server_pool, client_pool, timers,
                     update, remote>>

\* The client drops its session; the connection of a client that dies ends.
ClientLeaves(c) ==
  /\ CloseSession(c) \/ ClientCrash(c)
  /\ handler' = IF client[c].pc \in {"connecting", "session"} /\ ~InQueue(c)
                THEN Leave(handler, Current(c)) ELSE handler
  /\ UNCHANGED <<mode, server_pool, client_pool, timers, update, remote>>

\* The server's process dies.
ServerDies(s) ==
  /\ faults > 0 /\ remote[s].pc \in {"code", "serving"}
  /\ faults' = faults - 1
  /\ remote' = [remote EXCEPT ![s].pc = "dead"]
  /\ handler' = Leave(handler, Current(s))
  /\ UNCHANGED <<trackerVars, client, backlog, mode, server_pool, client_pool, timers,
                 update>>
-----------------------------------------------------------------------------
Init ==
  /\ TrackerInit
  /\ mode \in Modes
  /\ client = [c \in Clients |->
       IF mode = "tracker" THEN [NewClient EXCEPT !.todo = Requests[c]]
       ELSE [NewClient EXCEPT !.pc = "granted", !.tries = max_retry[c], !.todo = 0,
               !.value = [addr |-> proxy, matchkey |-> PlainKey(Wants[c])]]]
  /\ backlog = [h \in Hosts |-> [listening |-> TRUE, queue |-> <<>>]]
  /\ faults = MaxFault
  /\ handler = [h \in Handlers |-> NewHandler]
  /\ server_pool = Empty
  /\ client_pool = Empty
  /\ timers = {}
  /\ update = [conn |-> 0, made |-> 0, view |-> FALSE, puts |-> <<>>, key_set |-> {},
               nkeys |-> 0, armed |-> mode = "tracker"]
  /\ remote = [s \in Servers |-> [pc |-> "connect", retry_count |-> 0]]

\* The proxy's event loop.
ProxyStep ==
  \/ ClientArrives
  \/ \E s \in Servers : ServerArrives(s)
  \/ \E h \in Handlers : OnData(h) \/ OnClose(h) \/ OnWritable(h)
  \/ \E t \in timers : Cleanup(t)

TrackerStep == \E c \in Conns : Handle(c) /\ UNCHANGED <<clientVars, proxyVars>>

\* What a client does on its own.
ClientMoves(c) ==
  \/ (GotValue(c) \/ TrackerFailed(c) \/ Connect(c)) /\ UNCHANGED proxyVars
  \/ client[c].pc = "retry" /\ SendRequest(c) /\ UNCHANGED proxyVars
  \/ ClientReads(c)

Next ==
  \/ ProxyStep
  \/ PeriodicUpdate
  \/ TrackerStep
  \/ \E c \in Clients : ClientMoves(c) \/ ClientLeaves(c)
  \/ \E c \in Clients : SendRequest(c) /\ UNCHANGED proxyVars
  \/ \E s \in Servers : ServerReads(s) \/ ServerDies(s)
  \/ \E p \in Servers \union Clients : Sends(p)
  \/ \E c \in Conns : ConnectionReset(c) /\ UNCHANGED proxyVars
  \/ TrackerFails /\ UNCHANGED proxyVars

Spec == Init /\ [][Next]_vars

\* The peer of h has read all that was written to it.
ReadAll(h) == handler[h].read = Len(handler[h].down)

\* What is sure to happen at the proxy: its event loop serves every event and fires
\* every timer, but a full socket takes more only when its peer has read.
ProxyServes ==
  \/ ClientArrives
  \/ \E s \in Servers : ServerArrives(s)
  \/ \E h \in Handlers : OnData(h) \/ OnClose(h) \/ (ReadAll(h) /\ OnWritable(h))
  \/ \E t \in timers : Cleanup(t)

\* Nothing is promised of anybody else: the others may stop reading, or sending, for
\* good.
FairSpec == Spec /\ WF_vars(ProxyServes)
-----------------------------------------------------------------------------
(* Properties *)

\* The variables hold values of their types: pools name handlers, and a handler
\* that is closed has nothing left to write.
TypeOK ==
  /\ \A k \in DOMAIN server_pool : server_pool[k] \in Handlers
  /\ \A k \in DOMAIN client_pool : client_pool[k] \in Handlers
  /\ \A h \in Handlers :
       /\ handler[h].forward_proxy \in Handlers \union {NoHandler}
       /\ handler[h].open => handler[h].used
       /\ ~handler[h].open => handler[h].pending_write = <<>> /\ handler[h].up = <<>>
  /\ \A s \in Servers :
       /\ remote[s].pc \in {"connect", "code", "serving", "failed", "dead"}
       /\ remote[s].retry_count \in 0 .. max_retry_server + 1
       /\ remote[s].pc = "connect" => remote[s].retry_count <= max_retry_server

Paired(h) == handler[h].forward_proxy # NoHandler

\* Without a tracker the pools hold exactly the handlers that wait: open, unpaired
\* and not answered yet, each under the key it named; and never a server and a
\* client under the same key.
PoolsHoldWaiting ==
  mode = "proxy" =>
    /\ \A h \in Handlers :
         LET pool == IF h[1] \in Servers THEN server_pool ELSE client_pool
             waits == handler[h].open /\ handler[h].down = <<>>
         IN  Holding(pool, h) = IF waits THEN {handler[h].match_key} ELSE {}
    /\ DOMAIN server_pool \cap DOMAIN client_pool = {}

\* What a connection is sent is the other side's key, then what that side sent, in
\* order and without a gap, and then the end: nothing of another session.
StreamIsOfPartner ==
  \A h \in Handlers :
    LET all == handler[h].down \o handler[h].pending_write
        data == SelectSeq(all, LAMBDA m : m[1] = "DATA")
    IN  /\ \A i \in DOMAIN data : data[i][2] = all[1][2] /\ data[i][3] = i
        /\ data # <<>> => all[1][1] = "SUCCESS"
        /\ \A i \in DOMAIN all : all[i] = Eof => i = Len(all)

\* signal_close: what one side sent before it closed in order is written to the
\* other side before that is closed, provided that side just listens.
LastWordsArrive ==
  \A h \in Handlers :
    handler[h].used /\ ~handler[h].open /\ handler[h].down[1][1] = "SUCCESS" =>
      LET g == handler[h].down[1][2]
          here == \/ h[1] \in Clients /\ client[h[1]].pc \in {"session", "connecting"}
                  \/ h[1] \in Servers /\ remote[h[1]].pc \in {"code", "serving"}
          inOrder == \/ g[1] \in Clients /\ client[g[1]].pc # "crashed"
                     \/ g[1] \in Servers /\ remote[g[1]].pc # "dead"
      IN  here /\ Current(h[1]) = h /\ inOrder /\ handler[h].sent = 0 =>
            Cardinality({i \in DOMAIN handler[h].down : handler[h].down[i][1] = "DATA"})
              = handler[g].sent

\* A handler is turned away by its own timer only: whoever is told MISMATCH in proxy
\* mode has waited its time, although an earlier connection may have left a timer
\* under the same key.
WaitsItsTime ==
  mode = "proxy" =>
    \A t \in timers : handler[t.handler].down = <<>>
                       \/ handler[t.handler].down[1][1] # "MISMATCH"

Session(h) == handler[h].down # <<>> /\ handler[h].down[1][1] = "SUCCESS"

\* Without a tracker every connection is told something: it is paired, refused as a
\* duplicate or turned away by the timeout, unless it leaves.  (Connections are
\* bounded, so from some point on nobody is left without an answer.)
EveryoneIsAnswered ==
  <>[](\A h \in Handlers : mode = "proxy" /\ handler[h].open => handler[h].down # <<>>)

\* When one side of a session has left, however it did, the other side is closed, or
\* has itself stopped reading what it was sent: from some point on an open session has
\* two sides that are there, or one that does not take the last words of the other.
EndsTogether ==
  <>[](\A h \in Handlers :
         handler[h].open /\ Session(h) =>
           /\ ~PeerLeft(P, h)
           /\ \/ handler[handler[h].down[1][2]].open
              \/ handler[h].pending_write # <<>> /\ ~ReadAll(h))

\* "regenerate key if the key is not in tracker anymore": the keys that the proxy
\* puts are on offer under the key that their servers named.
OfferedUnderOwnKey ==
  \A k \in RpcKeys : \A v \in ToSet(scheduler_map[k].values) :
    v.matchkey \in DOMAIN server_pool => RpcKey[server_pool[v.matchkey][1]] = k

\* "Lost tracker connection: %s, try reconnect in %g sec": the periodic update goes on.
KeepsReconnecting == mode = "tracker" => update.armed
=============================================================================
