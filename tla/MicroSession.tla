---------------------------- MODULE MicroSession ----------------------------
(***************************************************************************)
(* The session between a host and a microTVM device: Session of            *)
(* src/src/runtime/crt/microtvm_rpc_common/session.cc at both ends, the    *)
(* host's MicroTransportChannel (src/src/runtime/micro/micro_session.cc),  *)
(* the device's MicroRPCServer (crt/microtvm_rpc_server/rpc_server.cc) and *)
(* its main loop (apps/microtvm/zephyr/template_project/src/host_driven).  *)
(*                                                                         *)
(* The host opens a channel over the transport, starts a session (again    *)
(* when no reply comes), sends requests and waits for the answers; after a *)
(* timeout it may open another channel over the same transport.  The device*)
(* answers, may be reset at any moment, and reboots when it cannot take a  *)
(* packet.  The transport delivers packets in order; a packet that the     *)
(* device was sending when it was reset may be cut short, and an end that  *)
(* opens may miss what came before.                                        *)
(***************************************************************************)
EXTENDS Integers, Sequences, FiniteSets, Functions

CONSTANTS
  HostNonces, DeviceNonces,  \* bound: the random nonces, drawn in turn
  MaxEarly,                  \* bound: starts while packets are under way
  MaxRequest,                \* bound: requests the host sends
  MaxReset,                  \* bound: resets of the device
  Torn,                      \* whether a reset may cut a packet short
  GoesOn                     \* whether a caller uses the channel after a timeout

\* No two starts whose packets are under way together have the same nonce.
ASSUME SessionAssumption ==
  /\ HostNonces \in Seq(1 .. 255) /\ DeviceNonces \in Seq(1 .. 255)
  /\ {MaxEarly, MaxRequest, MaxReset} \subseteq Nat /\ {Torn, GoesOn} \subseteq BOOLEAN
  /\ Len(HostNonces) > MaxEarly /\ Len(DeviceNonces) > MaxReset

Ends == {"host", "device"}

\* enum class MessageType
kStartSessionInit == 0
kStartSessionReply == 1
kTerminateSession == 2
kLog == 3
kNormal == 16
Control == {kStartSessionInit, kStartSessionReply, kTerminateSession}
kVersion == 1
kInvalidNonce == 0
LogByte == 200     \* the text of a log message

VARIABLES
  sess,       \* end -> its Session
  wire,       \* end -> the packets under way to it
  channel,    \* the host's channel
  message_,   \* message_buffer_ of the channel: what Recv reads next
  asked, got, \* the number of the last request, and what Recv returned for it
  drawn,      \* end -> the index of the nonce it drew last
  early,      \* the starts that are left to be made while packets are under way
  resets      \* the resets that are left

vars == <<sess, wire, channel, message_, asked, got, drawn, early, resets>>

\* A packet: the bytes of the payload, and whether the packet is complete.
Packet(id, type, body) == [bytes |-> <<id[1], id[2], type>> \o body, whole |-> TRUE]

NewSession == [state_ |-> "kReset", local_nonce_ |-> kInvalidNonce, session_id_ |-> <<0, 0>>,
               complete |-> {}, receive_buffer_ |-> <<>>]
-----------------------------------------------------------------------------
(* Session: the operations return the session after them and what they send. *)

\* The middle bits are lost; the sum stays below 256 and is not 0.
RegenerateNonce(n) == ((n % 8) * 32 + n \div 32 + 1) % 256

StartSession(s) ==
  LET n == RegenerateNonce(s.local_nonce_)
  IN  [s |-> [s EXCEPT !.local_nonce_ = n, !.session_id_ = <<n, 0>>,
                       !.state_ = "kStartSessionSent"],
       out |-> <<Packet(<<n, 0>>, kStartSessionInit, <<kVersion>>)>>]

\* Initialize: also TerminateSession.
Initialize(s, nonce) ==
  [s |-> [s EXCEPT !.local_nonce_ = nonce, !.session_id_ = <<0, 0>>,
                   !.state_ = "kNoSessionEstablished"],
   out |-> <<Packet(<<0, 0>>, kTerminateSession, <<>>)>>]

SendSessionStartReply(s, initiator) ==
  LET n == RegenerateNonce(s.local_nonce_)
  IN  [s |-> [s EXCEPT !.local_nonce_ = n, !.session_id_ = <<initiator, n>>,
                       !.state_ = "kSessionEstablished"],
       out |-> <<Packet(<<initiator, n>>, kStartSessionReply, <<kVersion>>)>>]

Silent(s) == [s |-> s, out |-> <<>>]

\* The payload of a start or a reply is one byte, the version.
VersionRead(s) == [s EXCEPT !.receive_buffer_ = Tail(@)]

ProcessStartSessionInit(s, id) ==
  IF id[1] = kInvalidNonce \/ s.receive_buffer_ = <<>> THEN Silent(s)
  ELSE LET version == Head(s.receive_buffer_)
           t == VersionRead(s)
       IN  CASE s.state_ # "kStartSessionSent" -> SendSessionStartReply(t, id[1])
             [] s.state_ = "kStartSessionSent" /\ id[1] < s.local_nonce_
                  /\ version = kVersion -> SendSessionStartReply(t, id[1])
             [] s.state_ = "kStartSessionSent" /\ id[1] = s.local_nonce_ -> StartSession(t)
             [] OTHER -> Silent(t)

\* Any reply will do.
ReplyIsMineAny(s, id) == TRUE

ReplyIsMine(s, id) == id[1] = s.local_nonce_

\* The responder's nonce is not taken over.
EstablishedHalf(s, id) == [s EXCEPT !.state_ = "kSessionEstablished"]

Established(s, id) ==
  [s EXCEPT !.session_id_ = <<s.local_nonce_, id[2]>>, !.state_ = "kSessionEstablished"]

ProcessStartSessionReply(s, id) ==
  IF id[2] = kInvalidNonce \/ s.receive_buffer_ = <<>> THEN Silent(s)
  ELSE LET version == Head(s.receive_buffer_)
           t == VersionRead(s)
       IN  Silent(CASE s.state_ = "kStartSessionSent" /\ ReplyIsMine(s, id)
                         /\ version = kVersion -> Established(t, id)
                    [] s.state_ = "kSessionEstablished" -> [t EXCEPT !.state_ = "kReset"]
                    [] OTHER -> t)

\* A terminate message stays in the buffer.
TerminateKept(s) ==
  Silent([s EXCEPT !.complete = {kTerminateSession},
                   !.state_ = IF @ = "kSessionEstablished" THEN "kNoSessionEstablished" ELSE @])

Terminate(s) ==
  Silent([s EXCEPT !.state_ = IF @ = "kSessionEstablished" THEN "kNoSessionEstablished" ELSE @])

ClearReceiveBuffer(s) == [s EXCEPT !.complete = {}, !.receive_buffer_ = <<>>]

Accepts(s, id) == s.state_ = "kSessionEstablished" /\ id = s.session_id_

\* PacketDone of SessionReceiver: the session after it, what it sends, and the message
\* that is handed to message_received_func_, if any.
PacketDone(s) ==
  IF Len(s.receive_buffer_) < 3
  THEN [s |-> [s EXCEPT !.receive_buffer_ = <<>>], out |-> <<>>, received |-> <<>>]
  ELSE LET id == <<s.receive_buffer_[1], s.receive_buffer_[2]>>
           type == s.receive_buffer_[3]
           t == [s EXCEPT !.receive_buffer_ = SubSeq(@, 4, Len(@))]
           r == CASE type = kStartSessionInit  -> ProcessStartSessionInit(t, id)
                  [] type = kStartSessionReply -> ProcessStartSessionReply(t, id)
                  [] type = kTerminateSession  -> Terminate(t)
                  [] OTHER                     -> Silent([t EXCEPT !.complete = {type}])
           forMe == CASE type \in Control -> FALSE
                      [] type = kLog      -> id \in {<<0, 0>>, s.session_id_}
                      [] OTHER            -> Accepts(s, id)
       IN  [s |-> r.s, out |-> r.out,
            received |-> IF forMe THEN <<[type |-> type, body |-> t.receive_buffer_]>> ELSE <<>>]

\* Write, and PacketDone if the packet is complete: a packet that comes while a complete
\* message is in the buffer is lost; of one that was cut short the bytes stay there.
Receive(s, p) ==
  LET t == [s EXCEPT !.receive_buffer_ = @ \o p.bytes]
  IN  IF s.complete = {} /\ p.whole THEN PacketDone(t)
      ELSE [s |-> IF s.complete = {} THEN t ELSE s, out |-> <<>>, received |-> <<>>]

\* What was handed over, without its header, if it is of the type.
Bodies(received, type) ==
  IF received # <<>> /\ Head(received).type = type THEN <<Head(received).body>> ELSE <<>>
-----------------------------------------------------------------------------
\* GenerateRandomNonce and TVMPlatformGenerateRandom: the nonces one after the other.
Nonces(e) == IF e = "host" THEN HostNonces ELSE DeviceNonces
Drawn(e) == (drawn[e] % Len(Nonces(e))) + 1

Log == Packet(<<0, 0>>, kLog, <<LogByte>>)

\* MicroTVMRpcServerInit, and the log message of the board's main function.
Boot(n) ==
  LET r == Initialize(NewSession, n)
  IN  [s |-> r.s, out |-> Append(r.out, Log)]

Init ==
  /\ sess = [host |-> NewSession, device |-> Boot(DeviceNonces[1]).s]
  /\ wire = [host |-> Boot(DeviceNonces[1]).out, device |-> <<>>]
  /\ drawn = [host |-> 0, device |-> 1]
  /\ channel = "closed"
  /\ message_ = <<>>
  /\ asked = 0
  /\ got = <<>>
  /\ early = MaxEarly
  /\ resets = MaxReset

\* What an end that opens finds of the packets that were sent before.
Heard(w) == {SubSeq(w, k, Len(w)) : k \in 1 .. Len(w) + 1}
-----------------------------------------------------------------------------
(* The host *)

\* Initialize and StartSession of StartSessionInternal.
Started(s, n) ==
  LET i == Initialize(s, n)
      r == StartSession(i.s)
  IN  [s |-> r.s, out |-> i.out \o r.out]

\* One more start, of session s, by a host that finds the packets "heard".
Start(s, heard) ==
  LET r == Started(s, HostNonces[Drawn("host")])
      quiet == \A e \in Ends : wire[e] = <<>>
  IN  /\ quiet \/ early > 0
      /\ early' = IF quiet THEN early ELSE early - 1
      /\ sess' = [sess EXCEPT !["host"] = r.s]
      /\ wire' = [host |-> heard, device |-> wire["device"] \o r.out]
      /\ drawn' = [drawn EXCEPT !["host"] = Drawn("host")]

\* A new channel over the transport.
Open ==
  /\ channel = "closed"
  /\ \E heard \in Heard(wire["host"]) : Start(NewSession, heard)
  /\ channel' = "starting"
  /\ message_' = <<>>
  /\ UNCHANGED <<asked, got, resets>>

\* session_start_retry_timeout is over: another start, with the same receive buffer.
Retry ==
  /\ channel = "starting"
  /\ Start(sess["host"], wire["host"])
  /\ UNCHANGED <<channel, message_, asked, got, resets>>

\* session_start_timeout is over, or the user leaves the session.
Close ==
  /\ channel \in {"starting", "open"}
  /\ channel' = "closed"
  /\ UNCHANGED <<sess, wire, message_, asked, got, drawn, early, resets>>

\* session_established_timeout is over and Recv throws.  The caller leaves the session;
\* nothing would keep it from asking again.
Timeout ==
  /\ channel = "waiting"
  /\ channel' \in IF GoesOn THEN {"closed", "open"} ELSE {"closed"}
  /\ UNCHANGED <<sess, wire, message_, asked, got, drawn, early, resets>>

\* Send, and the call of Recv for the answer.
Send ==
  /\ channel = "open" /\ asked < MaxRequest
  /\ IF sess["host"].state_ = "kSessionEstablished"
     THEN /\ wire' = [wire EXCEPT !["device"] =
                        Append(@, Packet(sess["host"].session_id_, kNormal, <<asked + 1>>))]
          /\ channel' = "waiting"
     ELSE channel' = "closed" /\ UNCHANGED wire
  /\ asked' = asked + 1
  /\ got' = <<>>
  /\ UNCHANGED <<sess, message_, drawn, early, resets>>

\* ReceiveUntil: one packet, and HandleMessageReceived for what it brings.
HostReceive ==
  /\ channel \in {"starting", "waiting"} /\ wire["host"] # <<>>
  /\ channel = "waiting" => message_ = <<>>
  /\ LET r == Receive(sess["host"], Head(wire["host"]))
         s == IF \E b \in Range(Bodies(r.received, kLog)) : b # <<>>
              THEN ClearReceiveBuffer(r.s) ELSE r.s
         ended == /\ sess["host"].state_ = "kSessionEstablished"
                  /\ s.state_ = "kNoSessionEstablished"
     IN  /\ sess' = [sess EXCEPT !["host"] = s]
         /\ wire' = [host |-> Tail(wire["host"]), device |-> wire["device"] \o r.out]
         /\ message_' = IF Bodies(r.received, kNormal) = <<>> THEN message_
                        ELSE Bodies(r.received, kNormal)
         /\ channel' = CASE ended -> "closed"
                         [] channel = "starting" /\ s.state_ = "kSessionEstablished" -> "open"
                         [] OTHER -> channel
  /\ UNCHANGED <<asked, got, drawn, early, resets>>

\* message_buffer_ is not reset.
MessageKept == message_

MessageTaken == <<>>

\* Recv has a message.
Recv ==
  /\ channel = "waiting" /\ message_ # <<>>
  /\ got' = message_
  /\ message_' = MessageTaken
  /\ sess' = [sess EXCEPT !["host"] = ClearReceiveBuffer(@)]
  /\ channel' = "open"
  /\ UNCHANGED <<wire, asked, drawn, early, resets>>
-----------------------------------------------------------------------------
(* The device *)

\* Loop: one packet, and HandleCompleteMessage with the answer to a request.
DeviceReceive ==
  /\ wire["device"] # <<>> /\ sess["device"].complete = {}
  /\ LET r == Receive(sess["device"], Head(wire["device"]))
         requests == Bodies(r.received, kNormal)
         answers == [k \in DOMAIN requests |-> Packet(r.s.session_id_, kNormal, requests[k])]
     IN  /\ sess' = [sess EXCEPT !["device"] = IF requests = <<>> THEN r.s
                                               ELSE ClearReceiveBuffer(r.s)]
         /\ wire' = [device |-> Tail(wire["device"]), host |-> wire["host"] \o r.out \o answers]
  /\ UNCHANGED <<channel, message_, asked, got, drawn, early, resets>>

\* What is left of the last packet when the device is reset while it sends it.
CutShort(w) ==
  IF ~Torn \/ w = <<>> THEN {w}
  ELSE LET p == w[Len(w)]
       IN  {w} \union {[w EXCEPT ![Len(w)] = [bytes |-> SubSeq(p.bytes, 1, k), whole |-> FALSE]]
                         : k \in 1 .. Len(p.bytes)}

\* The device starts again, after it has sent the packets "sent".
Restart(sent) ==
  LET b == Boot(DeviceNonces[Drawn("device")])
  IN  /\ \E heard \in Heard(wire["device"]) : wire' = [host |-> sent \o b.out, device |-> heard]
      /\ sess' = [sess EXCEPT !["device"] = b.s]
      /\ drawn' = [drawn EXCEPT !["device"] = Drawn("device")]

\* The user, or the power, resets the device.
Reset ==
  /\ resets > 0
  /\ resets' = resets - 1
  /\ \E sent \in CutShort(wire["host"]) : Restart(sent)
  /\ UNCHANGED <<channel, message_, asked, got, early>>

\* A packet comes while a complete message is in the buffer: the main loop calls
\* TVMPlatformAbort, which logs the error and reboots.
Abort ==
  /\ wire["device"] # <<>> /\ sess["device"].complete # {}
  /\ Restart(Append(wire["host"], Log))
  /\ UNCHANGED <<channel, message_, asked, got, early, resets>>
-----------------------------------------------------------------------------
HostStep == HostReceive \/ Recv

DeviceStep == DeviceReceive \/ Abort

Next == Open \/ Retry \/ Close \/ Timeout \/ Send \/ HostStep \/ DeviceStep \/ Reset

Spec == Init /\ [][Next]_vars

\* Both ends read what comes, and a start without a reply is repeated.
FairSpec == Spec /\ WF_vars(HostStep) /\ WF_vars(DeviceStep) /\ WF_vars(Retry)
-----------------------------------------------------------------------------
(* Properties *)

Bytes == 0 .. 255

\* The variables hold values of their types; a nonce is a byte.
TypeOK ==
  /\ sess \in [Ends -> [state_ : {"kReset", "kNoSessionEstablished", "kStartSessionSent",
                                  "kSessionEstablished"},
                        local_nonce_ : Bytes, session_id_ : Bytes \X Bytes,
                        complete : SUBSET Bytes, receive_buffer_ : Seq(Bytes)]]
  /\ wire \in [Ends -> Seq([bytes : Seq(Bytes), whole : BOOLEAN])]
  /\ channel \in {"closed", "starting", "open", "waiting"}
  /\ message_ \in Seq(Seq(Bytes)) /\ got \in Seq(Seq(Bytes)) /\ asked \in 0 .. MaxRequest
  /\ drawn \in [Ends -> Nat] /\ early \in 0 .. MaxEarly /\ resets \in 0 .. MaxReset

\* Whether a packet that starts or ends a session is under way to an end.
Changing(e) == \E p \in Range(wire[e]) : Len(p.bytes) >= 3 /\ p.bytes[3] \in Control

\* Two ends that both have a session, with nothing under way that would change it, have
\* the same session: retries, replies that come late and resets have not mixed them up.
SessionsAgree ==
  (channel # "closed" /\ \A e \in Ends : sess[e].state_ = "kSessionEstablished" /\ ~Changing(e))
    => sess["host"].session_id_ = sess["device"].session_id_

\* Neither end falls back to kReset, the state in which it has lost track of the protocol
\* (ProcessStartSessionReply), once it has been initialized.
NeverConfused ==
  /\ channel # "closed" => sess["host"].state_ # "kReset"
  /\ sess["device"].state_ # "kReset"

\* What Recv returns is the answer to the request it was called for: no answer of an
\* earlier session, and nothing that was put together from pieces (PacketDone and Recv);
\* for callers that leave the session after a timeout, and resets between two packets.
AnswerIsOwn == got # <<>> => got = <<<<asked>>>>

\* A message for another session has been left in the receive buffer of the host, whose
\* session takes no more packets (SessionReceiver::Write).
Stuck == kNormal \in sess["host"].complete

\* A start that is repeated ends in a session, whatever came before: retries, resets of
\* the device, reboots that lose the start and what is left of earlier sessions; unless
\* the host is stuck.
StartSucceeds == channel = "starting" ~> (channel # "starting" \/ Stuck)

\* "Start a new session regardless of state": no exception.
StartAlwaysSucceeds == channel = "starting" ~> channel # "starting"
=============================================================================
