------------------------- MODULE MicroSessionProofs -------------------------
(***************************************************************************)
(* Proofs about MicroSession, for all numbers of starts, requests and      *)
(* resets, and all nonces: the two ends agree on the session, neither      *)
(* loses track of the protocol, and Recv returns the answer to the request *)
(* it was called for.                                                      *)
(***************************************************************************)
EXTENDS MicroSession, SequenceTheorems, TLAPS

\* A leaf goes to Zenon unless it names another prover.
USE Zenon

\* The nonces that the host sends, after RegenerateNonce, differ.
NoncesDiffer ==
  \A i, j \in 1 .. Len(HostNonces) :
    RegenerateNonce(HostNonces[i]) = RegenerateNonce(HostNonces[j]) => i = j

\* The bytes of packets, as numbers without a bound.
Byte == Nat

States == {"kReset", "kNoSessionEstablished", "kStartSessionSent", "kSessionEstablished"}
Ids == Byte \X Byte
NonceBytes == 0 .. 255

Sessions ==
  [state_ : States, local_nonce_ : NonceBytes, session_id_ : Ids, complete : SUBSET Byte,
   receive_buffer_ : Seq(Byte)]

\* Packets that are complete.
Messages == [bytes : Seq(Byte), whole : {TRUE}]

IsType(p, type) == Len(p.bytes) >= 3 /\ p.bytes[3] = type
IsInit(p) == IsType(p, kStartSessionInit)
IsReply(p) == IsType(p, kStartSessionReply)
IsNormal(p) == IsType(p, kNormal)
Id(p) == <<p.bytes[1], p.bytes[2]>>

InitForm(p) == Len(p.bytes) = 4 /\ IsInit(p) /\ p.bytes[4] = kVersion /\ p.bytes[1] # 0
ReplyForm(p) == Len(p.bytes) = 4 /\ IsReply(p) /\ p.bytes[4] = kVersion /\ p.bytes[2] # 0
NormalForm(p) == Len(p.bytes) = 4 /\ IsNormal(p)
TermForm(p) == Len(p.bytes) = 3 /\ IsType(p, kTerminateSession)
LogForm(p) == Len(p.bytes) = 4 /\ IsType(p, kLog) /\ Id(p) = <<0, 0>>

\* The packets that are sent to the two ends.
DeviceMessages == {p \in Messages : InitForm(p) \/ NormalForm(p) \/ TermForm(p)}
HostMessages == {p \in Messages : ReplyForm(p) \/ NormalForm(p) \/ TermForm(p) \/ LogForm(p)}

RangeInv ==
  /\ sess \in [Ends -> Sessions]
  /\ wire \in [host : Seq(HostMessages), device : Seq(DeviceMessages)]
  /\ channel \in {"closed", "starting", "open", "waiting"}
  /\ asked \in Byte /\ drawn \in [Ends -> Nat] /\ early \in 0 .. MaxEarly
  /\ drawn["host"] <= Len(HostNonces)
  /\ drawn["device"] \in 1 .. Len(DeviceNonces)

\* A message is complete in the receive buffer, or the buffer is empty.
BufferInv ==
  \A e \in Ends : sess[e].complete # {} \/ sess[e].receive_buffer_ = <<>>

\* The nonce of the present start.
Mine == RegenerateNonce(HostNonces[drawn["host"]])

\* The index of the nonce that was drawn a times before that of index d.
Back(d, a) == IF a < d THEN d - a ELSE (d - a) + Len(HostNonces)

\* The nonces of the starts since the last one that found no packet under way.
Recent == {RegenerateNonce(HostNonces[Back(drawn["host"], a)]) : a \in 0 .. MaxEarly - early}

RecentInv ==
  /\ \A i \in 1 .. Len(wire["device"]) :
       IsInit(wire["device"][i]) \/ IsNormal(wire["device"][i]) =>
         wire["device"][i].bytes[1] \in Recent
  /\ \A i \in 1 .. Len(wire["host"]) :
       IsReply(wire["host"][i]) \/ IsNormal(wire["host"][i]) =>
         wire["host"][i].bytes[1] \in Recent

\* Where the ends are.
PhaseInv ==
  /\ sess["device"].state_ \in {"kNoSessionEstablished", "kSessionEstablished"}
  /\ channel # "closed" => drawn["host"] > 0 /\ sess["host"].local_nonce_ = Mine
  /\ channel = "starting" => sess["host"].state_ = "kStartSessionSent"
  /\ channel \in {"open", "waiting"} =>
       sess["host"].state_ = "kSessionEstablished" /\ sess["host"].session_id_[1] = Mine

\* The start with the present nonce is the last of those under way to the device.
StartInv ==
  channel # "closed" =>
    \A i \in 1 .. Len(wire["device"]) : IsInit(wire["device"][i]) =>
      /\ \E j \in i .. Len(wire["device"]) :
           IsInit(wire["device"][j]) /\ wire["device"][j].bytes[1] = Mine
      /\ wire["device"][i].bytes[1] = Mine =>
           \A j \in i + 1 .. Len(wire["device"]) : ~IsInit(wire["device"][j])

\* A reply to the present start is the last of the replies, no start is under way any
\* more, and the session of the device, if it still has one, is that of the reply.
ReplyInv ==
  channel # "closed" =>
    \A i \in 1 .. Len(wire["host"]) :
      IsReply(wire["host"][i]) /\ wire["host"][i].bytes[1] = Mine =>
        /\ \A j \in 1 .. Len(wire["device"]) : ~IsInit(wire["device"][j])
        /\ \A j \in i + 1 .. Len(wire["host"]) : ~IsReply(wire["host"][j])
        /\ sess["device"].state_ = "kSessionEstablished" =>
             sess["device"].session_id_ = Id(wire["host"][i])

\* Once the host has the session nothing is under way that could change it, but for the
\* end of it.
AgreeInv ==
  channel \in {"open", "waiting"} =>
    /\ \A j \in 1 .. Len(wire["device"]) : ~IsInit(wire["device"][j])
    /\ \A j \in 1 .. Len(wire["host"]) : ~IsReply(wire["host"][j])
    /\ sess["device"].state_ = "kSessionEstablished" =>
         sess["device"].session_id_ = sess["host"].session_id_

\* Requests and answers of the present session.
Own(p) == IsNormal(p) /\ p.bytes[1] = Mine
NoneUnderWay == \A e \in Ends : \A i \in 1 .. Len(wire[e]) : ~Own(wire[e][i])

\* There is at most one, of the request that was made last.
OwnOnce ==
  \A e \in Ends : \A i \in 1 .. Len(wire[e]) : Own(wire[e][i]) =>
    /\ wire[e][i].bytes[4] = asked
    /\ \A f \in Ends : \A j \in 1 .. Len(wire[f]) : Own(wire[f][j]) => e = f /\ i = j

OwnInv ==
  /\ got # <<>> => got = <<<<asked>>>>
  /\ channel \in {"starting", "open"} => NoneUnderWay /\ message_ = <<>>
  /\ channel = "waiting" =>
       OwnOnce /\ (message_ # <<>> => message_ = <<<<asked>>>> /\ NoneUnderWay)

Inv0 ==
  /\ RangeInv /\ BufferInv /\ RecentInv /\ PhaseInv /\ StartInv /\ ReplyInv /\ AgreeInv

IInv == Inv0 /\ (~GoesOn => OwnInv)
-----------------------------------------------------------------------------
(* What the operators of the session return. *)

\* The kinds of messages are distinct.
LEMMA Kinds ==
  /\ kStartSessionInit = 0 /\ kStartSessionReply = 1 /\ kTerminateSession = 2 /\ kLog = 3
  /\ kNormal = 16 /\ kVersion = 1 /\ kInvalidNonce = 0 /\ LogByte = 200
  /\ Control = {0, 1, 2}
  BY DEF kStartSessionInit, kStartSessionReply, kTerminateSession, kLog, kNormal, kVersion,
         kInvalidNonce, LogByte, Control

\* RegenerateNonce returns a byte, and never the invalid nonce.
LEMMA NonceLemma ==
  \A n \in NonceBytes : RegenerateNonce(n) \in NonceBytes \ {0}
<1> SUFFICES ASSUME NEW n \in NonceBytes PROVE RegenerateNonce(n) \in NonceBytes \ {0}
  OBVIOUS
<1> DEFINE a == n % 8
           b == n \div 32
<1>1. a \in 0 .. 7 /\ b \in 0 .. 7
  BY SMTT(30) DEF NonceBytes
<1>2. RegenerateNonce(n) = ((a * 32 + b) + 1) % 256
  BY DEF RegenerateNonce
<1> HIDE DEF a, b
<1>3. (a * 32 + b) + 1 \in 1 .. 232
  BY SMTT(30), <1>1
<1>4. RegenerateNonce(n) \in 1 .. 255
  BY SMTT(30), <1>2, <1>3
<1> QED  BY SMTT(30), <1>4 DEF NonceBytes

\* The elements of a concatenation.
LEMMA CatLemma ==
  ASSUME NEW S, NEW h \in Seq(S), NEW t \in Seq(S)
  PROVE  /\ h \o t \in Seq(S) /\ Len(h \o t) = Len(h) + Len(t)
         /\ \A i \in 1 .. Len(h) : (h \o t)[i] = h[i]
         /\ \A i \in Len(h) + 1 .. Len(h) + Len(t) : (h \o t)[i] = t[i - Len(h)]
  BY SMTT(30)

\* Two sequences of four elements.
LEMMA FourEqual ==
  ASSUME NEW S, NEW v \in Seq(S), NEW w \in Seq(S), Len(v) = 4, Len(w) = 4,
         v[1] = w[1], v[2] = w[2], v[3] = w[3], v[4] = w[4]
  PROVE  v = w
<1>1. ASSUME NEW i \in 1 .. 4 PROVE v[i] = w[i]
  <2>1. i = 1 \/ i = 2 \/ i = 3 \/ i = 4
    BY SMTT(30)
  <2> QED  BY <2>1
<1> QED  BY <1>1, SeqEqual

\* Two packets, one after the other.
LEMMA PairLemma ==
  ASSUME NEW p, NEW q
  PROVE  <<p>> \o <<q>> = <<p, q>>
<1> DEFINE S == {p, q}
           h == <<p>>
           t == <<q>>
           v == h \o t
           w == <<p, q>>
<1>1. h \in Seq(S) /\ Len(h) = 1 /\ h[1] = p
  BY SMTT(30)
<1>2. t \in Seq(S) /\ Len(t) = 1 /\ t[1] = q
  BY SMTT(30)
<1>3. w \in Seq(S) /\ Len(w) = 2 /\ w[1] = p /\ w[2] = q
  BY SMTT(30)
<1> HIDE DEF S, h, t, w
<1>4. v \in Seq(S) /\ Len(v) = Len(h) + Len(t)
  BY <1>1, <1>2, CatLemma
<1>5. \A i \in 1 .. Len(h) : v[i] = h[i]
  BY <1>1, <1>2, CatLemma
<1>6. \A i \in Len(h) + 1 .. Len(h) + Len(t) : v[i] = t[i - Len(h)]
  BY <1>1, <1>2, CatLemma
<1> HIDE DEF v
<1>7. Len(v) = 2 /\ v[1] = p /\ v[2] = q
  BY SMTT(30), <1>1, <1>2, <1>4, <1>5, <1>6
<1>8. ASSUME NEW i \in 1 .. 2 PROVE v[i] = w[i]
  <2>1. i = 1 \/ i = 2
    BY SMTT(30)
  <2> QED  BY <1>3, <1>7, <2>1
<1>9. v = w
  BY <1>3, <1>4, <1>7, <1>8, SeqEqual
<1> QED  BY <1>9 DEF h, t, v, w

LEMMA AppendLemma ==
  ASSUME NEW p, NEW q
  PROVE  Append(<<p>>, q) = <<p, q>>
<1> DEFINE S == {p, q}
           h == <<p>>
           v == Append(h, q)
           w == <<p, q>>
<1>1. h \in Seq(S) /\ Len(h) = 1 /\ h[1] = p /\ q \in S
  BY SMTT(30)
<1>2. w \in Seq(S) /\ Len(w) = 2 /\ w[1] = p /\ w[2] = q
  BY SMTT(30)
<1> HIDE DEF S, h, w
<1>3. v \in Seq(S) /\ Len(v) = Len(h) + 1 /\ v[1] = h[1] /\ v[Len(h) + 1] = q
  <2>1. h \in Seq(S) /\ q \in S
    BY <1>1
  <2>2. /\ v \in Seq(S) /\ Len(v) = Len(h) + 1 /\ v[Len(h) + 1] = q
        /\ \A i \in 1 .. Len(h) : v[i] = h[i]
    BY SMTT(30), <2>1
  <2> QED  BY SMTT(30), <1>1, <2>2
<1> HIDE DEF v
<1>4. Len(v) = 2 /\ v[1] = p /\ v[2] = q
  BY SMTT(30), <1>1, <1>3
<1>5. ASSUME NEW i \in 1 .. 2 PROVE v[i] = w[i]
  <2>1. i = 1 \/ i = 2
    BY SMTT(30)
  <2> QED  BY <1>2, <1>4, <2>1
<1>6. v = w
  BY <1>2, <1>3, <1>4, <1>5, SeqEqual
<1> QED  BY <1>6 DEF h, v, w

\* The bytes of a packet (SendInternal).
LEMMA EmptyPacket ==
  ASSUME NEW a \in Byte, NEW b \in Byte, NEW type \in Byte
  PROVE  Packet(<<a, b>>, type, <<>>) = [bytes |-> <<a, b, type>>, whole |-> TRUE]
<1>1. <<a, b, type>> \o <<>> = <<a, b, type>>
  BY SMTT(30)
<1>2. <<a, b>>[1] = a /\ <<a, b>>[2] = b
  OBVIOUS
<1> QED  BY <1>1, <1>2 DEF Packet

LEMMA PacketLemma ==
  ASSUME NEW a \in Byte, NEW b \in Byte, NEW type \in Byte, NEW x \in Byte
  PROVE  Packet(<<a, b>>, type, <<x>>) = [bytes |-> <<a, b, type, x>>, whole |-> TRUE]
<1> DEFINE h == <<a, b, type>>
           t == <<x>>
           v == h \o t
           w == <<a, b, type, x>>
<1>1. h \in Seq(Byte) /\ Len(h) = 3 /\ h[1] = a /\ h[2] = b /\ h[3] = type
  BY SMTT(30)
<1>2. t \in Seq(Byte) /\ Len(t) = 1 /\ t[1] = x
  BY SMTT(30)
<1>3. w \in Seq(Byte) /\ Len(w) = 4 /\ w[1] = a /\ w[2] = b /\ w[3] = type /\ w[4] = x
  BY SMTT(30)
<1> HIDE DEF h, t, w
<1>4. v \in Seq(Byte) /\ Len(v) = Len(h) + Len(t)
  BY <1>1, <1>2, CatLemma
<1>5. \A i \in 1 .. Len(h) : v[i] = h[i]
  BY SMTT(30), <1>1, <1>2, CatLemma
<1>6. \A i \in Len(h) + 1 .. Len(h) + Len(t) : v[i] = t[i - Len(h)]
  BY <1>1, <1>2, CatLemma
<1> HIDE DEF v
<1>7. Len(v) = 4
  BY SMTT(30), <1>1, <1>2, <1>4
<1>8. v[1] = a /\ v[2] = b /\ v[3] = type
  BY SMTT(30), <1>1, <1>5
<1>9. v[4] = x
  BY SMTT(30), <1>1, <1>2, <1>6
<1>10. v = w
  BY <1>3, <1>4, <1>7, <1>8, <1>9, FourEqual
<1>11. h \o t = w
  BY <1>10 DEF v
<1>12. <<a, b>>[1] = a /\ <<a, b>>[2] = b
  OBVIOUS
<1> QED  BY <1>11, <1>12 DEF Packet, h, t, w

\* What is left of a message behind its header.
LEMMA BodyLemma ==
  ASSUME NEW b \in Seq(Byte)
  PROVE  /\ Len(b) = 3 => SubSeq(b, 4, Len(b)) = <<>>
         /\ Len(b) = 4 => SubSeq(b, 4, Len(b)) = <<b[4]>> /\ b[4] \in Byte
<1>1. CASE Len(b) = 3
  <2>1. SubSeq(b, 4, 3) = <<>>
    BY SMTT(30)
  <2> QED  BY SMTT(30), <1>1, <2>1
<1>2. CASE Len(b) = 4
  <2>1. b[4] \in Byte
    BY SMTT(30), <1>2
  <2> DEFINE c == SubSeq(b, 4, 4)
  <2>2. c \in Seq(Byte) /\ Len(c) = 1 /\ c[1] = b[4]
    <3>1. \A i \in 4 .. 4 : b[i] \in Byte
      BY SMTT(30), <2>1
    <3> QED  BY SMTT(30), <3>1, SubSeqProperties
  <2>3. \A x \in Byte : <<x>> \in Seq(Byte) /\ Len(<<x>>) = 1 /\ <<x>>[1] = x
    BY SMTT(30)
  <2> HIDE DEF c
  <2>4. c = <<b[4]>>
    BY SMTT(30), <2>1, <2>2, <2>3, SeqEqual
  <2> QED  BY SMTT(30), <1>2, <2>1, <2>4 DEF c
<1> QED  BY <1>1, <1>2

\* The state that Receive hands to PacketDone: the buffer holds just the packet.
LEMMA ReceiveDone ==
  ASSUME NEW s \in Sessions, NEW p \in Messages, s.complete = {}, s.receive_buffer_ = <<>>
  PROVE  Receive(s, p) = PacketDone([s EXCEPT !.receive_buffer_ = p.bytes])
<1>1. <<>> \o p.bytes = p.bytes
  BY SMTT(30) DEF Messages
<1>2. p.whole = TRUE
  BY DEF Messages
<1> QED  BY <1>1, <1>2 DEF Receive

\* A session whose receive buffer holds a complete message takes no packet.
LEMMA ReceiveFull ==
  ASSUME NEW s \in Sessions, NEW p \in Messages, s.complete # {}
  PROVE  Receive(s, p) = [s |-> s, out |-> <<>>, received |-> <<>>]
  BY DEF Receive

\* What a session with an empty buffer makes of a complete packet (PacketDone).
LEMMA DoneLemma ==
  ASSUME NEW s \in Sessions, NEW p \in Messages, s.complete = {}, s.receive_buffer_ = <<>>,
         Len(p.bytes) >= 3, NEW t, NEW body,
         body = SubSeq(p.bytes, 4, Len(p.bytes)), t = [s EXCEPT !.receive_buffer_ = body]
  PROVE  /\ p.bytes[3] = kStartSessionInit =>
              Receive(s, p) = [s |-> ProcessStartSessionInit(t, Id(p)).s,
                               out |-> ProcessStartSessionInit(t, Id(p)).out,
                               received |-> <<>>]
         /\ p.bytes[3] = kStartSessionReply =>
              Receive(s, p) = [s |-> ProcessStartSessionReply(t, Id(p)).s,
                               out |-> ProcessStartSessionReply(t, Id(p)).out,
                               received |-> <<>>]
         /\ p.bytes[3] = kTerminateSession =>
              Receive(s, p) = [s |-> Terminate(t).s, out |-> Terminate(t).out,
                               received |-> <<>>]
         /\ p.bytes[3] = kLog =>
              Receive(s, p) = [s |-> [t EXCEPT !.complete = {kLog}], out |-> <<>>,
                               received |-> IF Id(p) \in {<<0, 0>>, s.session_id_}
                                            THEN <<[type |-> kLog, body |-> body]>> ELSE <<>>]
         /\ p.bytes[3] = kNormal =>
              Receive(s, p) = [s |-> [t EXCEPT !.complete = {kNormal}], out |-> <<>>,
                               received |-> IF Accepts(s, Id(p))
                                            THEN <<[type |-> kNormal, body |-> body]>>
                                            ELSE <<>>]
<1> DEFINE b == p.bytes
           v == [s EXCEPT !.receive_buffer_ = b]
<1>1. v.receive_buffer_ = b /\ v.session_id_ = s.session_id_ /\ v.state_ = s.state_
  BY DEF Sessions
<1>2. [v EXCEPT !.receive_buffer_ = SubSeq(@, 4, Len(@))] = t
  BY DEF Sessions
<1>3. t.receive_buffer_ = body
  BY DEF Sessions
<1>4. Accepts(v, Id(p)) = Accepts(s, Id(p))
  BY <1>1 DEF Accepts
<1>5. ~(Len(b) < 3)
  BY SMTT(30) DEF Messages
<1>6. Receive(s, p) = PacketDone(v)
  BY ReceiveDone
<1>7. <<b[1], b[2]>> = Id(p)
  BY DEF Id
<1> HIDE DEF v
<1>8. CASE b[3] = kStartSessionInit
  <2>1. /\ b[3] # kStartSessionReply /\ b[3] # kTerminateSession
        /\ b[3] \in Control /\ b[3] # kLog
    BY SMTT(30), <1>8, Kinds
  <2>2. PacketDone(v) = [s |-> ProcessStartSessionInit(t, Id(p)).s,
                         out |-> ProcessStartSessionInit(t, Id(p)).out, received |-> <<>>]
    BY <1>1, <1>2, <1>5, <1>7, <1>8, <2>1 DEF PacketDone
  <2> QED  BY SMTT(30), <1>6, <1>8, <2>2, Kinds
<1>9. CASE b[3] = kStartSessionReply
  <2>1. PacketDone(v) = [s |-> ProcessStartSessionReply(t, Id(p)).s,
                         out |-> ProcessStartSessionReply(t, Id(p)).out, received |-> <<>>]
    BY SMTT(30), <1>1, <1>2, <1>5, <1>7, <1>9, Kinds DEF PacketDone
  <2> QED  BY SMTT(30), <1>6, <1>9, <2>1, Kinds
<1>10. CASE b[3] = kTerminateSession
  <2>1. PacketDone(v) = [s |-> Terminate(t).s, out |-> Terminate(t).out, received |-> <<>>]
    BY SMTT(30), <1>1, <1>2, <1>5, <1>7, <1>10, Kinds DEF PacketDone
  <2> QED  BY SMTT(30), <1>6, <1>10, <2>1, Kinds
<1>11. CASE b[3] = kLog
  <2> DEFINE r == [t EXCEPT !.complete = {kLog}]
             forMe == Id(p) \in {<<0, 0>>, s.session_id_}
  <2>1. /\ b[3] # kStartSessionInit /\ b[3] # kStartSessionReply /\ b[3] # kTerminateSession
        /\ b[3] \notin Control
    BY SMTT(30), <1>11, Kinds
  <2>2. /\ Silent([t EXCEPT !.complete = {b[3]}]).s = r
        /\ Silent([t EXCEPT !.complete = {b[3]}]).out = <<>>
    BY <1>11 DEF Silent
  <2>3. CASE forMe
    <3>1. PacketDone(v) = [s |-> r, out |-> <<>>,
                           received |-> <<[type |-> b[3], body |-> body]>>]
      BY <1>1, <1>2, <1>3, <1>5, <1>7, <1>11, <2>1, <2>2, <2>3 DEF PacketDone
    <3> QED  BY SMTT(30), <1>6, <1>11, <2>3, <3>1, Kinds
  <2>4. CASE ~forMe
    <3>1. PacketDone(v) = [s |-> r, out |-> <<>>, received |-> <<>>]
      BY <1>1, <1>2, <1>3, <1>5, <1>7, <1>11, <2>1, <2>2, <2>4 DEF PacketDone
    <3> QED  BY SMTT(30), <1>6, <1>11, <2>4, <3>1, Kinds
  <2> QED  BY <2>3, <2>4
<1>12. CASE b[3] = kNormal
  <2> DEFINE r == [t EXCEPT !.complete = {kNormal}]
             forMe == Accepts(s, Id(p))
  <2>1. /\ b[3] # kStartSessionInit /\ b[3] # kStartSessionReply /\ b[3] # kTerminateSession
        /\ b[3] \notin Control /\ b[3] # kLog
    BY SMTT(30), <1>12, Kinds
  <2>2. /\ Silent([t EXCEPT !.complete = {b[3]}]).s = r
        /\ Silent([t EXCEPT !.complete = {b[3]}]).out = <<>>
    BY <1>12 DEF Silent
  <2>3. CASE forMe
    <3>1. PacketDone(v) = [s |-> r, out |-> <<>>,
                           received |-> <<[type |-> b[3], body |-> body]>>]
      BY <1>1, <1>2, <1>3, <1>4, <1>5, <1>7, <1>12, <2>1, <2>2, <2>3 DEF PacketDone
    <3> QED  BY SMTT(30), <1>6, <1>12, <2>3, <3>1, Kinds
  <2>4. CASE ~forMe
    <3>1. PacketDone(v) = [s |-> r, out |-> <<>>, received |-> <<>>]
      BY <1>1, <1>2, <1>3, <1>4, <1>5, <1>7, <1>12, <2>1, <2>2, <2>4 DEF PacketDone
    <3> QED  BY SMTT(30), <1>6, <1>12, <2>4, <3>1, Kinds
  <2> QED  BY <2>3, <2>4
<1> QED  BY <1>8, <1>9, <1>10, <1>11, <1>12

\* Nothing is handed over, or one message.
LEMMA BodiesLemma ==
  ASSUME NEW type, NEW body
  PROVE  /\ Bodies(<<>>, type) = <<>>
         /\ Bodies(<<[type |-> type, body |-> body]>>, type) = <<body>>
         /\ \A other : other # type => Bodies(<<[type |-> type, body |-> body]>>, other) = <<>>
<1> DEFINE m == [type |-> type, body |-> body]
<1>1. m.type = type /\ m.body = body
  OBVIOUS
<1> HIDE DEF m
<1>2. <<m>> # <<>> /\ Head(<<m>>) = m
  BY SMTT(30)
<1>3. Bodies(<<>>, type) = <<>>
  BY DEF Bodies
<1>4. Bodies(<<m>>, type) = <<body>>
  BY <1>1, <1>2 DEF Bodies
<1>5. ASSUME NEW other, other # type PROVE Bodies(<<m>>, other) = <<>>
  BY <1>1, <1>2, <1>5 DEF Bodies
<1> QED  BY <1>3, <1>4, <1>5 DEF m

\* The fields of a session after the assignments of the code.
LEMMA SetBuffer ==
  ASSUME NEW s \in Sessions, NEW b \in Seq(Byte), NEW t, t = [s EXCEPT !.receive_buffer_ = b]
  PROVE  /\ t \in Sessions /\ t.receive_buffer_ = b /\ t.complete = s.complete
         /\ t.state_ = s.state_ /\ t.local_nonce_ = s.local_nonce_
         /\ t.session_id_ = s.session_id_
  BY DEF Sessions

LEMMA SetComplete ==
  ASSUME NEW s \in Sessions, NEW c \in SUBSET Byte, NEW t, t = [s EXCEPT !.complete = c]
  PROVE  /\ t \in Sessions /\ t.receive_buffer_ = s.receive_buffer_ /\ t.complete = c
         /\ t.state_ = s.state_ /\ t.local_nonce_ = s.local_nonce_
         /\ t.session_id_ = s.session_id_
  BY DEF Sessions

LEMMA SetState ==
  ASSUME NEW s \in Sessions, NEW st \in States, NEW t, t = [s EXCEPT !.state_ = st]
  PROVE  /\ t \in Sessions /\ t.receive_buffer_ = s.receive_buffer_ /\ t.complete = s.complete
         /\ t.state_ = st /\ t.local_nonce_ = s.local_nonce_ /\ t.session_id_ = s.session_id_
  BY DEF Sessions

\* The sessions s and t are the same but for their receive buffers.
Alike(s, t) ==
  /\ t \in Sessions /\ t.state_ = s.state_ /\ t.local_nonce_ = s.local_nonce_
  /\ t.session_id_ = s.session_id_

\* The receive buffer is free.
Free(s) == s.complete = {} /\ s.receive_buffer_ = <<>>

\* A termination ends a session that is established.
LEMMA ReceiveTerm ==
  ASSUME NEW s \in Sessions, NEW p \in Messages, Free(s), TermForm(p), NEW r, r = Receive(s, p)
  PROVE  /\ r.out = <<>> /\ r.received = <<>> /\ r.s \in Sessions /\ Free(r.s)
         /\ r.s.local_nonce_ = s.local_nonce_ /\ r.s.session_id_ = s.session_id_
         /\ r.s.state_ = IF s.state_ = "kSessionEstablished" THEN "kNoSessionEstablished"
                         ELSE s.state_
<1> DEFINE body == SubSeq(p.bytes, 4, Len(p.bytes))
           t == [s EXCEPT !.receive_buffer_ = body]
           st == IF t.state_ = "kSessionEstablished" THEN "kNoSessionEstablished" ELSE t.state_
           u == [t EXCEPT !.state_ = st]
<1>1. /\ p.bytes \in Seq(Byte) /\ Len(p.bytes) = 3 /\ Len(p.bytes) >= 3
      /\ p.bytes[3] = kTerminateSession
  BY DEF Messages, TermForm, IsType
<1>2. body = <<>>
  BY <1>1, BodyLemma
<1>3. Receive(s, p) = [s |-> Terminate(t).s, out |-> Terminate(t).out, received |-> <<>>]
  BY <1>1, DoneLemma, ZenonT(60) DEF Free
<1> HIDE DEF body
<1>4. /\ t \in Sessions /\ t.receive_buffer_ = body /\ t.complete = s.complete
      /\ t.state_ = s.state_ /\ t.local_nonce_ = s.local_nonce_
      /\ t.session_id_ = s.session_id_
  <2>1. body \in Seq(Byte)
    BY SMTT(30), <1>2
  <2> QED  BY SMTT(30), <2>1, SetBuffer
<1> HIDE DEF t
<1>5. st \in States
  BY <1>4 DEF Sessions, States
<1>6. Terminate(t) = [s |-> u, out |-> <<>>]
  BY DEF Terminate, Silent
<1>7. st = IF s.state_ = "kSessionEstablished" THEN "kNoSessionEstablished" ELSE s.state_
  BY <1>4
<1> HIDE DEF st
<1>8. /\ u \in Sessions /\ u.receive_buffer_ = t.receive_buffer_ /\ u.complete = t.complete
      /\ u.state_ = st /\ u.local_nonce_ = t.local_nonce_ /\ u.session_id_ = t.session_id_
  BY SMTT(30), <1>4, <1>5, SetState
<1> HIDE DEF u
<1>9. r = [s |-> u, out |-> <<>>, received |-> <<>>]
  BY SMTT(30), <1>3, <1>6
<1>10. r.s = u /\ r.out = <<>> /\ r.received = <<>>
  BY SMTT(30), <1>9
<1> QED  BY <1>2, <1>4, <1>7, <1>8, <1>10 DEF Free

\* A message stays in the buffer, as complete; it is handed over if it is of the session.
LEMMA ReceiveNormal ==
  ASSUME NEW s \in Sessions, NEW p \in Messages, Free(s), NormalForm(p),
         NEW r, r = Receive(s, p)
  PROVE  /\ r.out = <<>> /\ Alike(s, r.s) /\ r.s.complete # {} /\ Bodies(r.received, kLog) = <<>>
         /\ p.bytes[4] \in Byte
         /\ Accepts(s, Id(p)) => Bodies(r.received, kNormal) = <<<<p.bytes[4]>>>>
         /\ ~Accepts(s, Id(p)) => Bodies(r.received, kNormal) = <<>>
<1> DEFINE body == SubSeq(p.bytes, 4, Len(p.bytes))
           t == [s EXCEPT !.receive_buffer_ = body]
           u == [t EXCEPT !.complete = {kNormal}]
           received == IF Accepts(s, Id(p)) THEN <<[type |-> kNormal, body |-> body]>> ELSE <<>>
<1>1. /\ p.bytes \in Seq(Byte) /\ Len(p.bytes) = 4 /\ Len(p.bytes) >= 3
      /\ p.bytes[3] = kNormal
  BY DEF Messages, NormalForm, IsNormal, IsType
<1>2. body = <<p.bytes[4]>> /\ p.bytes[4] \in Byte
  BY <1>1, BodyLemma
<1>3. Receive(s, p) = [s |-> u, out |-> <<>>, received |-> received]
  BY <1>1, DoneLemma, ZenonT(60) DEF Free
<1> HIDE DEF body
<1>4. body \in Seq(Byte)
  BY SMTT(30), <1>2
<1>5. /\ t \in Sessions /\ t.state_ = s.state_ /\ t.local_nonce_ = s.local_nonce_
      /\ t.session_id_ = s.session_id_
  BY SMTT(30), <1>4, SetBuffer
<1> HIDE DEF t
<1>6. {kNormal} \in SUBSET Byte
  BY SMTT(30), Kinds DEF Byte
<1>7. /\ u \in Sessions /\ u.complete = {kNormal} /\ u.state_ = t.state_
      /\ u.local_nonce_ = t.local_nonce_ /\ u.session_id_ = t.session_id_
  BY SMTT(30), <1>5, <1>6, SetComplete
<1>8. r.s = u /\ r.out = <<>> /\ r.received = received
  BY SMTT(30), <1>3
<1> HIDE DEF u
<1>9. Alike(s, r.s) /\ r.s.complete # {}
  BY <1>5, <1>7, <1>8 DEF Alike
<1>10. kLog # kNormal
  BY SMTT(30), Kinds
<1>11. CASE Accepts(s, Id(p))
  <2>1. r.received = <<[type |-> kNormal, body |-> body]>>
    BY <1>8, <1>11
  <2>2. Bodies(r.received, kLog) = <<>> /\ Bodies(r.received, kNormal) = <<body>>
    BY SMTT(30), <1>10, <2>1, BodiesLemma
  <2> QED  BY <1>2, <1>8, <1>9, <1>11, <2>2
<1>12. CASE ~Accepts(s, Id(p))
  BY <1>2, <1>8, <1>9, <1>12, BodiesLemma
<1> QED  BY <1>11, <1>12

\* A log message of the device is handed over.
LEMMA ReceiveLog ==
  ASSUME NEW s \in Sessions, NEW p \in Messages, Free(s), LogForm(p),
         NEW r, r = Receive(s, p)
  PROVE  /\ r.out = <<>> /\ Alike(s, r.s) /\ Bodies(r.received, kNormal) = <<>>
         /\ Bodies(r.received, kLog) = <<<<p.bytes[4]>>>>
<1> DEFINE body == SubSeq(p.bytes, 4, Len(p.bytes))
           t == [s EXCEPT !.receive_buffer_ = body]
           u == [t EXCEPT !.complete = {kLog}]
           forMe == Id(p) \in {<<0, 0>>, s.session_id_}
           received == IF forMe THEN <<[type |-> kLog, body |-> body]>> ELSE <<>>
<1>1. p.bytes \in Seq(Byte) /\ Len(p.bytes) = 4 /\ Len(p.bytes) >= 3 /\ p.bytes[3] = kLog
  BY DEF Messages, LogForm, IsType
<1>2. body = <<p.bytes[4]>> /\ p.bytes[4] \in Byte
  BY <1>1, BodyLemma
<1>3. Receive(s, p) = [s |-> u, out |-> <<>>, received |-> received]
  BY <1>1, DoneLemma DEF Free
<1> HIDE DEF body
<1>4. body \in Seq(Byte)
  BY SMTT(30), <1>2
<1>5. /\ t \in Sessions /\ t.state_ = s.state_ /\ t.local_nonce_ = s.local_nonce_
      /\ t.session_id_ = s.session_id_
  BY SMTT(30), <1>4, SetBuffer
<1> HIDE DEF t
<1>6. {kLog} \in SUBSET Byte
  BY SMTT(30), Kinds DEF Byte
<1>7. /\ u \in Sessions /\ u.state_ = t.state_
      /\ u.local_nonce_ = t.local_nonce_ /\ u.session_id_ = t.session_id_
  BY SMTT(30), <1>5, <1>6, SetComplete
<1>8. r.s = u /\ r.out = <<>> /\ r.received = received
  BY SMTT(30), <1>3
<1> HIDE DEF u
<1>9. Alike(s, r.s)
  BY <1>5, <1>7, <1>8 DEF Alike
<1>10. kNormal # kLog
  BY SMTT(30), Kinds
<1>11. forMe
  BY DEF LogForm
<1>12. r.received = <<[type |-> kLog, body |-> body]>>
  BY <1>8, <1>11
<1>13. Bodies(r.received, kNormal) = <<>> /\ Bodies(r.received, kLog) = <<body>>
  BY SMTT(30), <1>10, <1>12, BodiesLemma
<1> QED  BY <1>2, <1>8, <1>9, <1>13

\* A start is answered, by an end that has not sent one: it has a session from now on.
LEMMA ReceiveInit ==
  ASSUME NEW s \in Sessions, NEW p \in Messages, Free(s), InitForm(p),
         s.state_ # "kStartSessionSent", NEW n, n = RegenerateNonce(s.local_nonce_),
         NEW r, r = Receive(s, p)
  PROVE  /\ r.received = <<>> /\ r.s \in Sessions /\ Free(r.s)
         /\ r.s.session_id_ = <<p.bytes[1], n>> /\ r.s.state_ = "kSessionEstablished"
         /\ r.out = <<Packet(<<p.bytes[1], n>>, kStartSessionReply, <<kVersion>>)>>
         /\ n \in NonceBytes \ {0}
<1> DEFINE body == SubSeq(p.bytes, 4, Len(p.bytes))
           t == [s EXCEPT !.receive_buffer_ = body]
           v == [t EXCEPT !.receive_buffer_ = Tail(body)]
           u == [v EXCEPT !.local_nonce_ = n, !.session_id_ = <<p.bytes[1], n>>,
                          !.state_ = "kSessionEstablished"]
           out == <<Packet(<<p.bytes[1], n>>, kStartSessionReply, <<kVersion>>)>>
<1>1. /\ p.bytes \in Seq(Byte) /\ Len(p.bytes) = 4 /\ Len(p.bytes) >= 3
      /\ p.bytes[3] = kStartSessionInit /\ p.bytes[1] # 0
  BY DEF Messages, InitForm, IsInit, IsType
<1>2. body = <<p.bytes[4]>> /\ p.bytes[4] \in Byte
  BY <1>1, BodyLemma
<1>3. Receive(s, p) = [s |-> ProcessStartSessionInit(t, Id(p)).s,
                       out |-> ProcessStartSessionInit(t, Id(p)).out, received |-> <<>>]
  BY <1>1, DoneLemma DEF Free
<1> HIDE DEF body
<1>4. body \in Seq(Byte) /\ body # <<>> /\ Tail(body) = <<>>
  BY SMTT(30), <1>2
<1>5. /\ t \in Sessions /\ t.receive_buffer_ = body /\ t.complete = s.complete
      /\ t.state_ = s.state_ /\ t.local_nonce_ = s.local_nonce_
      /\ t.session_id_ = s.session_id_
  <2>1. body \in Seq(Byte)
    BY <1>4
  <2> QED  BY SMTT(30), <2>1, SetBuffer
<1> HIDE DEF t
<1>6. /\ v \in Sessions /\ v.receive_buffer_ = <<>> /\ v.complete = {}
      /\ v.local_nonce_ = s.local_nonce_
  <2>1. Tail(body) \in Seq(Byte)
    BY SMTT(30), <1>4
  <2>2. /\ v \in Sessions /\ v.receive_buffer_ = Tail(body) /\ v.complete = t.complete
        /\ v.local_nonce_ = t.local_nonce_
    <3>1. t \in Sessions
      BY <1>5
    <3> QED  BY SMTT(30), <2>1, <3>1, SetBuffer
  <2> QED  BY <1>4, <1>5, <2>2 DEF Free
<1>7. VersionRead(t) = v
  BY <1>5 DEF VersionRead
<1> HIDE DEF v
<1>8. Id(p)[1] = p.bytes[1]
  BY DEF Id
<1>9. SendSessionStartReply(v, Id(p)[1]) = [s |-> u, out |-> out]
  BY <1>6, <1>8 DEF SendSessionStartReply
<1> HIDE DEF u, out
<1>10. ProcessStartSessionInit(t, Id(p)) = SendSessionStartReply(v, Id(p)[1])
  <2>1. Id(p)[1] # kInvalidNonce /\ t.receive_buffer_ # <<>> /\ t.state_ # "kStartSessionSent"
    BY <1>1, <1>4, <1>5, <1>8, Kinds
  <2> QED  BY <1>7, <2>1 DEF ProcessStartSessionInit
<1>11. r.s = u /\ r.out = out /\ r.received = <<>>
  BY SMTT(30), <1>3, <1>9, <1>10
<1>12. n \in NonceBytes \ {0} /\ n \in Byte /\ p.bytes[1] \in Byte
  <2>1. s.local_nonce_ \in NonceBytes
    BY DEF Sessions
  <2>2. n \in NonceBytes \ {0}
    BY <2>1, NonceLemma
  <2>3. p.bytes[1] \in Byte
    BY SMTT(30), <1>1
  <2> QED  BY SMTT(30), <2>2, <2>3 DEF NonceBytes, Byte
<1>13. /\ u \in Sessions /\ u.receive_buffer_ = v.receive_buffer_ /\ u.complete = v.complete
       /\ u.state_ = "kSessionEstablished" /\ u.session_id_ = <<p.bytes[1], n>>
  <2> DEFINE id == <<p.bytes[1], n>>
             st == "kSessionEstablished"
  <2>1. id \in Ids /\ st \in States /\ n \in NonceBytes /\ v \in Sessions
    BY <1>6, <1>12 DEF Ids, States
  <2>2. u = [v EXCEPT !.local_nonce_ = n, !.session_id_ = id, !.state_ = st]
    BY DEF u
  <2> HIDE DEF id, st
  <2>3. /\ u \in Sessions /\ u.receive_buffer_ = v.receive_buffer_ /\ u.complete = v.complete
        /\ u.state_ = st /\ u.session_id_ = id
    BY <2>1, <2>2 DEF Sessions
  <2> QED  BY <2>3 DEF id, st
<1> QED  BY <1>6, <1>11, <1>12, <1>13 DEF Free, out

\* A reply to its own start gives an end the session; to another one it changes nothing.
LEMMA ReceiveReply ==
  ASSUME NEW s \in Sessions, NEW p \in Messages, Free(s), ReplyForm(p),
         s.state_ = "kStartSessionSent", NEW r, r = Receive(s, p)
  PROVE  /\ r.out = <<>> /\ r.received = <<>> /\ r.s \in Sessions /\ Free(r.s)
         /\ r.s.local_nonce_ = s.local_nonce_
         /\ p.bytes[1] = s.local_nonce_ =>
              r.s.state_ = "kSessionEstablished" /\ r.s.session_id_ = Id(p)
         /\ p.bytes[1] # s.local_nonce_ => r.s.state_ = s.state_
<1> DEFINE body == SubSeq(p.bytes, 4, Len(p.bytes))
           t == [s EXCEPT !.receive_buffer_ = body]
           v == [t EXCEPT !.receive_buffer_ = Tail(body)]
           id == <<v.local_nonce_, Id(p)[2]>>
           st == "kSessionEstablished"
           u == [v EXCEPT !.session_id_ = id, !.state_ = st]
<1>1. /\ p.bytes \in Seq(Byte) /\ Len(p.bytes) = 4 /\ Len(p.bytes) >= 3
      /\ p.bytes[3] = kStartSessionReply /\ p.bytes[2] # 0 /\ p.bytes[4] = kVersion
  BY DEF Messages, ReplyForm, IsReply, IsType
<1>2. body = <<p.bytes[4]>> /\ p.bytes[4] \in Byte
  BY <1>1, BodyLemma
<1>3. Receive(s, p) = [s |-> ProcessStartSessionReply(t, Id(p)).s,
                       out |-> ProcessStartSessionReply(t, Id(p)).out, received |-> <<>>]
  BY <1>1, DoneLemma DEF Free
<1> HIDE DEF body
<1>4. body \in Seq(Byte) /\ body # <<>> /\ Tail(body) = <<>> /\ Head(body) = kVersion
  BY SMTT(30), <1>1, <1>2
<1>5. /\ t \in Sessions /\ t.receive_buffer_ = body /\ t.complete = s.complete
      /\ t.state_ = s.state_ /\ t.local_nonce_ = s.local_nonce_
      /\ t.session_id_ = s.session_id_
  <2>1. body \in Seq(Byte)
    BY <1>4
  <2> QED  BY SMTT(30), <2>1, SetBuffer
<1> HIDE DEF t
<1>6. /\ v \in Sessions /\ v.receive_buffer_ = <<>> /\ v.complete = {}
      /\ v.local_nonce_ = s.local_nonce_ /\ v.state_ = s.state_
  <2>1. Tail(body) \in Seq(Byte)
    BY SMTT(30), <1>4
  <2>2. /\ v \in Sessions /\ v.receive_buffer_ = Tail(body) /\ v.complete = t.complete
        /\ v.local_nonce_ = t.local_nonce_ /\ v.state_ = t.state_
    <3>1. t \in Sessions
      BY <1>5
    <3> QED  BY SMTT(30), <2>1, <3>1, SetBuffer
  <2> QED  BY <1>4, <1>5, <2>2 DEF Free
<1>7. VersionRead(t) = v
  BY <1>5 DEF VersionRead
<1> HIDE DEF v
<1>8. Id(p)[1] = p.bytes[1] /\ Id(p)[2] = p.bytes[2] /\ Id(p) = <<p.bytes[1], p.bytes[2]>>
  BY DEF Id
<1>9. Established(v, Id(p)) = u
  BY DEF Established
<1>10. p.bytes[1] \in Byte /\ p.bytes[2] \in Byte
  BY SMTT(30), <1>1
<1>11. id \in Ids /\ st \in States
  <2>1. v.local_nonce_ \in NonceBytes
    BY <1>6 DEF Sessions
  <2>2. v.local_nonce_ \in Byte
    BY SMTT(30), <2>1 DEF NonceBytes, Byte
  <2> QED  BY <1>8, <1>10, <2>2 DEF Ids, States
<1>12. /\ Id(p)[2] # kInvalidNonce /\ t.receive_buffer_ # <<>>
       /\ t.state_ = "kStartSessionSent" /\ Head(t.receive_buffer_) = kVersion
       /\ t.state_ # "kSessionEstablished"
  BY <1>1, <1>4, <1>5, <1>8, Kinds
<1>13. CASE p.bytes[1] = s.local_nonce_
  <2>1. ReplyIsMine(t, Id(p))
    BY <1>5, <1>8, <1>13 DEF ReplyIsMine
  <2>2. id = Id(p)
    BY <1>6, <1>8, <1>13
  <2> HIDE DEF id, st
  <2>3. /\ u \in Sessions /\ u.receive_buffer_ = v.receive_buffer_ /\ u.complete = v.complete
        /\ u.state_ = st /\ u.session_id_ = id /\ u.local_nonce_ = v.local_nonce_
    BY <1>6, <1>11 DEF Sessions
  <2> HIDE DEF u
  <2>4. ProcessStartSessionReply(t, Id(p)) = Silent(u)
    BY <1>7, <1>9, <1>12, <2>1 DEF ProcessStartSessionReply
  <2>5. r.s = u /\ r.out = <<>> /\ r.received = <<>>
    BY SMTT(30), <1>3, <2>4 DEF Silent
  <2> QED  BY <1>6, <1>13, <2>2, <2>3, <2>5 DEF Free, st
<1>14. CASE p.bytes[1] # s.local_nonce_
  <2>1. ~ReplyIsMine(t, Id(p))
    BY <1>5, <1>8, <1>14 DEF ReplyIsMine
  <2>2. ProcessStartSessionReply(t, Id(p)) = Silent(v)
    BY <1>7, <1>12, <2>1 DEF ProcessStartSessionReply
  <2>3. r.s = v /\ r.out = <<>> /\ r.received = <<>>
    BY SMTT(30), <1>3, <2>2 DEF Silent
  <2> QED  BY <1>6, <1>14, <2>3 DEF Free
<1> QED  BY <1>13, <1>14

\* A start (StartSessionInternal): a termination, and a start with a nonce of its own.
LEMMA StartedLemma ==
  ASSUME NEW s \in Sessions, NEW n \in NonceBytes, NEW r, r = Started(s, n),
         NEW m, m = RegenerateNonce(n)
  PROVE  /\ r.s \in Sessions /\ r.s.state_ = "kStartSessionSent" /\ r.s.local_nonce_ = m
         /\ r.s.complete = s.complete /\ r.s.receive_buffer_ = s.receive_buffer_
         /\ r.out = <<Packet(<<0, 0>>, kTerminateSession, <<>>),
                      Packet(<<m, 0>>, kStartSessionInit, <<kVersion>>)>>
         /\ m \in NonceBytes \ {0}
<1> DEFINE st == "kNoSessionEstablished"
           id == <<0, 0>>
           v == [s EXCEPT !.local_nonce_ = n, !.session_id_ = id, !.state_ = st]
           st2 == "kStartSessionSent"
           id2 == <<m, 0>>
           u == [v EXCEPT !.local_nonce_ = m, !.session_id_ = id2, !.state_ = st2]
           p == Packet(<<0, 0>>, kTerminateSession, <<>>)
           q == Packet(id2, kStartSessionInit, <<kVersion>>)
<1>1. m \in NonceBytes \ {0}
  BY NonceLemma
<1>2. st \in States /\ st2 \in States /\ id \in Ids /\ id2 \in Ids /\ m \in NonceBytes
  BY SMTT(30), <1>1 DEF States, Ids, NonceBytes, Byte
<1>3. Initialize(s, n) = [s |-> v, out |-> <<p>>]
  BY DEF Initialize
<1> HIDE DEF st, id, st2, id2, p, q
<1>4. /\ v \in Sessions /\ v.local_nonce_ = n /\ v.complete = s.complete
      /\ v.receive_buffer_ = s.receive_buffer_
  BY <1>2 DEF Sessions
<1> HIDE DEF v
<1>5. /\ u \in Sessions /\ u.local_nonce_ = m /\ u.complete = v.complete
      /\ u.receive_buffer_ = v.receive_buffer_ /\ u.state_ = st2
  BY <1>2, <1>4 DEF Sessions
<1>6. StartSession(v) = [s |-> u, out |-> <<q>>]
  BY <1>4 DEF StartSession, st2, id2, q
<1> HIDE DEF u
<1>7. r = [s |-> u, out |-> <<p>> \o <<q>>]
  <2>1. Initialize(s, n).s = v /\ Initialize(s, n).out = <<p>>
    BY SMTT(30), <1>3
  <2>2. StartSession(v).s = u /\ StartSession(v).out = <<q>>
    BY SMTT(30), <1>6
  <2> QED  BY <2>1, <2>2 DEF Started
<1>8. <<p>> \o <<q>> = <<p, q>>
  BY PairLemma
<1> QED  BY SMTT(30), <1>1, <1>4, <1>5, <1>7, <1>8 DEF st2, id2, p, q
-----------------------------------------------------------------------------
(* The packets that are sent. *)

LEMMA TermPacket ==
  ASSUME NEW p, p = Packet(<<0, 0>>, kTerminateSession, <<>>)
  PROVE  p \in Messages /\ TermForm(p)
<1>1. 0 \in Byte /\ kTerminateSession \in Byte
  BY Kinds DEF Byte
<1> DEFINE b == <<0, 0, kTerminateSession>>
<1>2. p = [bytes |-> b, whole |-> TRUE]
  BY <1>1, EmptyPacket
<1>3. b \in Seq(Byte) /\ Len(b) = 3 /\ b[3] = kTerminateSession
  BY SMTT(30), <1>1
<1> HIDE DEF b
<1>4. p.bytes = b /\ p \in [bytes : Seq(Byte), whole : {TRUE}]
  <2>1. p.bytes = b
    BY SMTT(30), <1>2
  <2>2. [bytes |-> b, whole |-> TRUE] \in [bytes : Seq(Byte), whole : {TRUE}]
    BY <1>3
  <2> QED  BY <1>2, <2>1, <2>2
<1>5. p \in Messages
  BY <1>4 DEF Messages
<1>6. Len(p.bytes) = 3 /\ p.bytes[3] = kTerminateSession
  BY <1>3, <1>4
<1> QED  BY SMTT(30), <1>5, <1>6 DEF TermForm, IsType

LEMMA BytePacket ==
  ASSUME NEW a \in Byte, NEW b \in Byte, NEW type \in Byte, NEW x \in Byte,
         NEW p, p = Packet(<<a, b>>, type, <<x>>)
  PROVE  /\ p \in Messages /\ Len(p.bytes) = 4 /\ IsType(p, type) /\ p.bytes[1] = a
         /\ p.bytes[2] = b /\ p.bytes[4] = x /\ Id(p) = <<a, b>>
<1> DEFINE c == <<a, b, type, x>>
<1>1. p = [bytes |-> c, whole |-> TRUE]
  BY ZenonT(60), PacketLemma
<1>2. c \in Seq(Byte) /\ Len(c) = 4 /\ c[1] = a /\ c[2] = b /\ c[3] = type /\ c[4] = x
  BY SMTT(30)
<1> HIDE DEF c
<1>3. p.bytes = c /\ p \in [bytes : Seq(Byte), whole : {TRUE}]
  <2>1. p.bytes = c
    BY SMTT(30), <1>1
  <2>2. [bytes |-> c, whole |-> TRUE] \in [bytes : Seq(Byte), whole : {TRUE}]
    BY <1>2
  <2> QED  BY <1>1, <2>1, <2>2
<1>4. /\ Len(p.bytes) = 4 /\ p.bytes[1] = a /\ p.bytes[2] = b /\ p.bytes[3] = type
      /\ p.bytes[4] = x
  BY <1>2, <1>3
<1>5. Id(p) = <<a, b>>
  BY <1>4 DEF Id
<1>6. p \in Messages
  BY <1>3 DEF Messages
<1>7. IsType(p, type)
  BY SMTT(30), <1>4 DEF IsType
<1> QED  BY <1>4, <1>5, <1>6, <1>7

LEMMA HeaderBytes ==
  ASSUME NEW p \in Messages, Len(p.bytes) = 4
  PROVE  p.bytes[1] \in Byte /\ p.bytes[2] \in Byte
<1>1. p.bytes \in Seq(Byte)
  BY DEF Messages
<1> QED  BY SMTT(30), <1>1

LEMMA LogPacket == Log \in Messages /\ LogForm(Log)
<1>1. 0 \in Byte /\ kLog \in Byte /\ LogByte \in Byte
  BY SMTT(30), Kinds DEF Byte
<1>2. /\ Log \in Messages /\ Len(Log.bytes) = 4 /\ IsType(Log, kLog) /\ Id(Log) = <<0, 0>>
  BY SMTT(30), <1>1, BytePacket DEF Log
<1> QED  BY <1>2 DEF LogForm

\* Neither a start nor a reply nor a message.
Plain(p) == ~IsInit(p) /\ ~IsReply(p) /\ ~IsNormal(p)

\* The kinds exclude each other.
LEMMA FormLemma ==
  ASSUME NEW p
  PROVE  /\ InitForm(p) => IsInit(p) /\ ~IsReply(p) /\ ~IsNormal(p)
         /\ ReplyForm(p) => IsReply(p) /\ ~IsInit(p) /\ ~IsNormal(p)
         /\ NormalForm(p) => IsNormal(p) /\ ~IsInit(p) /\ ~IsReply(p)
         /\ TermForm(p) => Plain(p)
         /\ LogForm(p) => Plain(p)
  BY SMTT(30), Kinds DEF InitForm, ReplyForm, NormalForm, TermForm, LogForm, IsInit, IsReply, IsNormal,
               IsType, Plain

\* Of the packets w under way the first k are taken, and plain ones are added: v.
Kept(w, v, k) ==
  /\ k \in Nat
  /\ \A i \in 1 .. Len(v) : Plain(v[i]) \/ (i + k <= Len(w) /\ v[i] = w[i + k])
  /\ \A j \in k + 1 .. Len(w) : j - k <= Len(v) /\ v[j - k] = w[j]

\* A packet that is not plain was under way before.
Old(w, v, k) ==
  \A i \in 1 .. Len(v) : ~Plain(v[i]) => i + k \in 1 .. Len(w) /\ v[i] = w[i + k]

LEMMA KeptOld ==
  ASSUME NEW S, NEW w \in Seq(S), NEW v, NEW k, Kept(w, v, k)
  PROVE  Old(w, v, k)
<1>1. Len(w) \in Nat
  BY LenProperties
<1>2. \A n, i, m \in Nat : i >= 1 /\ i + n <= m => i + n \in 1 .. m
  BY SMTT(30)
<1>3. \A n : \A i \in 1 .. n : i \in Nat /\ i >= 1
  BY SMTT(30)
<1> QED BY <1>1, <1>2, <1>3 DEF Kept, Old

LEMMA KeptSame ==
  ASSUME NEW S, NEW w \in Seq(S)
  PROVE  Kept(w, w, 0)
  BY SMTT(30) DEF Kept

LEMMA KeptTail ==
  ASSUME NEW S, NEW w \in Seq(S), w # <<>>
  PROVE  Tail(w) \in Seq(S) /\ Kept(w, Tail(w), 1)
  BY SMTT(30) DEF Kept

LEMMA KeptAppend ==
  ASSUME NEW S, NEW w \in Seq(S), NEW v \in Seq(S), NEW k, Kept(w, v, k), NEW p \in S, Plain(p)
  PROVE  Append(v, p) \in Seq(S) /\ Kept(w, Append(v, p), k)
  BY SMTT(30) DEF Kept

\* What an end hears that opens (Heard).
LEMMA KeptHeard ==
  ASSUME NEW S, NEW w \in Seq(S), NEW v \in Heard(w)
  PROVE  v \in Seq(S) /\ \E k \in Nat : Kept(w, v, k)
<1>1. PICK k \in 1 .. Len(w) + 1 : v = SubSeq(w, k, Len(w))
  BY DEF Heard
<1>2. /\ v \in Seq(S) /\ Len(v) = (Len(w) - k) + 1
      /\ \A i \in 1 .. Len(v) : v[i] = w[(i + k) - 1]
  BY SMTT(30), <1>1
<1>3. Kept(w, v, k - 1)
  BY SMTT(30), <1>2 DEF Kept
<1> QED  BY SMTT(30), <1>2, <1>3

\* Two packets are sent one after the other.
LEMMA AppendTwo ==
  ASSUME NEW S, NEW w \in Seq(S), NEW p \in S, NEW q \in S
  PROVE  w \o <<p, q>> = Append(Append(w, p), q)
  BY SMTT(30)
-----------------------------------------------------------------------------
(* Steps that start, answer and ask nothing. *)

\* Packets are taken and plain ones are sent; the host does not start.
WiresKept ==
  /\ \E k \in Nat : Kept(wire["device"], wire'["device"], k)
  /\ \E k \in Nat : Kept(wire["host"], wire'["host"], k)
  /\ drawn'["host"] = drawn["host"] /\ early' = early

\* Also, the host does not enter a session; the device keeps its session or loses it.
KeptStep ==
  /\ WiresKept
  /\ channel' # "closed" => channel # "closed"
  /\ channel' \in {"open", "waiting"} =>
       /\ channel \in {"open", "waiting"}
       /\ sess'["host"].session_id_ = sess["host"].session_id_
  /\ sess'["device"].state_ = "kSessionEstablished" =>
       /\ sess["device"].state_ = "kSessionEstablished"
       /\ sess'["device"].session_id_ = sess["device"].session_id_

LEMMA MineKept ==
  ASSUME drawn'["host"] = drawn["host"], early' = early
  PROVE  Mine' = Mine /\ Recent' = Recent
  BY DEF Mine, Recent

LEMMA RecentKept ==
  ASSUME RangeInv, RecentInv, WiresKept
  PROVE  RecentInv'
<1> DEFINE wd == wire["device"]
           wh == wire["host"]
           vd == wire'["device"]
           vh == wire'["host"]
<1>1. PICK kd \in Nat : Kept(wd, vd, kd)
  BY DEF WiresKept
<1>2. PICK kh \in Nat : Kept(wh, vh, kh)
  BY DEF WiresKept
<1>3. Recent' = Recent
  BY MineKept DEF WiresKept
<1>4. wd \in Seq(DeviceMessages) /\ wh \in Seq(HostMessages)
  BY DEF RangeInv
<1> HIDE DEF wd, wh, vd, vh
<1>5. ASSUME NEW i \in 1 .. Len(vd), IsInit(vd[i]) \/ IsNormal(vd[i])
      PROVE  vd[i].bytes[1] \in Recent
  <2>1. i + kd <= Len(wd) /\ vd[i] = wd[i + kd]
    BY <1>1, <1>5 DEF Kept, Plain
  <2>2. i + kd \in 1 .. Len(wd)
    BY SMTT(30), <1>4, <2>1
  <2> QED  BY <1>5, <2>1, <2>2 DEF RecentInv, wd
<1>6. ASSUME NEW i \in 1 .. Len(vh), IsReply(vh[i]) \/ IsNormal(vh[i])
      PROVE  vh[i].bytes[1] \in Recent
  <2>1. i + kh <= Len(wh) /\ vh[i] = wh[i + kh]
    BY <1>2, <1>6 DEF Kept, Plain
  <2>2. i + kh \in 1 .. Len(wh)
    BY SMTT(30), <1>4, <2>1
  <2> QED  BY <1>6, <2>1, <2>2 DEF RecentInv, wh
<1> QED  BY <1>3, <1>5, <1>6 DEF RecentInv, vd, vh

LEMMA StartKept ==
  ASSUME RangeInv, StartInv, Mine' = Mine, channel' # "closed" => channel # "closed",
         \E k \in Nat : Kept(wire["device"], wire'["device"], k)
  PROVE  StartInv'
<1> DEFINE wd == wire["device"]
           vd == wire'["device"]
<1>1. PICK kd \in Nat : Kept(wd, vd, kd)
  OBVIOUS
<1>3. wd \in Seq(DeviceMessages)
  BY DEF RangeInv
<1> SUFFICES ASSUME channel' # "closed", NEW i \in 1 .. Len(vd), IsInit(vd[i])
             PROVE  /\ \E j \in i .. Len(vd) : IsInit(vd[j]) /\ vd[j].bytes[1] = Mine
                    /\ vd[i].bytes[1] = Mine => \A j \in i + 1 .. Len(vd) : ~IsInit(vd[j])
  BY DEF StartInv
<1>4. channel # "closed"
  OBVIOUS
<1>5. \A l \in 1 .. Len(wd) : IsInit(wd[l]) =>
        /\ \E j \in l .. Len(wd) : IsInit(wd[j]) /\ wd[j].bytes[1] = Mine
        /\ wd[l].bytes[1] = Mine => \A j \in l + 1 .. Len(wd) : ~IsInit(wd[j])
  BY <1>4 DEF StartInv
<1> HIDE DEF wd, vd
<1>6. \A l \in 1 .. Len(vd) : IsInit(vd[l]) => l + kd \in 1 .. Len(wd) /\ vd[l] = wd[l + kd]
  <2>1. Old(wd, vd, kd)
    BY <1>1, <1>3, KeptOld
  <2> QED BY <2>1 DEF Old, Plain
<1>7. i + kd \in 1 .. Len(wd) /\ vd[i] = wd[i + kd] /\ IsInit(wd[i + kd])
  BY <1>6
<1>8. \E j \in i .. Len(vd) : IsInit(vd[j]) /\ vd[j].bytes[1] = Mine
  <2>1. PICK j \in i + kd .. Len(wd) : IsInit(wd[j]) /\ wd[j].bytes[1] = Mine
    BY <1>5, <1>7
  <2>2. j \in kd + 1 .. Len(wd)
    BY SMTT(30), <1>1, <1>7, <2>1 DEF Kept
  <2>3. j - kd <= Len(vd) /\ vd[j - kd] = wd[j]
    BY <1>1, <2>2 DEF Kept
  <2>4. j - kd \in i .. Len(vd)
    BY SMTT(30), <1>1, <2>1, <2>2, <2>3
  <2> QED  BY <2>1, <2>3, <2>4
<1>9. ASSUME vd[i].bytes[1] = Mine, NEW j \in i + 1 .. Len(vd), IsInit(vd[j])
      PROVE  FALSE
  <2>1. j \in 1 .. Len(vd)
    BY SMTT(30), <1>9
  <2>2. j + kd \in 1 .. Len(wd) /\ vd[j] = wd[j + kd]
    BY <1>6, <1>9, <2>1
  <2>3. j + kd \in (i + kd) + 1 .. Len(wd)
    BY SMTT(30), <1>7, <1>9, <2>2
  <2> QED  BY <1>5, <1>7, <1>9, <2>2, <2>3
<1> QED  BY <1>8, <1>9

LEMMA ReplyKept ==
  ASSUME RangeInv, ReplyInv, KeptStep
  PROVE  ReplyInv'
<1> DEFINE wd == wire["device"]
           wh == wire["host"]
           vd == wire'["device"]
           vh == wire'["host"]
<1>1. PICK kd \in Nat : Kept(wd, vd, kd)
  BY DEF KeptStep, WiresKept
<1>2. PICK kh \in Nat : Kept(wh, vh, kh)
  BY DEF KeptStep, WiresKept
<1>3. Mine' = Mine
  BY MineKept DEF KeptStep, WiresKept
<1>4. wd \in Seq(DeviceMessages) /\ wh \in Seq(HostMessages)
  BY DEF RangeInv
<1> SUFFICES ASSUME channel' # "closed", NEW i \in 1 .. Len(vh), IsReply(vh[i]),
                    vh[i].bytes[1] = Mine
             PROVE  /\ \A j \in 1 .. Len(vd) : ~IsInit(vd[j])
                    /\ \A j \in i + 1 .. Len(vh) : ~IsReply(vh[j])
                    /\ sess'["device"].state_ = "kSessionEstablished" =>
                         sess'["device"].session_id_ = Id(vh[i])
  BY <1>3 DEF ReplyInv
<1>5. channel # "closed"
  BY DEF KeptStep, WiresKept
<1>6. \A l \in 1 .. Len(wh) : IsReply(wh[l]) /\ wh[l].bytes[1] = Mine =>
        /\ \A j \in 1 .. Len(wd) : ~IsInit(wd[j])
        /\ \A j \in l + 1 .. Len(wh) : ~IsReply(wh[j])
        /\ sess["device"].state_ = "kSessionEstablished" =>
             sess["device"].session_id_ = Id(wh[l])
  BY <1>5 DEF ReplyInv
<1> HIDE DEF wd, vd, wh, vh
<1>7. \A l \in 1 .. Len(vh) : IsReply(vh[l]) => l + kh \in 1 .. Len(wh) /\ vh[l] = wh[l + kh]
  <2>1. Old(wh, vh, kh)
    BY <1>2, <1>4, KeptOld
  <2> QED BY <2>1 DEF Old, Plain
<1>8. i + kh \in 1 .. Len(wh) /\ vh[i] = wh[i + kh]
  BY <1>7
<1>9. /\ \A j \in 1 .. Len(wd) : ~IsInit(wd[j])
      /\ \A j \in (i + kh) + 1 .. Len(wh) : ~IsReply(wh[j])
      /\ sess["device"].state_ = "kSessionEstablished" =>
           sess["device"].session_id_ = Id(wh[i + kh])
  BY <1>6, <1>8
<1>10. ASSUME NEW j \in 1 .. Len(vd), IsInit(vd[j])
       PROVE  FALSE
  <2>1. j + kd \in 1 .. Len(wd) /\ vd[j] = wd[j + kd]
    <3>1. Old(wd, vd, kd)
      BY <1>1, <1>4, KeptOld
    <3> QED BY <3>1, <1>10 DEF Old, Plain
  <2> QED  BY <1>9, <1>10, <2>1
<1>11. ASSUME NEW j \in i + 1 .. Len(vh), IsReply(vh[j])
       PROVE  FALSE
  <2>1. j \in 1 .. Len(vh)
    BY SMTT(30), <1>11
  <2>2. j + kh \in 1 .. Len(wh) /\ vh[j] = wh[j + kh]
    BY <1>7, <1>11, <2>1
  <2>3. j + kh \in (i + kh) + 1 .. Len(wh)
    BY SMTT(30), <1>8, <1>11, <2>2
  <2> QED  BY <1>9, <1>11, <2>2, <2>3
<1>12. sess'["device"].state_ = "kSessionEstablished" =>
         sess'["device"].session_id_ = Id(vh[i])
  BY <1>8, <1>9 DEF KeptStep, WiresKept
<1> QED  BY <1>10, <1>11, <1>12

LEMMA AgreeKept ==
  ASSUME RangeInv, AgreeInv, KeptStep
  PROVE  AgreeInv'
<1> DEFINE wd == wire["device"]
           wh == wire["host"]
           vd == wire'["device"]
           vh == wire'["host"]
<1>1. PICK kd \in Nat : Kept(wd, vd, kd)
  BY DEF KeptStep, WiresKept
<1>2. PICK kh \in Nat : Kept(wh, vh, kh)
  BY DEF KeptStep, WiresKept
<1>3. wd \in Seq(DeviceMessages) /\ wh \in Seq(HostMessages)
  BY DEF RangeInv
<1> SUFFICES ASSUME channel' \in {"open", "waiting"}
             PROVE  /\ \A j \in 1 .. Len(vd) : ~IsInit(vd[j])
                    /\ \A j \in 1 .. Len(vh) : ~IsReply(vh[j])
                    /\ sess'["device"].state_ = "kSessionEstablished" =>
                         sess'["device"].session_id_ = sess'["host"].session_id_
  BY DEF AgreeInv
<1>4. channel \in {"open", "waiting"}
  BY DEF KeptStep, WiresKept
<1>5. /\ \A j \in 1 .. Len(wd) : ~IsInit(wd[j])
      /\ \A j \in 1 .. Len(wh) : ~IsReply(wh[j])
      /\ sess["device"].state_ = "kSessionEstablished" =>
           sess["device"].session_id_ = sess["host"].session_id_
  BY <1>4 DEF AgreeInv
<1> HIDE DEF wd, vd, wh, vh
<1>6. ASSUME NEW j \in 1 .. Len(vd), IsInit(vd[j])
      PROVE  FALSE
  <2>1. j + kd \in 1 .. Len(wd) /\ vd[j] = wd[j + kd]
    <3>1. Old(wd, vd, kd)
      BY <1>1, <1>3, KeptOld
    <3> QED BY <3>1, <1>6 DEF Old, Plain
  <2> QED  BY <1>5, <1>6, <2>1
<1>7. ASSUME NEW j \in 1 .. Len(vh), IsReply(vh[j])
      PROVE  FALSE
  <2>1. j + kh \in 1 .. Len(wh) /\ vh[j] = wh[j + kh]
    <3>1. Old(wh, vh, kh)
      BY <1>2, <1>3, KeptOld
    <3> QED BY <3>1, <1>7 DEF Old, Plain
  <2> QED  BY <1>5, <1>7, <2>1
<1>8. sess'["device"].state_ = "kSessionEstablished" =>
        sess'["device"].session_id_ = sess'["host"].session_id_
  BY <1>5 DEF KeptStep, WiresKept
<1> QED  BY <1>6, <1>7, <1>8

\* The own packets after such a step were under way before it.
LEMMA OwnKept ==
  ASSUME RangeInv, WiresKept, asked' = asked
  PROVE  /\ NoneUnderWay => NoneUnderWay'
         /\ OwnOnce => OwnOnce'
<1>1. PICK kd \in Nat : Kept(wire["device"], wire'["device"], kd)
  BY DEF WiresKept
<1>2. PICK kh \in Nat : Kept(wire["host"], wire'["host"], kh)
  BY DEF WiresKept
<1>3. Mine' = Mine
  BY MineKept DEF WiresKept
<1>4. \E k \in [Ends -> Nat] : \A e \in Ends : \A i \in 1 .. Len(wire'[e]) : Own(wire'[e][i]) =>
        i + k[e] \in 1 .. Len(wire[e]) /\ wire'[e][i] = wire[e][i + k[e]]
  <2> DEFINE k == [e \in Ends |-> IF e = "host" THEN kh ELSE kd]
  <2>1. k \in [Ends -> Nat]
    OBVIOUS
  <2>2. wire["device"] \in Seq(DeviceMessages) /\ wire["host"] \in Seq(HostMessages)
    BY DEF RangeInv
  <2>3. ASSUME NEW i \in 1 .. Len(wire'["device"]), Own(wire'["device"][i])
        PROVE  i + kd \in 1 .. Len(wire["device"]) /\ wire'["device"][i] = wire["device"][i + kd]
    <3>1. Old(wire["device"], wire'["device"], kd)
      BY <1>1, <2>2, KeptOld
    <3> QED BY <3>1, <2>3 DEF Old, Plain, Own
  <2>4. ASSUME NEW i \in 1 .. Len(wire'["host"]), Own(wire'["host"][i])
        PROVE  i + kh \in 1 .. Len(wire["host"]) /\ wire'["host"][i] = wire["host"][i + kh]
    <3>1. Old(wire["host"], wire'["host"], kh)
      BY <1>2, <2>2, KeptOld
    <3> QED BY <3>1, <2>4 DEF Old, Plain, Own
  <2>5. k["host"] = kh /\ k["device"] = kd
    BY DEF Ends
  <2> HIDE DEF k
  <2>6. \A e \in Ends : \A i \in 1 .. Len(wire'[e]) : Own(wire'[e][i]) =>
          i + k[e] \in 1 .. Len(wire[e]) /\ wire'[e][i] = wire[e][i + k[e]]
    BY <2>3, <2>4, <2>5 DEF Ends
  <2> QED  BY <2>1, <2>6
<1>5. PICK k \in [Ends -> Nat] :
        \A e \in Ends : \A i \in 1 .. Len(wire'[e]) : Own(wire'[e][i]) =>
          i + k[e] \in 1 .. Len(wire[e]) /\ wire'[e][i] = wire[e][i + k[e]]
  BY <1>4
<1>6. ASSUME NoneUnderWay
      PROVE  NoneUnderWay'
  <2> SUFFICES ASSUME NEW e \in Ends, NEW i \in 1 .. Len(wire'[e]), Own(wire'[e][i])
               PROVE  FALSE
    BY <1>3 DEF NoneUnderWay, Own
  <2> QED  BY <1>5, <1>6 DEF NoneUnderWay
<1>7. ASSUME OwnOnce
      PROVE  OwnOnce'
  <2> SUFFICES ASSUME NEW e \in Ends, NEW i \in 1 .. Len(wire'[e]), Own(wire'[e][i])
               PROVE  /\ wire'[e][i].bytes[4] = asked
                      /\ \A f \in Ends : \A j \in 1 .. Len(wire'[f]) :
                           Own(wire'[f][j]) => e = f /\ i = j
    BY SMTT(30), <1>3 DEF OwnOnce, Own
  <2>1. i + k[e] \in 1 .. Len(wire[e]) /\ wire'[e][i] = wire[e][i + k[e]]
    BY <1>5
  <2>2. wire'[e][i].bytes[4] = asked
    BY SMTT(30), <1>7, <2>1 DEF OwnOnce
  <2>3. ASSUME NEW f \in Ends, NEW j \in 1 .. Len(wire'[f]), Own(wire'[f][j])
        PROVE  e = f /\ i = j
    <3>1. j + k[f] \in 1 .. Len(wire[f]) /\ wire'[f][j] = wire[f][j + k[f]]
      BY <1>5, <2>3
    <3>2. e = f /\ i + k[e] = j + k[f]
      <4> DEFINE a == i + k[e]
                 b == j + k[f]
      <4>1. a \in 1 .. Len(wire[e]) /\ Own(wire[e][a])
        BY <2>1
      <4>2. b \in 1 .. Len(wire[f]) /\ Own(wire[f][b])
        BY <2>3, <3>1
      <4> HIDE DEF a, b
      <4>3. e = f /\ a = b
        BY <1>7, <4>1, <4>2 DEF OwnOnce
      <4> QED  BY <4>3 DEF a, b
    <3> QED  BY SMTT(30), <3>2
  <2> QED  BY <2>2, <2>3
<1> QED  BY <1>6, <1>7
-----------------------------------------------------------------------------
(* The steps, one after the other. *)

LEMMA ConstantsLemma ==
  /\ \A k \in 1 .. Len(HostNonces) : HostNonces[k] \in NonceBytes
  /\ \A k \in 1 .. Len(DeviceNonces) : DeviceNonces[k] \in NonceBytes
  /\ Len(HostNonces) \in Nat \ {0} /\ Len(DeviceNonces) \in Nat \ {0}
  /\ MaxEarly \in Nat /\ Len(HostNonces) > MaxEarly
  /\ Torn \in BOOLEAN /\ GoesOn \in BOOLEAN
<1> DEFINE S == 1 .. 255
<1>1. HostNonces \in Seq(S) /\ DeviceNonces \in Seq(S)
  BY SessionAssumption
<1>2. S \subseteq NonceBytes
  BY SMTT(30) DEF NonceBytes
<1> HIDE DEF S
<1>3. /\ \A k \in 1 .. Len(HostNonces) : HostNonces[k] \in S
      /\ \A k \in 1 .. Len(DeviceNonces) : DeviceNonces[k] \in S
  BY SMTT(30), <1>1
<1>4. Len(HostNonces) \in Nat /\ Len(DeviceNonces) \in Nat
  BY SMTT(30), <1>1
<1>5. MaxEarly \in Nat /\ MaxReset \in Nat
  BY SessionAssumption
<1>6. Len(HostNonces) > MaxEarly /\ Len(DeviceNonces) > MaxReset
  BY SessionAssumption
<1>7. Torn \in BOOLEAN /\ GoesOn \in BOOLEAN
  BY SessionAssumption
<1>8. Len(HostNonces) \in Nat \ {0} /\ Len(DeviceNonces) \in Nat \ {0}
  BY SMTT(30), <1>4, <1>5, <1>6
<1> QED  BY <1>2, <1>3, <1>5, <1>6, <1>7, <1>8

\* The device starts afresh (MicroTVMRpcServerInit).
LEMMA BootLemma ==
  ASSUME NEW n \in NonceBytes, NEW b, b = Boot(n)
  PROVE  /\ b.s \in Sessions /\ Free(b.s) /\ b.s.state_ = "kNoSessionEstablished"
         /\ b.out = <<Packet(<<0, 0>>, kTerminateSession, <<>>), Log>>
<1> DEFINE id == <<0, 0>>
           st == "kNoSessionEstablished"
           u == [NewSession EXCEPT !.local_nonce_ = n, !.session_id_ = id, !.state_ = st]
           p == Packet(<<0, 0>>, kTerminateSession, <<>>)
<1>1. Initialize(NewSession, n) = [s |-> u, out |-> <<p>>]
  BY DEF Initialize
<1>2. NewSession \in Sessions /\ Free(NewSession)
  BY SMTT(30), Kinds DEF NewSession, Sessions, Free, States, NonceBytes, Ids, Byte
<1>3. id \in Ids /\ st \in States
  BY DEF Ids, Byte, States
<1> HIDE DEF id, st, p
<1>4. u \in Sessions /\ Free(u) /\ u.state_ = st
  BY <1>2, <1>3 DEF Sessions, Free
<1> HIDE DEF u
<1>5. Boot(n) = [s |-> u, out |-> Append(<<p>>, Log)]
  <2>1. Initialize(NewSession, n).s = u /\ Initialize(NewSession, n).out = <<p>>
    BY SMTT(30), <1>1
  <2> QED  BY <2>1 DEF Boot
<1>6. Append(<<p>>, Log) = <<p, Log>>
  BY AppendLemma
<1> QED  BY SMTT(30), <1>4, <1>5, <1>6 DEF st, p

LEMMA PlainPackets ==
  /\ Packet(<<0, 0>>, kTerminateSession, <<>>) \in HostMessages \cap DeviceMessages
  /\ Plain(Packet(<<0, 0>>, kTerminateSession, <<>>))
  /\ Log \in HostMessages /\ Plain(Log)
<1> DEFINE p == Packet(<<0, 0>>, kTerminateSession, <<>>)
<1>1. p \in Messages /\ TermForm(p)
  BY TermPacket
<1>2. Log \in Messages /\ LogForm(Log)
  BY LogPacket
<1> HIDE DEF p
<1>3. Plain(p) /\ Plain(Log)
  BY <1>1, <1>2, FormLemma
<1> QED  BY <1>1, <1>2, <1>3 DEF HostMessages, DeviceMessages, p

LEMMA KeptAll ==
  ASSUME Inv0, KeptStep, RangeInv', BufferInv', PhaseInv'
  PROVE  Inv0'
<1>1. WiresKept
  BY DEF KeptStep
<1>2. Mine' = Mine
  BY <1>1, MineKept DEF WiresKept
<1>3. StartInv'
  BY <1>1, <1>2, StartKept DEF Inv0, KeptStep, WiresKept
<1> QED  BY <1>1, <1>3, RecentKept, ReplyKept, AgreeKept DEF Inv0

LEMMA RestartStep ==
  ASSUME Inv0, NEW sent \in Seq(HostMessages), Kept(wire["host"], sent, 0), Restart(sent),
         channel' = channel, early' = early, asked' = asked
  PROVE  Inv0' /\ KeptStep
<1> DEFINE n == DeviceNonces[Drawn("device")]
           b == Boot(n)
           p == Packet(<<0, 0>>, kTerminateSession, <<>>)
<1>1. Drawn("device") \in 1 .. Len(DeviceNonces)
  <2>1. drawn["device"] \in Nat /\ Len(DeviceNonces) \in Nat \ {0}
    BY ConstantsLemma DEF Inv0, RangeInv, Ends
  <2>2. Drawn("device") = (drawn["device"] % Len(DeviceNonces)) + 1
    BY DEF Drawn, Nonces
  <2> QED  BY SMTT(30), <2>1, <2>2
<1>2. n \in NonceBytes
  BY <1>1, ConstantsLemma
<1> HIDE DEF n
<1>3. /\ b.s \in Sessions /\ Free(b.s) /\ b.s.state_ = "kNoSessionEstablished"
      /\ b.out = <<p, Log>>
  BY <1>2, BootLemma
<1>4. PICK heard \in Heard(wire["device"]) : wire' = [host |-> sent \o b.out, device |-> heard]
  BY DEF Restart, n
<1>5. sess' = [sess EXCEPT !["device"] = b.s]
  BY DEF Restart, n
<1>6. drawn' = [drawn EXCEPT !["device"] = Drawn("device")]
  BY DEF Restart
<1> HIDE DEF b
<1>7. wire["device"] \in Seq(DeviceMessages) /\ wire["host"] \in Seq(HostMessages)
  BY DEF Inv0, RangeInv
<1>8. heard \in Seq(DeviceMessages) /\ \E k \in Nat : Kept(wire["device"], heard, k)
  BY <1>7, KeptHeard
<1>9. sent \o b.out = Append(Append(sent, p), Log)
  BY SMTT(30), <1>3, PlainPackets, AppendTwo
<1>10. Append(sent, p) \in Seq(HostMessages) /\ Kept(wire["host"], Append(sent, p), 0)
  BY <1>7, PlainPackets, KeptAppend
<1>11. /\ Append(Append(sent, p), Log) \in Seq(HostMessages)
       /\ Kept(wire["host"], Append(Append(sent, p), Log), 0)
  BY <1>7, <1>10, PlainPackets, KeptAppend
<1> DEFINE w == Append(Append(sent, p), Log)
<1>12. wire'["host"] = w /\ wire'["device"] = heard /\ wire' = [host |-> w, device |-> heard]
  BY <1>4, <1>9
<1> HIDE DEF w
<1>13. sess'["device"] = b.s /\ sess'["host"] = sess["host"] /\ sess' \in [Ends -> Sessions]
  BY <1>3, <1>5 DEF Inv0, RangeInv, Ends
<1>14. /\ drawn'["host"] = drawn["host"] /\ drawn'["device"] = Drawn("device")
       /\ drawn' \in [Ends -> Nat]
  BY SMTT(30), <1>1, <1>6 DEF Inv0, RangeInv, Ends
<1>15. KeptStep
  <2>1. \E k \in Nat : Kept(wire["host"], wire'["host"], k)
    BY <1>11, <1>12 DEF w
  <2>2. \E k \in Nat : Kept(wire["device"], wire'["device"], k)
    BY <1>8, <1>12
  <2> QED  BY <1>3, <1>13, <1>14, <2>1, <2>2 DEF KeptStep, WiresKept
<1>16. RangeInv'
  <2>1. wire' \in [host : Seq(HostMessages), device : Seq(DeviceMessages)]
    BY <1>8, <1>11, <1>12 DEF w
  <2> QED  BY <1>1, <1>13, <1>14, <2>1 DEF Inv0, RangeInv
<1>17. BufferInv'
  BY <1>3, <1>13 DEF Inv0, BufferInv, Ends, Free
<1>18. PhaseInv'
  <2>1. Mine' = Mine
    BY <1>15, MineKept DEF KeptStep, WiresKept
  <2> QED  BY <1>3, <1>13, <1>14, <2>1 DEF Inv0, PhaseInv
<1> QED  BY <1>15, <1>16, <1>17, <1>18, KeptAll

LEMMA OwnAll ==
  ASSUME RangeInv, KeptStep, OwnInv, channel' \in {channel, "closed"},
         message_' = message_, asked' = asked, got' = got
  PROVE  OwnInv'
<1>1. (NoneUnderWay => NoneUnderWay') /\ (OwnOnce => OwnOnce')
  BY OwnKept DEF KeptStep
<1>2. CASE channel' = "closed"
  BY <1>2 DEF OwnInv
<1>3. CASE channel' = channel
  BY <1>1, <1>3 DEF OwnInv
<1> QED  BY <1>2, <1>3

LEMMA ResetStep ==
  ASSUME IInv, ~Torn, Reset
  PROVE  IInv'
<1>1. PICK sent \in CutShort(wire["host"]) : Restart(sent)
  BY DEF Reset
<1>2. sent = wire["host"]
  BY <1>1 DEF CutShort
<1>3. wire["host"] \in Seq(HostMessages)
  BY DEF IInv, Inv0, RangeInv
<1>4. Kept(wire["host"], wire["host"], 0)
  BY <1>3, KeptSame
<1>5. /\ channel' = channel /\ early' = early /\ asked' = asked /\ message_' = message_
      /\ got' = got
  BY DEF Reset
<1>6. Inv0' /\ KeptStep
  BY <1>1, <1>2, <1>3, <1>4, <1>5, RestartStep DEF IInv
<1>7. ~GoesOn => OwnInv'
  BY <1>5, <1>6, OwnAll DEF IInv, Inv0
<1> QED  BY <1>6, <1>7 DEF IInv

LEMMA AbortStep ==
  ASSUME IInv, Abort
  PROVE  IInv'
<1> DEFINE sent == Append(wire["host"], Log)
<1>1. Restart(sent)
  BY DEF Abort
<1>2. wire["host"] \in Seq(HostMessages)
  BY DEF IInv, Inv0, RangeInv
<1>3. Kept(wire["host"], wire["host"], 0)
  BY <1>2, KeptSame
<1>4. sent \in Seq(HostMessages) /\ Kept(wire["host"], sent, 0)
  BY <1>2, <1>3, PlainPackets, KeptAppend
<1>5. /\ channel' = channel /\ early' = early /\ asked' = asked /\ message_' = message_
      /\ got' = got
  BY DEF Abort
<1> HIDE DEF sent
<1>6. Inv0' /\ KeptStep
  BY <1>1, <1>4, <1>5, RestartStep DEF IInv
<1>7. ~GoesOn => OwnInv'
  BY <1>5, <1>6, OwnAll DEF IInv, Inv0
<1> QED  BY <1>6, <1>7 DEF IInv

\* The wires and what the ends know stay as they are.
LEMMA StandStill ==
  ASSUME RangeInv, wire' = wire, drawn' = drawn, early' = early,
         channel' # "closed" => channel # "closed",
         channel' \in {"open", "waiting"} =>
           /\ channel \in {"open", "waiting"}
           /\ sess'["host"].session_id_ = sess["host"].session_id_,
         sess'["device"] = sess["device"]
  PROVE  KeptStep
<1>1. wire["device"] \in Seq(DeviceMessages) /\ wire["host"] \in Seq(HostMessages)
  BY DEF RangeInv
<1>2. Kept(wire["device"], wire["device"], 0) /\ Kept(wire["host"], wire["host"], 0)
  BY <1>1, KeptSame
<1> QED  BY <1>2 DEF KeptStep, WiresKept

LEMMA CloseStep ==
  ASSUME IInv, Close
  PROVE  IInv'
<1>1. /\ wire' = wire /\ drawn' = drawn /\ early' = early /\ channel' = "closed"
      /\ sess' = sess /\ message_' = message_ /\ asked' = asked /\ got' = got
  BY DEF Close
<1>2. KeptStep
  BY <1>1, StandStill DEF IInv, Inv0
<1>3. RangeInv' /\ BufferInv' /\ PhaseInv'
  <2>1. RangeInv /\ BufferInv /\ PhaseInv
    BY DEF IInv, Inv0
  <2>2. RangeInv'
    BY <1>1, <2>1 DEF RangeInv
  <2>3. BufferInv' /\ PhaseInv'
    BY <1>1, <2>1 DEF BufferInv, PhaseInv
  <2> QED  BY <2>2, <2>3
<1>4. Inv0'
  BY <1>2, <1>3, KeptAll DEF IInv
<1>5. ~GoesOn => OwnInv'
  BY <1>1, <1>2, OwnAll DEF IInv, Inv0
<1> QED  BY <1>4, <1>5 DEF IInv

LEMMA TimeoutStep ==
  ASSUME IInv, Timeout
  PROVE  IInv'
<1>1. /\ wire' = wire /\ drawn' = drawn /\ early' = early /\ channel = "waiting"
      /\ channel' \in {"closed", "open"} /\ (~GoesOn => channel' = "closed")
      /\ sess' = sess /\ message_' = message_ /\ asked' = asked /\ got' = got
  BY DEF Timeout
<1>2. KeptStep
  BY <1>1, StandStill DEF IInv, Inv0
<1>3. RangeInv' /\ BufferInv' /\ PhaseInv'
  <2>1. Mine' = Mine
    BY <1>1 DEF Mine
  <2>2. RangeInv' /\ BufferInv'
    BY <1>1 DEF IInv, Inv0, RangeInv, BufferInv
  <2>3. PhaseInv'
    BY <1>1, <2>1 DEF IInv, Inv0, PhaseInv
  <2> QED  BY <2>2, <2>3
<1>4. Inv0'
  BY <1>2, <1>3, KeptAll DEF IInv
<1>5. ~GoesOn => OwnInv'
  BY <1>1, <1>2, OwnAll DEF IInv, Inv0
<1> QED  BY <1>4, <1>5 DEF IInv

LEMMA RecvStep ==
  ASSUME IInv, Recv
  PROVE  IInv'
<1> DEFINE s == sess["host"]
           t == ClearReceiveBuffer(s)
<1>1. /\ wire' = wire /\ drawn' = drawn /\ early' = early /\ channel = "waiting"
      /\ channel' = "open" /\ sess' = [sess EXCEPT !["host"] = t] /\ message_ # <<>>
      /\ message_' = <<>> /\ asked' = asked /\ got' = message_
  BY DEF Recv, MessageTaken
<1>2. s \in Sessions
  BY DEF IInv, Inv0, RangeInv, Ends
<1>3. Alike(s, t) /\ Free(t)
  <2>1. {} \in SUBSET Byte /\ <<>> \in Seq(Byte)
    BY SMTT(30)
  <2> HIDE DEF s
  <2> QED  BY <1>2, <2>1 DEF ClearReceiveBuffer, Alike, Free, Sessions
<1> HIDE DEF t
<1>4. sess'["host"] = t /\ sess'["device"] = sess["device"] /\ sess' \in [Ends -> Sessions]
  BY <1>1, <1>3 DEF IInv, Inv0, RangeInv, Ends, Alike
<1>5. KeptStep
  <2>1. sess'["host"].session_id_ = sess["host"].session_id_
    BY <1>3, <1>4 DEF Alike
  <2> QED  BY <1>1, <1>4, <2>1, StandStill DEF IInv, Inv0
<1>6. RangeInv'
  BY <1>1, <1>4 DEF IInv, Inv0, RangeInv
<1>7. BufferInv'
  BY <1>3, <1>4 DEF IInv, Inv0, BufferInv, Ends, Free
<1>8. PhaseInv'
  <2>1. Mine' = Mine
    BY <1>1 DEF Mine
  <2> QED  BY <1>1, <1>3, <1>4, <2>1 DEF IInv, Inv0, PhaseInv, Alike
<1>9. Inv0'
  BY <1>5, <1>6, <1>7, <1>8, KeptAll DEF IInv
<1>10. ASSUME ~GoesOn PROVE OwnInv'
  <2>1. message_ = <<<<asked>>>> /\ NoneUnderWay
    BY <1>1, <1>10 DEF IInv, OwnInv
  <2>2. NoneUnderWay'
    BY <1>1, <1>5, <2>1, OwnKept DEF IInv, Inv0, KeptStep
  <2> QED  BY <1>1, <2>1, <2>2 DEF OwnInv
<1> QED  BY <1>9, <1>10 DEF IInv

\* The packets under way after one more was sent.
LEMMA Sent ==
  ASSUME NEW S, NEW w \in Seq(S), NEW q \in S, NEW v, v = Append(w, q)
  PROVE  /\ v \in Seq(S) /\ Len(v) = Len(w) + 1 /\ Len(w) \in Nat
         /\ \A i \in 1 .. Len(v) : (i \in 1 .. Len(w) /\ v[i] = w[i]) \/ (i = Len(v) /\ v[i] = q)
         /\ \A i \in 1 .. Len(w) : v[i] = w[i]
  BY SMTT(30)

LEMMA MineRecent ==
  ASSUME RangeInv, drawn["host"] > 0
  PROVE  Mine \in Recent
<1>1. drawn["host"] \in Nat /\ early \in 0 .. MaxEarly
  BY DEF RangeInv, Ends
<1>2. 0 \in 0 .. MaxEarly - early /\ Back(drawn["host"], 0) = drawn["host"]
  BY SMTT(30), <1>1, ConstantsLemma DEF Back
<1> QED  BY <1>2 DEF Mine, Recent

LEMMA SendStep ==
  ASSUME IInv, Send
  PROVE  IInv'
<1> DEFINE id == sess["host"].session_id_
           wd == wire["device"]
           wh == wire["host"]
           x == asked + 1
           q == Packet(id, kNormal, <<x>>)
           vd == Append(wd, q)
<1>1. channel = "open"
  BY DEF Send
<1>2. sess["host"].state_ = "kSessionEstablished" /\ id[1] = Mine /\ drawn["host"] > 0
  BY <1>1 DEF IInv, Inv0, PhaseInv
<1>3. /\ wire' = [wire EXCEPT !["device"] = vd] /\ channel' = "waiting" /\ asked' = x
      /\ got' = <<>> /\ sess' = sess /\ message_' = message_ /\ drawn' = drawn
      /\ early' = early
  BY <1>2 DEF Send
<1>4. wire \in [host : Seq(HostMessages), device : Seq(DeviceMessages)]
  BY DEF IInv, Inv0, RangeInv
<1>5. q \in DeviceMessages /\ NormalForm(q) /\ q.bytes[1] = Mine /\ q.bytes[4] = x
  <2>1. id \in Ids
    BY DEF IInv, Inv0, RangeInv, Sessions, Ends
  <2>2. id = <<id[1], id[2]>> /\ id[1] \in Byte /\ id[2] \in Byte
    BY SMTT(30), <2>1 DEF Ids
  <2>3. x \in Byte /\ kNormal \in Byte
    BY SMTT(30), Kinds DEF IInv, Inv0, RangeInv, Byte
  <2> HIDE DEF x, id
  <2>4. /\ q \in Messages /\ Len(q.bytes) = 4 /\ IsType(q, kNormal) /\ q.bytes[1] = id[1]
        /\ q.bytes[4] = x
    BY SMTT(30), <2>2, <2>3, BytePacket
  <2> HIDE DEF q
  <2> QED  BY <1>2, <2>4 DEF DeviceMessages, NormalForm, IsNormal, id
<1>6. wd \in Seq(DeviceMessages) /\ wh \in Seq(HostMessages)
  BY <1>4
<1> HIDE DEF q, id
<1>7. wire'["device"] = vd /\ wire'["host"] = wh
  BY <1>3, <1>4
<1>8. wire' = [host |-> wh, device |-> vd]
  BY <1>3, <1>4
<1> HIDE DEF wd, wh
<1>9. /\ vd \in Seq(DeviceMessages) /\ Len(vd) = Len(wd) + 1 /\ Len(wd) \in Nat
      /\ \A i \in 1 .. Len(vd) :
           (i \in 1 .. Len(wd) /\ vd[i] = wd[i]) \/ (i = Len(vd) /\ vd[i] = q)
  BY SMTT(30), <1>5, <1>6, Sent
<1> HIDE DEF vd
<1>10. RangeInv'
  <2>1. wire' \in [host : Seq(HostMessages), device : Seq(DeviceMessages)]
    BY <1>6, <1>8, <1>9
  <2>2. x \in Byte
    BY SMTT(30) DEF IInv, Inv0, RangeInv, Byte
  <2> HIDE DEF x
  <2> QED  BY <1>3, <2>1, <2>2 DEF IInv, Inv0, RangeInv
<1> HIDE DEF x
<1>11. Mine' = Mine /\ Recent' = Recent
  BY <1>3, MineKept
<1>12. BufferInv'
  BY <1>3 DEF IInv, Inv0, BufferInv
<1>13. PhaseInv'
  BY <1>1, <1>3, <1>11 DEF IInv, Inv0, PhaseInv
<1>14. IsNormal(q) /\ ~IsInit(q)
  BY <1>5, FormLemma
<1>15. RecentInv'
  <2>1. ASSUME NEW i \in 1 .. Len(vd), IsInit(vd[i]) \/ IsNormal(vd[i])
        PROVE  vd[i].bytes[1] \in Recent
    <3>1. CASE i \in 1 .. Len(wd) /\ vd[i] = wd[i]
      BY <2>1, <3>1 DEF IInv, Inv0, RecentInv, wd
    <3>2. CASE vd[i] = q
      BY <1>2, <1>5, <3>2, MineRecent DEF IInv, Inv0
    <3> QED  BY <1>9, <3>1, <3>2
  <2>2. \A i \in 1 .. Len(wh) : IsReply(wh[i]) \/ IsNormal(wh[i]) => wh[i].bytes[1] \in Recent
    BY DEF IInv, Inv0, RecentInv, wh
  <2> QED  BY <1>7, <1>11, <2>1, <2>2 DEF RecentInv
<1>16. /\ \A j \in 1 .. Len(vd) : ~IsInit(vd[j])
       /\ \A j \in 1 .. Len(wh) : ~IsReply(wh[j])
  <2>1. /\ \A j \in 1 .. Len(wd) : ~IsInit(wd[j])
        /\ \A j \in 1 .. Len(wh) : ~IsReply(wh[j])
    BY <1>1 DEF IInv, Inv0, AgreeInv, wd, wh
  <2> QED  BY <1>9, <1>14, <2>1
<1>17. AgreeInv' /\ StartInv' /\ ReplyInv'
  <2>1. AgreeInv'
    BY <1>1, <1>3, <1>7, <1>16 DEF IInv, Inv0, AgreeInv
  <2>2. StartInv'
    BY <1>7, <1>16 DEF StartInv
  <2>3. ReplyInv'
    BY <1>7, <1>16 DEF ReplyInv
  <2> QED  BY <2>1, <2>2, <2>3
<1>18. ASSUME ~GoesOn PROVE OwnInv'
  <2>1. NoneUnderWay /\ message_ = <<>>
    BY <1>1, <1>18 DEF IInv, OwnInv
  <2>2. ASSUME NEW e \in Ends, NEW i \in 1 .. Len(wire'[e]), Own(wire'[e][i])
        PROVE  e = "device" /\ i = Len(vd) /\ wire'[e][i] = q
    <3>1. \A j \in 1 .. Len(wd) : ~Own(wd[j])
      BY <2>1 DEF NoneUnderWay, Ends, wd
    <3>2. \A j \in 1 .. Len(wh) : ~Own(wh[j])
      BY <2>1 DEF NoneUnderWay, Ends, wh
    <3>3. e = "device"
      BY <1>7, <2>2, <3>2 DEF Ends
    <3> QED  BY <1>7, <1>9, <2>2, <3>1, <3>3
  <2>3. OwnOnce'
    <3> SUFFICES ASSUME NEW e \in Ends, NEW i \in 1 .. Len(wire'[e]), Own(wire'[e][i])
                 PROVE  /\ wire'[e][i].bytes[4] = asked'
                        /\ \A f \in Ends : \A j \in 1 .. Len(wire'[f]) :
                             Own(wire'[f][j]) => e = f /\ i = j
      BY SMTT(30), <1>11 DEF OwnOnce, Own
    <3> QED  BY <1>3, <1>5, <2>2
  <2> QED  BY <1>3, <2>1, <2>3 DEF OwnInv
<1> QED  BY <1>10, <1>12, <1>13, <1>15, <1>17, <1>18 DEF IInv, Inv0

\* What the host makes of a packet (HandleMessageReceived, ReceiveUntil): nothing, the end
\* of the channel, the answer, or the session.
HostEffect(p) ==
  \/ /\ channel' = channel /\ message_' = message_
     /\ sess'["host"].state_ = sess["host"].state_
     /\ channel = "waiting" => sess'["host"].session_id_ = sess["host"].session_id_
  \/ channel' = "closed" /\ message_' = message_
  \/ /\ channel = "waiting" /\ channel' = channel /\ IsNormal(p)
     /\ p.bytes[1] = sess["host"].session_id_[1]
     /\ message_' = <<<<p.bytes[4]>>>>
     /\ sess'["host"].state_ = sess["host"].state_
     /\ sess'["host"].session_id_ = sess["host"].session_id_
  \/ /\ channel = "starting" /\ channel' = "open" /\ message_' = message_
     /\ IsReply(p) /\ p.bytes[1] = sess["host"].local_nonce_
     /\ sess'["host"].state_ = "kSessionEstablished" /\ sess'["host"].session_id_ = Id(p)

LEMMA HostReceiveEffect ==
  ASSUME Inv0, HostReceive, NEW p, p = Head(wire["host"])
  PROVE  /\ wire["host"] # <<>> /\ p = wire["host"][1]
         /\ wire' = [host |-> Tail(wire["host"]), device |-> wire["device"]]
         /\ sess' \in [Ends -> Sessions] /\ sess'["device"] = sess["device"]
         /\ sess'["host"].local_nonce_ = sess["host"].local_nonce_
         /\ sess'["host"].complete # {} \/ sess'["host"].receive_buffer_ = <<>>
         /\ asked' = asked /\ got' = got /\ drawn' = drawn /\ early' = early
         /\ channel = "waiting" => message_ = <<>>
         /\ HostEffect(p)
<1> DEFINE h == sess["host"]
           r == Receive(h, p)
           logs == Bodies(r.received, kLog)
           msgs == Bodies(r.received, kNormal)
           s == IF \E b \in Range(logs) : b # <<>> THEN ClearReceiveBuffer(r.s) ELSE r.s
           ended == h.state_ = "kSessionEstablished" /\ s.state_ = "kNoSessionEstablished"
<1>1. /\ channel \in {"starting", "waiting"} /\ wire["host"] # <<>>
      /\ channel = "waiting" => message_ = <<>>
      /\ asked' = asked /\ got' = got /\ drawn' = drawn /\ early' = early
  BY DEF HostReceive
<1>2. sess' = [sess EXCEPT !["host"] = s]
  BY DEF HostReceive
<1>3. wire' = [host |-> Tail(wire["host"]), device |-> wire["device"] \o r.out]
  BY DEF HostReceive
<1>4. message_' = IF msgs = <<>> THEN message_ ELSE msgs
  BY DEF HostReceive
<1>5. channel' = CASE ended -> "closed"
                   [] channel = "starting" /\ s.state_ = "kSessionEstablished" -> "open"
                   [] OTHER -> channel
  BY DEF HostReceive
<1>6. wire["device"] \in Seq(DeviceMessages) /\ wire["host"] \in Seq(HostMessages)
  BY DEF Inv0, RangeInv
<1>7. p = wire["host"][1] /\ p \in HostMessages
  BY SMTT(30), <1>1, <1>6
<1>8. p \in Messages /\ (ReplyForm(p) \/ NormalForm(p) \/ TermForm(p) \/ LogForm(p))
  BY <1>7 DEF HostMessages
<1>9. h \in Sessions /\ (h.complete # {} \/ h.receive_buffer_ = <<>>)
  BY DEF Inv0, RangeInv, BufferInv, Ends
<1>10. /\ channel = "starting" => h.state_ = "kStartSessionSent"
       /\ channel = "waiting" => h.state_ = "kSessionEstablished"
  BY DEF Inv0, PhaseInv
<1>11. channel = "waiting" => ~IsReply(p)
  <2>1. 1 \in 1 .. Len(wire["host"])
    BY SMTT(30), <1>1, <1>6
  <2> QED  BY <1>7, <2>1 DEF Inv0, AgreeInv
<1> HIDE DEF h, r, s
<1>12. ASSUME logs = <<>> PROVE s = r.s
  <2>1. Range(logs) = {}
    BY SMTT(30), <1>12 DEF Range
  <2> QED  BY <2>1 DEF s
<1> HIDE DEF logs, msgs
\* It suffices to know the session of the host afterwards.
<1>13. ASSUME r.out = <<>>, s \in Sessions, s.local_nonce_ = h.local_nonce_,
              s.complete # {} \/ s.receive_buffer_ = <<>>
       PROVE  /\ wire' = [host |-> Tail(wire["host"]), device |-> wire["device"]]
              /\ sess' \in [Ends -> Sessions] /\ sess'["device"] = sess["device"]
              /\ sess'["host"] = s
              /\ sess'["host"].local_nonce_ = sess["host"].local_nonce_
              /\ sess'["host"].complete # {} \/ sess'["host"].receive_buffer_ = <<>>
  <2>1. wire["device"] \o <<>> = wire["device"]
    BY SMTT(30), <1>6
  <2>2. wire' = [host |-> Tail(wire["host"]), device |-> wire["device"]]
    BY <1>3, <1>13, <2>1
  <2>3. sess' \in [Ends -> Sessions] /\ sess'["device"] = sess["device"] /\ sess'["host"] = s
    BY <1>2, <1>13 DEF Inv0, RangeInv, Ends
  <2> QED  BY <1>13, <2>2, <2>3 DEF h
<1>14. ASSUME Alike(h, s), msgs = <<>>, sess'["host"] = s
       PROVE  HostEffect(p)
  <2>1. ~ended /\ ~(channel = "starting" /\ s.state_ = "kSessionEstablished")
    BY <1>1, <1>10, <1>14 DEF Alike
  <2>2. channel' = channel
    BY <1>5, <2>1
  <2>3. message_' = message_
    BY <1>4, <1>14
  <2> QED  BY <1>14, <2>2, <2>3 DEF HostEffect, Alike, h
<1>15. CASE h.complete # {}
  <2>1. r = [s |-> h, out |-> <<>>, received |-> <<>>]
    BY <1>8, <1>9, <1>15, ReceiveFull DEF r
  <2>2. r.s = h /\ r.out = <<>> /\ r.received = <<>>
    BY <2>1
  <2>3. logs = <<>> /\ msgs = <<>>
    BY <2>2, BodiesLemma DEF logs, msgs
  <2>4. s = h
    BY <1>12, <2>2, <2>3
  <2>5. Alike(h, s)
    BY <1>9, <2>4 DEF Alike
  <2> QED  BY <1>1, <1>7, <1>9, <1>13, <1>14, <2>2, <2>3, <2>4, <2>5
<1>16. CASE Free(h) /\ TermForm(p)
  <2>1. /\ r.out = <<>> /\ r.received = <<>> /\ r.s \in Sessions /\ Free(r.s)
        /\ r.s.local_nonce_ = h.local_nonce_ /\ r.s.session_id_ = h.session_id_
        /\ r.s.state_ = IF h.state_ = "kSessionEstablished" THEN "kNoSessionEstablished"
                        ELSE h.state_
    BY SMTT(30), <1>8, <1>9, <1>16, ReceiveTerm DEF r
  <2>2. logs = <<>> /\ msgs = <<>>
    BY <2>1, BodiesLemma DEF logs, msgs
  <2>3. s = r.s
    BY <1>12, <2>2
  <2>4. /\ wire' = [host |-> Tail(wire["host"]), device |-> wire["device"]]
        /\ sess' \in [Ends -> Sessions] /\ sess'["device"] = sess["device"]
        /\ sess'["host"] = s
        /\ sess'["host"].local_nonce_ = sess["host"].local_nonce_
        /\ sess'["host"].complete # {} \/ sess'["host"].receive_buffer_ = <<>>
    BY <1>13, <2>1, <2>3 DEF Free
  <2>5. HostEffect(p)
    <3>1. CASE channel = "starting"
      <4>1. Alike(h, s)
        BY <1>10, <2>1, <2>3, <3>1 DEF Alike
      <4> QED  BY <1>14, <2>2, <2>4, <4>1
    <3>2. CASE channel = "waiting"
      <4>1. ended
        BY <1>10, <2>1, <2>3, <3>2
      <4>2. ~(channel = "starting" /\ s.state_ = "kSessionEstablished")
        BY <3>2
      <4>3. channel' = "closed" /\ message_' = message_
        BY <1>4, <1>5, <2>2, <4>1, <4>2
      <4> QED  BY <4>3 DEF HostEffect
    <3> QED  BY <1>1, <3>1, <3>2
  <2> QED  BY <1>1, <1>7, <2>4, <2>5
<1>17. CASE Free(h) /\ LogForm(p)
  <2>1. /\ r.out = <<>> /\ Alike(h, r.s) /\ msgs = <<>> /\ logs = <<<<p.bytes[4]>>>>
    BY <1>8, <1>9, <1>17, ReceiveLog DEF r, logs, msgs
  <2>2. s = ClearReceiveBuffer(r.s)
    <3>1. <<p.bytes[4]>> \in Range(logs)
      BY SMTT(30), <2>1 DEF Range
    <3>2. <<p.bytes[4]>> # <<>>
      OBVIOUS
    <3> QED  BY <3>1, <3>2 DEF s
  <2>3. Alike(h, s) /\ Free(s)
    <3>1. {} \in SUBSET Byte /\ <<>> \in Seq(Byte)
      BY SMTT(30)
    <3> QED  BY <2>1, <2>2, <3>1 DEF ClearReceiveBuffer, Alike, Free, Sessions
  <2>4. s \in Sessions /\ s.local_nonce_ = h.local_nonce_ /\ s.receive_buffer_ = <<>>
    BY <2>3 DEF Alike, Free
  <2> QED  BY <1>1, <1>7, <1>13, <1>14, <2>1, <2>3, <2>4
<1>18. CASE Free(h) /\ NormalForm(p)
  <2>1. /\ r.out = <<>> /\ Alike(h, r.s) /\ r.s.complete # {} /\ logs = <<>>
        /\ Accepts(h, Id(p)) => msgs = <<<<p.bytes[4]>>>>
        /\ ~Accepts(h, Id(p)) => msgs = <<>>
    BY <1>8, <1>9, <1>18, ReceiveNormal DEF r, logs, msgs
  <2>2. s = r.s /\ Alike(h, s)
    BY <1>12, <2>1
  <2>3. s \in Sessions /\ s.local_nonce_ = h.local_nonce_ /\ s.complete # {}
    BY <2>1, <2>2 DEF Alike
  <2>4. /\ wire' = [host |-> Tail(wire["host"]), device |-> wire["device"]]
        /\ sess' \in [Ends -> Sessions] /\ sess'["device"] = sess["device"]
        /\ sess'["host"] = s
        /\ sess'["host"].local_nonce_ = sess["host"].local_nonce_
        /\ sess'["host"].complete # {} \/ sess'["host"].receive_buffer_ = <<>>
    BY <1>13, <2>1, <2>3
  <2>5. HostEffect(p)
    <3>1. CASE ~Accepts(h, Id(p))
      BY <1>14, <2>1, <2>2, <2>4, <3>1
    <3>2. CASE Accepts(h, Id(p))
      <4>1. h.state_ = "kSessionEstablished" /\ Id(p) = h.session_id_
        BY <3>2 DEF Accepts
      <4>2. channel = "waiting" /\ ~ended
        BY <1>1, <1>10, <2>2, <4>1 DEF Alike
      <4>3. channel' = channel
        BY <1>5, <4>2
      <4>4. message_' = <<<<p.bytes[4]>>>>
        <5>1. msgs = <<<<p.bytes[4]>>>> /\ <<<<p.bytes[4]>>>> # <<>>
          BY <2>1, <3>2
        <5> QED  BY <1>4, <5>1
      <4>5. p.bytes[1] = h.session_id_[1]
        BY SMTT(30), <4>1 DEF Id
      <4>6. IsNormal(p)
        BY <1>18, FormLemma
      <4> QED  BY <2>2, <2>4, <4>2, <4>3, <4>4, <4>5, <4>6 DEF HostEffect, Alike, h
    <3> QED  BY <3>1, <3>2
  <2> QED  BY <1>1, <1>7, <2>4, <2>5
<1>19. CASE Free(h) /\ ReplyForm(p)
  <2>1. IsReply(p)
    BY <1>19, FormLemma
  <2>2. channel = "starting" /\ h.state_ = "kStartSessionSent"
    BY <1>1, <1>10, <1>11, <2>1
  <2>3. /\ r.out = <<>> /\ r.received = <<>> /\ r.s \in Sessions /\ Free(r.s)
        /\ r.s.local_nonce_ = h.local_nonce_
        /\ p.bytes[1] = h.local_nonce_ =>
             r.s.state_ = "kSessionEstablished" /\ r.s.session_id_ = Id(p)
        /\ p.bytes[1] # h.local_nonce_ => r.s.state_ = h.state_
    BY SMTT(30), <1>8, <1>9, <1>19, <2>2, ReceiveReply DEF r
  <2>4. logs = <<>> /\ msgs = <<>>
    BY <2>3, BodiesLemma DEF logs, msgs
  <2>5. s = r.s
    BY <1>12, <2>4
  <2>6. /\ wire' = [host |-> Tail(wire["host"]), device |-> wire["device"]]
        /\ sess' \in [Ends -> Sessions] /\ sess'["device"] = sess["device"]
        /\ sess'["host"] = s
        /\ sess'["host"].local_nonce_ = sess["host"].local_nonce_
        /\ sess'["host"].complete # {} \/ sess'["host"].receive_buffer_ = <<>>
    BY <1>13, <2>3, <2>5 DEF Free
  <2>7. ~ended
    BY <2>2
  <2>8. message_' = message_
    BY <1>4, <2>4
  <2>9. HostEffect(p)
    <3>1. CASE p.bytes[1] = h.local_nonce_
      <4>1. channel' = "open"
        BY <1>5, <2>2, <2>3, <2>5, <2>7, <3>1
      <4> QED  BY <2>1, <2>2, <2>3, <2>5, <2>6, <2>8, <3>1, <4>1 DEF HostEffect, h
    <3>2. CASE p.bytes[1] # h.local_nonce_
      <4>1. channel' = channel
        BY <1>5, <2>2, <2>3, <2>5, <2>7, <3>2
      <4> QED  BY <2>2, <2>3, <2>5, <2>6, <2>8, <3>2, <4>1 DEF HostEffect, h
    <3> QED  BY <3>1, <3>2
  <2> QED  BY <1>1, <1>7, <2>6, <2>9
<1> QED  BY <1>8, <1>9, <1>15, <1>16, <1>17, <1>18, <1>19 DEF Free

LEMMA HostReceiveStep ==
  ASSUME IInv, HostReceive
  PROVE  IInv'
<1> DEFINE p == Head(wire["host"])
           wd == wire["device"]
           wh == wire["host"]
<1>1. Inv0
  BY DEF IInv
<1>2. /\ wire["host"] # <<>> /\ p = wire["host"][1]
      /\ wire' = [host |-> Tail(wire["host"]), device |-> wire["device"]]
      /\ sess' \in [Ends -> Sessions] /\ sess'["device"] = sess["device"]
      /\ sess'["host"].local_nonce_ = sess["host"].local_nonce_
      /\ sess'["host"].complete # {} \/ sess'["host"].receive_buffer_ = <<>>
      /\ asked' = asked /\ got' = got /\ drawn' = drawn /\ early' = early
      /\ channel = "waiting" => message_ = <<>>
      /\ HostEffect(p)
  BY <1>1, HostReceiveEffect
<1>3. channel \in {"starting", "waiting"}
  BY DEF HostReceive
<1> HIDE DEF p
<1>4. wd \in Seq(DeviceMessages) /\ wh \in Seq(HostMessages)
  BY <1>1 DEF Inv0, RangeInv
<1>5. wire'["host"] = Tail(wh) /\ wire'["device"] = wd
  BY <1>2
<1>6. /\ Tail(wh) \in Seq(HostMessages) /\ Kept(wh, Tail(wh), 1) /\ Kept(wd, wd, 0)
  BY <1>2, <1>4, KeptTail, KeptSame
<1>7. WiresKept
  BY <1>2, <1>5, <1>6 DEF WiresKept
<1>8. channel' \in {"closed", "starting", "open", "waiting"}
  BY <1>2, <1>3 DEF HostEffect
<1>9. RangeInv'
  <2>1. wire' \in [host : Seq(HostMessages), device : Seq(DeviceMessages)]
    BY <1>2, <1>4, <1>6
  <2> QED  BY <1>1, <1>2, <1>8, <2>1 DEF Inv0, RangeInv
<1>10. BufferInv'
  BY <1>1, <1>2 DEF Inv0, BufferInv, Ends
<1>11. Mine' = Mine
  BY <1>2 DEF Mine
<1>12. PhaseInv'
  <2>1. CASE channel' = "closed"
    BY <1>1, <1>2, <2>1 DEF Inv0, PhaseInv
  <2>2. CASE /\ channel' = channel /\ sess'["host"].state_ = sess["host"].state_
             /\ channel = "waiting" => sess'["host"].session_id_ = sess["host"].session_id_
    BY <1>1, <1>2, <1>3, <1>11, <2>2 DEF Inv0, PhaseInv
  <2>3. CASE /\ channel = "starting" /\ channel' = "open"
             /\ p.bytes[1] = sess["host"].local_nonce_
             /\ sess'["host"].state_ = "kSessionEstablished"
             /\ sess'["host"].session_id_ = Id(p)
    <3>1. sess'["host"].session_id_[1] = Mine
      BY SMTT(30), <1>1, <2>3 DEF Inv0, PhaseInv, Id
    <3> QED  BY <1>1, <1>2, <1>11, <2>3, <3>1 DEF Inv0, PhaseInv
  <2> QED  BY <1>2, <2>1, <2>2, <2>3 DEF HostEffect
\* All but the reply that gives the host its session.
<1>13. CASE channel' \in {channel, "closed"}
  <2>1. channel' = "waiting" => sess'["host"].session_id_ = sess["host"].session_id_
    BY <1>2, <1>13 DEF HostEffect
  <2>2. KeptStep
    BY <1>2, <1>3, <1>7, <1>13, <2>1 DEF KeptStep
  <2>3. Inv0'
    BY <1>1, <1>9, <1>10, <1>12, <2>2, KeptAll
  <2>4. ASSUME ~GoesOn PROVE OwnInv'
    <3>1. OwnInv
      BY <2>4 DEF IInv
    <3>2. CASE message_' = message_
      BY <1>1, <1>2, <1>13, <2>2, <3>1, <3>2, OwnAll DEF Inv0
    <3>3. CASE /\ channel = "waiting" /\ channel' = channel /\ IsNormal(p)
               /\ p.bytes[1] = sess["host"].session_id_[1]
               /\ message_' = <<<<p.bytes[4]>>>>
      <4>1. Own(p)
        BY <1>1, <3>3 DEF Inv0, PhaseInv, Own
      <4>2. OwnOnce
        BY <3>1, <3>3 DEF OwnInv
      <4>3. 1 \in 1 .. Len(wh) /\ "host" \in Ends /\ Len(wh) \in Nat
        BY SMTT(30), <1>2, <1>4 DEF Ends
      <4>4. /\ p.bytes[4] = asked
            /\ \A f \in Ends : \A j \in 1 .. Len(wire[f]) : Own(wire[f][j]) => f = "host" /\ j = 1
        BY SMTT(30), <1>2, <4>1, <4>2, <4>3 DEF OwnOnce
      <4>5. NoneUnderWay'
        <5> SUFFICES ASSUME NEW e \in Ends, NEW i \in 1 .. Len(wire'[e]), Own(wire'[e][i])
                     PROVE  FALSE
          BY <1>11 DEF NoneUnderWay, Own
        <5>1. CASE e = "device"
          BY <1>5, <4>4, <5>1
        <5>2. CASE e = "host"
          <6>1. i \in 1 .. Len(Tail(wh)) /\ Own(Tail(wh)[i])
            BY <1>5, <5>2
          <6>2. i + 1 \in 1 .. Len(wh) /\ Tail(wh)[i] = wh[i + 1]
            BY SMTT(30), <1>2, <1>4, <6>1
          <6>3. i + 1 = 1
            BY <4>4, <5>2, <6>1, <6>2
          <6> QED  BY SMTT(30), <5>2, <6>3
        <5> QED  BY <5>1, <5>2 DEF Ends
      <4>6. OwnOnce'
        BY <1>1, <1>2, <1>7, <4>2, OwnKept DEF Inv0
      <4> QED  BY <1>2, <3>1, <3>3, <4>4, <4>5, <4>6 DEF OwnInv
    <3> QED  BY <1>2, <1>13, <3>2, <3>3 DEF HostEffect
  <2> QED  BY <2>3, <2>4 DEF IInv
<1>14. CASE channel' \notin {channel, "closed"}
  <2>1. /\ channel = "starting" /\ channel' = "open" /\ message_' = message_
        /\ IsReply(p) /\ p.bytes[1] = sess["host"].local_nonce_
        /\ sess'["host"].state_ = "kSessionEstablished" /\ sess'["host"].session_id_ = Id(p)
    BY <1>2, <1>14 DEF HostEffect
  <2>2. p.bytes[1] = Mine
    BY <1>1, <2>1 DEF Inv0, PhaseInv
  <2>3. 1 \in 1 .. Len(wh) /\ Len(wh) \in Nat
    BY SMTT(30), <1>2, <1>4
  <2>4. /\ \A j \in 1 .. Len(wd) : ~IsInit(wd[j])
        /\ \A j \in 1 + 1 .. Len(wh) : ~IsReply(wh[j])
        /\ sess["device"].state_ = "kSessionEstablished" => sess["device"].session_id_ = Id(p)
    BY <1>1, <1>2, <2>1, <2>2, <2>3 DEF Inv0, ReplyInv
  <2>5. \A j \in 1 .. Len(Tail(wh)) : ~IsReply(Tail(wh)[j])
    <3> SUFFICES ASSUME NEW j \in 1 .. Len(Tail(wh)) PROVE ~IsReply(Tail(wh)[j])
      OBVIOUS
    <3>1. j + 1 \in 2 .. Len(wh) /\ Tail(wh)[j] = wh[j + 1]
      BY SMTT(30), <1>2, <1>4
    <3> QED  BY SMTT(30), <2>4, <3>1
  <2>6. AgreeInv'
    BY <1>2, <1>5, <2>1, <2>4, <2>5 DEF AgreeInv
  <2>7. StartInv'
    BY <1>5, <2>4 DEF StartInv
  <2>8. ReplyInv'
    BY <1>5, <2>5 DEF ReplyInv
  <2>9. RecentInv'
    BY <1>1, <1>7, RecentKept DEF Inv0
  <2>10. ASSUME ~GoesOn PROVE OwnInv'
    <3>1. OwnInv
      BY <2>10 DEF IInv
    <3>2. NoneUnderWay /\ message_ = <<>>
      BY <2>1, <3>1 DEF OwnInv
    <3>3. NoneUnderWay'
      BY <1>1, <1>2, <1>7, <3>2, OwnKept DEF Inv0
    <3> QED  BY <1>2, <2>1, <3>1, <3>2, <3>3 DEF OwnInv
  <2> QED  BY <1>9, <1>10, <1>12, <2>6, <2>7, <2>8, <2>9, <2>10 DEF IInv, Inv0
<1> QED  BY <1>13, <1>14

\* The answers to no request and to one.
LEMMA AnswersLemma ==
  ASSUME NEW id, NEW x
  PROVE  /\ [k \in DOMAIN <<>> |-> Packet(id, kNormal, <<>>[k])] = <<>>
         /\ [k \in DOMAIN <<x>> |-> Packet(id, kNormal, <<x>>[k])] = <<Packet(id, kNormal, x)>>
<1>1. [k \in DOMAIN <<>> |-> Packet(id, kNormal, <<>>[k])] = <<>>
  BY SMTT(30)
<1>2. [k \in DOMAIN <<x>> |-> Packet(id, kNormal, <<x>>[k])] = <<Packet(id, kNormal, x)>>
  <2> DEFINE v == [k \in DOMAIN <<x>> |-> Packet(id, kNormal, <<x>>[k])]
             q == Packet(id, kNormal, x)
             w == <<q>>
  <2>1. DOMAIN <<x>> = 1 .. 1 /\ <<x>>[1] = x
    BY SMTT(30)
  <2>2. DOMAIN v = 1 .. 1 /\ v[1] = q /\ v = [k \in 1 .. 1 |-> v[k]]
    BY SMTT(30), <2>1
  <2> HIDE DEF v, q
  <2>3. \A k \in 1 .. 1 : v[k] \in {q}
    BY SMTT(30), <2>2
  <2>4. v \in [1 .. 1 -> {q}]
    BY <2>2, <2>3
  <2>5. v \in Seq({q}) /\ Len(v) = 1
    <3>1. v \in Seq({q})
      BY <2>4, SeqDef
    <3>2. Len(v) \in Nat /\ DOMAIN v = 1 .. Len(v)
      BY <3>1, LenProperties
    <3> QED  BY SMTT(30), <2>2, <3>1, <3>2
  <2>6. w \in Seq({q}) /\ Len(w) = 1 /\ w[1] = q
    BY SMTT(30)
  <2> HIDE DEF w
  <2>7. v = w
    BY SMTT(30), <2>2, <2>5, <2>6, SeqEqual
  <2> QED  BY <2>7 DEF v, q, w
<1> QED  BY <1>1, <1>2

LEMMA WithOne ==
  ASSUME NEW S, NEW w \in Seq(S), NEW q \in S
  PROVE  /\ (w \o <<>>) \o <<>> = w
         /\ (w \o <<q>>) \o <<>> = Append(w, q)
         /\ (w \o <<>>) \o <<q>> = Append(w, q)
  BY SMTT(30)

\* What the device makes of a packet (MicroRPCServer::Loop): nothing, an answer, or a
\* session.
DeviceEffect(p) ==
  \/ /\ ~IsInit(p) /\ wire'["host"] = wire["host"]
     /\ sess'["device"].state_ = "kSessionEstablished" =>
          /\ sess["device"].state_ = "kSessionEstablished"
          /\ sess'["device"].session_id_ = sess["device"].session_id_
  \/ \E q \in HostMessages :
       /\ wire'["host"] = Append(wire["host"], q)
       /\ NormalForm(p) /\ NormalForm(q) /\ q.bytes[1] = p.bytes[1] /\ q.bytes[4] = p.bytes[4]
       /\ sess["device"].state_ = "kSessionEstablished"
       /\ sess'["device"].session_id_ = sess["device"].session_id_
  \/ \E q \in HostMessages :
       /\ wire'["host"] = Append(wire["host"], q)
       /\ InitForm(p) /\ ReplyForm(q) /\ q.bytes[1] = p.bytes[1]
       /\ sess'["device"].session_id_ = Id(q)

LEMMA DeviceReceiveEffect ==
  ASSUME Inv0, DeviceReceive, NEW p, p = Head(wire["device"])
  PROVE  /\ wire["device"] # <<>> /\ p = wire["device"][1]
         /\ wire'["device"] = Tail(wire["device"])
         /\ wire' = [host |-> wire'["host"], device |-> wire'["device"]]
         /\ sess' \in [Ends -> Sessions] /\ sess'["host"] = sess["host"]
         /\ sess'["device"].complete # {} \/ sess'["device"].receive_buffer_ = <<>>
         /\ sess'["device"].state_ \in {"kNoSessionEstablished", "kSessionEstablished"}
         /\ DeviceEffect(p)
<1> DEFINE d == sess["device"]
           wh == wire["host"]
           r == Receive(d, p)
           requests == Bodies(r.received, kNormal)
           answers == [k \in DOMAIN requests |-> Packet(r.s.session_id_, kNormal, requests[k])]
           s == IF requests = <<>> THEN r.s ELSE ClearReceiveBuffer(r.s)
<1>1. wire["device"] # <<>> /\ d.complete = {}
  BY DEF DeviceReceive
<1>2. sess' = [sess EXCEPT !["device"] = s]
  BY DEF DeviceReceive
<1>3. wire' = [device |-> Tail(wire["device"]), host |-> (wh \o r.out) \o answers]
  BY DEF DeviceReceive
<1>4. wire["device"] \in Seq(DeviceMessages) /\ wire["host"] \in Seq(HostMessages)
  BY DEF Inv0, RangeInv
<1>5. p = wire["device"][1] /\ p \in DeviceMessages
  BY SMTT(30), <1>1, <1>4
<1>6. p \in Messages /\ (InitForm(p) \/ NormalForm(p) \/ TermForm(p))
  BY <1>5 DEF DeviceMessages
<1>7. d \in Sessions /\ Free(d)
  BY <1>1 DEF Inv0, RangeInv, BufferInv, Ends, Free
<1>8. d.state_ \in {"kNoSessionEstablished", "kSessionEstablished"}
  BY DEF Inv0, PhaseInv
<1>9. wire'["device"] = Tail(wire["device"]) /\ wire'["host"] = (wh \o r.out) \o answers
  BY <1>3
<1>10. wire' = [host |-> wire'["host"], device |-> wire'["device"]]
  BY <1>3
<1> HIDE DEF d, r, s, requests
<1>11. ASSUME s \in Sessions
       PROVE  sess' \in [Ends -> Sessions] /\ sess'["host"] = sess["host"] /\ sess'["device"] = s
  BY <1>2, <1>11 DEF Inv0, RangeInv, Ends
<1>12. ASSUME requests = <<>> PROVE answers = <<>> /\ s = r.s
  BY SMTT(30), <1>12, AnswersLemma DEF s
<1>13. CASE TermForm(p)
  <2>1. /\ r.out = <<>> /\ r.received = <<>> /\ r.s \in Sessions /\ Free(r.s)
        /\ r.s.session_id_ = d.session_id_
        /\ r.s.state_ = IF d.state_ = "kSessionEstablished" THEN "kNoSessionEstablished"
                        ELSE d.state_
    BY SMTT(30), <1>6, <1>7, <1>13, ReceiveTerm DEF r
  <2>2. requests = <<>>
    BY <2>1, BodiesLemma DEF requests
  <2>3. wire'["host"] = wh
    BY SMTT(30), <1>4, <1>9, <1>12, <2>1, <2>2, WithOne
  <2>4. sess' \in [Ends -> Sessions] /\ sess'["host"] = sess["host"] /\ sess'["device"] = r.s
    BY <1>11, <1>12, <2>1, <2>2
  <2>5. r.s.state_ = "kNoSessionEstablished"
    BY SMTT(30), <1>8, <2>1
  <2>6. ~IsInit(p)
    BY <1>13, FormLemma DEF Plain
  <2>7. DeviceEffect(p)
    BY <2>3, <2>4, <2>5, <2>6 DEF DeviceEffect
  <2> QED  BY <1>1, <1>5, <1>9, <1>10, <2>1, <2>4, <2>5, <2>7 DEF Free
<1>14. CASE InitForm(p)
  <2> DEFINE n == RegenerateNonce(d.local_nonce_)
             q == Packet(<<p.bytes[1], n>>, kStartSessionReply, <<kVersion>>)
  <2>1. /\ r.received = <<>> /\ r.s \in Sessions /\ Free(r.s)
        /\ r.s.session_id_ = <<p.bytes[1], n>> /\ r.s.state_ = "kSessionEstablished"
        /\ r.out = <<q>> /\ n \in NonceBytes \ {0}
    <3>1. d.state_ # "kStartSessionSent"
      BY <1>8
    <3> QED  BY SMTT(30), <1>6, <1>7, <1>14, <3>1, ReceiveInit DEF r
  <2>2. p.bytes[1] \in Byte
    BY <1>6, <1>14, HeaderBytes DEF InitForm
  <2> HIDE DEF n
  <2>3. n \in Byte /\ n # 0 /\ kStartSessionReply \in Byte /\ kVersion \in Byte
    <3>1. n \in NonceBytes \ {0}
      BY <2>1
    <3> QED  BY SMTT(30), <3>1, Kinds DEF NonceBytes, Byte
  <2>4. /\ q \in Messages /\ Len(q.bytes) = 4 /\ IsType(q, kStartSessionReply)
        /\ q.bytes[1] = p.bytes[1] /\ q.bytes[2] = n /\ q.bytes[4] = kVersion
        /\ Id(q) = <<p.bytes[1], n>>
    <3> DEFINE a == p.bytes[1]
               k == kStartSessionReply
               x == kVersion
    <3>1. a \in Byte /\ n \in Byte /\ k \in Byte /\ x \in Byte
      BY <2>2, <2>3
    <3>2. q = Packet(<<a, n>>, k, <<x>>)
      OBVIOUS
    <3> HIDE DEF a, k, x, q
    <3>3. /\ q \in Messages /\ Len(q.bytes) = 4 /\ IsType(q, k) /\ q.bytes[1] = a
          /\ q.bytes[2] = n /\ q.bytes[4] = x /\ Id(q) = <<a, n>>
      BY SMTT(30), <3>1, <3>2, BytePacket
    <3> QED  BY <3>3 DEF a, k, x
  <2> HIDE DEF q
  <2>5. q \in HostMessages /\ ReplyForm(q)
    BY <2>3, <2>4 DEF HostMessages, ReplyForm, IsReply
  <2>6. requests = <<>>
    BY <2>1, BodiesLemma DEF requests
  <2>7. wire'["host"] = Append(wh, q)
    BY SMTT(30), <1>4, <1>9, <1>12, <2>1, <2>5, <2>6, WithOne
  <2>8. sess' \in [Ends -> Sessions] /\ sess'["host"] = sess["host"] /\ sess'["device"] = r.s
    BY <1>11, <1>12, <2>1, <2>6
  <2>9. DeviceEffect(p)
    BY <1>14, <2>1, <2>4, <2>5, <2>7, <2>8 DEF DeviceEffect
  <2> QED  BY ZenonT(60), <1>1, <1>5, <1>9, <1>10, <2>1, <2>8, <2>9 DEF Free
<1>15. CASE NormalForm(p)
  <2>1. /\ r.out = <<>> /\ Alike(d, r.s) /\ r.s.complete # {} /\ p.bytes[4] \in Byte
        /\ Accepts(d, Id(p)) => requests = <<<<p.bytes[4]>>>>
        /\ ~Accepts(d, Id(p)) => requests = <<>>
    BY <1>6, <1>7, <1>15, ReceiveNormal DEF r, requests
  <2>2. ~IsInit(p)
    BY <1>15, FormLemma
  <2>3. CASE ~Accepts(d, Id(p))
    <3>1. requests = <<>>
      BY <2>1, <2>3
    <3>2. wire'["host"] = wh
      BY SMTT(30), <1>4, <1>9, <1>12, <2>1, <3>1, WithOne
    <3>3. sess' \in [Ends -> Sessions] /\ sess'["host"] = sess["host"] /\ sess'["device"] = r.s
      BY <1>11, <1>12, <2>1, <3>1 DEF Alike
    <3>4. DeviceEffect(p)
      BY <2>1, <2>2, <3>2, <3>3 DEF DeviceEffect, Alike, d
    <3> QED  BY <1>1, <1>5, <1>8, <1>9, <1>10, <2>1, <3>3, <3>4 DEF Alike
  <2>4. CASE Accepts(d, Id(p))
    <3> DEFINE x == p.bytes[4]
               id == r.s.session_id_
               q == Packet(id, kNormal, <<x>>)
    <3>1. requests = <<<<x>>>> /\ requests # <<>>
      BY SMTT(30), <2>1, <2>4
    <3>2. d.state_ = "kSessionEstablished" /\ id = Id(p)
      BY <2>1, <2>4 DEF Accepts, Alike
    <3>3. answers = <<q>>
      BY SMTT(30), <3>1, AnswersLemma
    <3>4. s = ClearReceiveBuffer(r.s)
      BY <3>1 DEF s
    <3>5. Alike(d, s) /\ Free(s)
      <4>1. {} \in SUBSET Byte /\ <<>> \in Seq(Byte)
        BY SMTT(30)
      <4> QED  BY <2>1, <3>4, <4>1 DEF ClearReceiveBuffer, Alike, Free, Sessions
    <3>6. sess' \in [Ends -> Sessions] /\ sess'["host"] = sess["host"] /\ sess'["device"] = s
      BY <1>11, <3>5 DEF Alike
    <3>7. /\ q \in Messages /\ Len(q.bytes) = 4 /\ IsType(q, kNormal)
          /\ q.bytes[1] = p.bytes[1] /\ q.bytes[4] = x
      <4> DEFINE a == p.bytes[1]
                 b == p.bytes[2]
                 k == kNormal
      <4>1. a \in Byte /\ b \in Byte
        BY <1>6, <1>15, HeaderBytes DEF NormalForm
      <4>2. id = <<a, b>>
        BY <3>2 DEF Id
      <4>3. k \in Byte
        BY Kinds DEF Byte
      <4>4. x \in Byte
        BY <2>1
      <4>5. q = Packet(<<a, b>>, k, <<x>>)
        BY <4>2
      <4> HIDE DEF a, b, k, x, id, q
      <4>6. /\ q \in Messages /\ Len(q.bytes) = 4 /\ IsType(q, k)
            /\ q.bytes[1] = a /\ q.bytes[4] = x
        BY SMTT(30), <4>1, <4>3, <4>4, <4>5, BytePacket
      <4> QED  BY <4>6 DEF a, k
    <3> HIDE DEF q, x, id
    <3>8. q \in HostMessages /\ NormalForm(q)
      BY <3>7 DEF HostMessages, NormalForm, IsNormal
    <3>9. wire'["host"] = Append(wh, q)
      BY SMTT(30), <1>4, <1>9, <2>1, <3>3, <3>8, WithOne
    <3>10. DeviceEffect(p)
      <4>1. /\ d.state_ = "kSessionEstablished"
            /\ sess'["device"].session_id_ = d.session_id_
        BY <3>2, <3>5, <3>6 DEF Alike
      <4> QED  BY <1>15, <3>7, <3>8, <3>9, <4>1 DEF DeviceEffect, d, x
    <3> QED  BY <1>1, <1>5, <1>8, <1>9, <1>10, <3>5, <3>6, <3>10 DEF Alike, Free
  <2> QED  BY <2>3, <2>4
<1> QED  BY <1>6, <1>13, <1>14, <1>15

\* An own packet that comes with the step is the answer to one that the step takes.
LEMMA OwnTail ==
  ASSUME RangeInv, NEW q \in HostMessages, wire["device"] # <<>>,
         wire'["host"] = Append(wire["host"], q), wire'["device"] = Tail(wire["device"]),
         Mine' = Mine, asked' = asked,
         Own(q) => Own(wire["device"][1]) /\ q.bytes[4] = wire["device"][1].bytes[4]
  PROVE  (NoneUnderWay => NoneUnderWay') /\ (OwnOnce => OwnOnce')
<1> DEFINE wd == wire["device"]
           wh == wire["host"]
           vd == wire'["device"]
           vh == wire'["host"]
<1>1. wd \in Seq(DeviceMessages) /\ wh \in Seq(HostMessages) /\ wd # <<>>
  BY DEF RangeInv
<1>2. vh = Append(wh, q) /\ vd = Tail(wd)
  OBVIOUS
<1>3. Own(q) => Own(wd[1]) /\ q.bytes[4] = wd[1].bytes[4]
  OBVIOUS
<1> HIDE DEF wd, wh, vd, vh
<1>4. Len(wd) \in Nat /\ Len(wh) \in Nat /\ 1 \in 1 .. Len(wd)
  BY SMTT(30), <1>1
<1>5. \A i \in 1 .. Len(vd) : i + 1 \in 1 .. Len(wd) /\ vd[i] = wd[i + 1]
  BY SMTT(30), <1>1, <1>2
<1>6. /\ Len(vh) = Len(wh) + 1
      /\ \A i \in 1 .. Len(vh) :
           (i \in 1 .. Len(wh) /\ vh[i] = wh[i]) \/ (i = Len(vh) /\ vh[i] = q)
  BY SMTT(30), <1>1, <1>2, Sent
<1>7. ASSUME NoneUnderWay
      PROVE  NoneUnderWay'
  <2>1. /\ \A i \in 1 .. Len(wd) : ~Own(wd[i])
        /\ \A i \in 1 .. Len(wh) : ~Own(wh[i])
    BY <1>7 DEF NoneUnderWay, Ends, wd, wh
  <2>2. \A i \in 1 .. Len(vd) : ~Own(vd[i])
    BY <1>5, <2>1
  <2>3. \A i \in 1 .. Len(vh) : ~Own(vh[i])
    BY <1>3, <1>4, <1>6, <2>1
  <2>4. \A e \in Ends : \A i \in 1 .. Len(wire'[e]) : ~Own(wire'[e][i])
    BY <2>2, <2>3 DEF Ends, vd, vh
  <2> QED  BY <2>4 DEF NoneUnderWay, Own
<1>8. ASSUME OwnOnce
      PROVE  OwnOnce'
  <2>1. \A i \in 1 .. Len(wd) : Own(wd[i]) =>
          /\ wd[i].bytes[4] = asked
          /\ \A j \in 1 .. Len(wd) : Own(wd[j]) => i = j
          /\ \A j \in 1 .. Len(wh) : ~Own(wh[j])
    BY <1>8 DEF OwnOnce, Ends, wd, wh
  <2>2. \A i \in 1 .. Len(wh) : Own(wh[i]) =>
          /\ wh[i].bytes[4] = asked
          /\ \A j \in 1 .. Len(wh) : Own(wh[j]) => i = j
          /\ \A j \in 1 .. Len(wd) : ~Own(wd[j])
    BY <1>8 DEF OwnOnce, Ends, wd, wh
  <2>3. ASSUME NEW i \in 1 .. Len(vd), Own(vd[i])
        PROVE  /\ vd[i].bytes[4] = asked
               /\ \A j \in 1 .. Len(vd) : Own(vd[j]) => i = j
               /\ \A j \in 1 .. Len(vh) : ~Own(vh[j])
    <3>1. i + 1 \in 1 .. Len(wd) /\ vd[i] = wd[i + 1] /\ Own(wd[i + 1])
      BY <1>5, <2>3
    <3>2. ASSUME NEW j \in 1 .. Len(vd), Own(vd[j]) PROVE i = j
      <4>1. j + 1 \in 1 .. Len(wd) /\ Own(wd[j + 1])
        BY <1>5, <3>2
      <4>2. i + 1 = j + 1
        BY <2>1, <3>1, <4>1
      <4> QED  BY SMTT(30), <4>2
    <3>3. ASSUME NEW j \in 1 .. Len(vh), Own(vh[j]) PROVE FALSE
      <4>1. CASE j \in 1 .. Len(wh) /\ vh[j] = wh[j]
        BY <2>1, <3>1, <3>3, <4>1
      <4>2. CASE vh[j] = q
        <5>1. i + 1 = 1
          BY <1>3, <1>4, <2>1, <3>1, <3>3, <4>2
        <5> QED  BY SMTT(30), <5>1
      <4> QED  BY <1>6, <4>1, <4>2
    <3> QED  BY <2>1, <3>1, <3>2, <3>3
  <2>4. ASSUME NEW i \in 1 .. Len(vh), Own(vh[i])
        PROVE  vh[i].bytes[4] = asked /\ \A j \in 1 .. Len(vh) : Own(vh[j]) => i = j
    <3>1. CASE i \in 1 .. Len(wh) /\ vh[i] = wh[i]
      BY <1>3, <1>4, <1>6, <2>2, <2>4, <3>1
    <3>2. CASE i = Len(vh) /\ vh[i] = q
      BY <1>3, <1>4, <1>6, <2>1, <2>4, <3>2
    <3> QED  BY <1>6, <3>1, <3>2
  <2>5. ASSUME NEW i \in 1 .. Len(vh), Own(vh[i]), NEW j \in 1 .. Len(vd), Own(vd[j])
        PROVE  FALSE
    BY <2>3, <2>5
  <2>6. \A e \in Ends : \A i \in 1 .. Len(wire'[e]) : Own(wire'[e][i]) =>
          /\ wire'[e][i].bytes[4] = asked
          /\ \A f \in Ends : \A j \in 1 .. Len(wire'[f]) : Own(wire'[f][j]) => e = f /\ i = j
    BY <2>3, <2>4, <2>5 DEF Ends, vd, vh
  <2> QED  BY SMTT(30), <2>6 DEF OwnOnce, Own
<1> QED  BY <1>7, <1>8

LEMMA DeviceReceiveStep ==
  ASSUME IInv, DeviceReceive
  PROVE  IInv'
<1> DEFINE p == Head(wire["device"])
           wd == wire["device"]
           wh == wire["host"]
           vd == Tail(wd)
<1>1. Inv0
  BY DEF IInv
<1>2. /\ wire["device"] # <<>> /\ p = wire["device"][1]
      /\ wire'["device"] = Tail(wire["device"])
      /\ wire' = [host |-> wire'["host"], device |-> wire'["device"]]
      /\ sess' \in [Ends -> Sessions] /\ sess'["host"] = sess["host"]
      /\ sess'["device"].complete # {} \/ sess'["device"].receive_buffer_ = <<>>
      /\ sess'["device"].state_ \in {"kNoSessionEstablished", "kSessionEstablished"}
      /\ DeviceEffect(p)
  BY <1>1, DeviceReceiveEffect
<1>3. /\ channel' = channel /\ message_' = message_ /\ asked' = asked /\ got' = got
      /\ drawn' = drawn /\ early' = early
  BY DEF DeviceReceive
<1> HIDE DEF p
<1>4. wd \in Seq(DeviceMessages) /\ wh \in Seq(HostMessages) /\ wd # <<>>
  BY <1>1, <1>2 DEF Inv0, RangeInv
<1>5. p = wd[1] /\ wire'["device"] = vd
  BY <1>2
<1>6. Mine' = Mine /\ Recent' = Recent
  BY <1>3, MineKept
<1>7. \A i \in 1 .. Len(wd) : IsInit(wd[i]) \/ IsNormal(wd[i]) => wd[i].bytes[1] \in Recent
  BY <1>1 DEF Inv0, RecentInv
<1>8. \A i \in 1 .. Len(wh) : IsReply(wh[i]) \/ IsNormal(wh[i]) => wh[i].bytes[1] \in Recent
  BY <1>1 DEF Inv0, RecentInv
<1>9. vd \in Seq(DeviceMessages) /\ Kept(wd, vd, 1) /\ Kept(wh, wh, 0)
  BY <1>4, KeptTail, KeptSame
<1>10. StartInv'
  <2>1. \E k \in Nat : Kept(wire["device"], wire'["device"], k)
    BY <1>5, <1>9
  <2> QED  BY <1>1, <1>3, <1>6, <2>1, StartKept DEF Inv0
<1>11. BufferInv'
  BY <1>1, <1>2 DEF Inv0, BufferInv, Ends
<1>12. PhaseInv'
  BY <1>1, <1>2, <1>3, <1>6 DEF Inv0, PhaseInv
<1>13. ASSUME wire'["host"] \in Seq(HostMessages) PROVE RangeInv'
  <2>1. wire' \in [host : Seq(HostMessages), device : Seq(DeviceMessages)]
    BY <1>2, <1>5, <1>9, <1>13
  <2> QED  BY <1>1, <1>2, <1>3, <2>1 DEF Inv0, RangeInv
\* The packet is taken and nothing is sent.
<1>14. CASE /\ ~IsInit(p) /\ wire'["host"] = wire["host"]
            /\ sess'["device"].state_ = "kSessionEstablished" =>
                 /\ sess["device"].state_ = "kSessionEstablished"
                 /\ sess'["device"].session_id_ = sess["device"].session_id_
  <2>1. KeptStep
    <3>1. /\ \E k \in Nat : Kept(wire["device"], wire'["device"], k)
          /\ \E k \in Nat : Kept(wire["host"], wire'["host"], k)
      BY <1>5, <1>9, <1>14
    <3> QED  BY <1>2, <1>3, <1>14, <3>1 DEF KeptStep, WiresKept
  <2>2. Inv0'
    BY <1>1, <1>4, <1>11, <1>12, <1>13, <1>14, <2>1, KeptAll
  <2>3. ~GoesOn => OwnInv'
    BY <1>1, <1>3, <2>1, OwnAll DEF IInv, Inv0
  <2> QED  BY <2>2, <2>3 DEF IInv
\* A packet is sent: the answer to a request, or the reply to a start.
<1>15. ASSUME NEW q \in HostMessages, wire'["host"] = Append(wire["host"], q),
              q.bytes[1] = p.bytes[1],
              \/ /\ NormalForm(p) /\ NormalForm(q) /\ q.bytes[4] = p.bytes[4]
                 /\ sess["device"].state_ = "kSessionEstablished"
                 /\ sess'["device"].session_id_ = sess["device"].session_id_
              \/ InitForm(p) /\ ReplyForm(q) /\ sess'["device"].session_id_ = Id(q)
       PROVE  IInv'
  <2> DEFINE vh == wire'["host"]
  <2>1. vh = Append(wh, q)
    BY <1>15
  <2> HIDE DEF wd, wh, vd, vh
  <2>2. /\ vh \in Seq(HostMessages) /\ Len(vh) = Len(wh) + 1 /\ Len(wh) \in Nat
        /\ \A i \in 1 .. Len(vh) :
             (i \in 1 .. Len(wh) /\ vh[i] = wh[i]) \/ (i = Len(vh) /\ vh[i] = q)
        /\ \A i \in 1 .. Len(wh) : vh[i] = wh[i]
    BY SMTT(30), <1>4, <2>1, Sent
  <2>3. \A i \in 1 .. Len(vd) : i + 1 \in 2 .. Len(wd) /\ vd[i] = wd[i + 1]
    BY SMTT(30), <1>4 DEF vd
  <2>4. 1 \in 1 .. Len(wd) /\ Len(wd) \in Nat
    BY SMTT(30), <1>4
  <2>5. (IsNormal(p) /\ IsNormal(q) /\ ~IsReply(q)) \/ (IsInit(p) /\ IsReply(q) /\ ~IsNormal(q))
    BY <1>15, FormLemma
  <2>6. RangeInv'
    BY <1>13, <2>2 DEF vh
  <2>7. RecentInv'
    <3>1. \A i \in 1 .. Len(vd) : IsInit(vd[i]) \/ IsNormal(vd[i]) => vd[i].bytes[1] \in Recent
      BY SMTT(30), <1>7, <2>3
    <3>2. q.bytes[1] \in Recent
      BY <1>5, <1>7, <1>15, <2>4, <2>5
    <3>3. \A i \in 1 .. Len(vh) : IsReply(vh[i]) \/ IsNormal(vh[i]) => vh[i].bytes[1] \in Recent
      BY <1>8, <2>2, <3>2
    <3> QED  BY <1>5, <1>6, <3>1, <3>3 DEF RecentInv, vh
  <2>8. ReplyInv'
    <3> SUFFICES ASSUME channel' # "closed", NEW i \in 1 .. Len(vh), IsReply(vh[i]),
                        vh[i].bytes[1] = Mine
                 PROVE  /\ \A j \in 1 .. Len(vd) : ~IsInit(vd[j])
                        /\ \A j \in i + 1 .. Len(vh) : ~IsReply(vh[j])
                        /\ sess'["device"].state_ = "kSessionEstablished" =>
                             sess'["device"].session_id_ = Id(vh[i])
      BY <1>5, <1>6 DEF ReplyInv, vh
    <3>1. CASE i \in 1 .. Len(wh) /\ vh[i] = wh[i]
      <4>1. /\ \A j \in 1 .. Len(wd) : ~IsInit(wd[j])
            /\ \A j \in i + 1 .. Len(wh) : ~IsReply(wh[j])
            /\ sess["device"].state_ = "kSessionEstablished" =>
                 sess["device"].session_id_ = Id(wh[i])
        BY <1>1, <1>3, <3>1 DEF Inv0, ReplyInv, wd, wh
      <4>2. ~IsInit(p)
        BY <1>5, <2>4, <4>1
      <4>3. /\ ~IsReply(q) /\ sess["device"].state_ = "kSessionEstablished"
            /\ sess'["device"].session_id_ = sess["device"].session_id_
        BY <1>15, <4>2, FormLemma
      <4>4. \A j \in 1 .. Len(vd) : ~IsInit(vd[j])
        BY SMTT(30), <2>3, <4>1
      <4>5. \A j \in i + 1 .. Len(vh) : ~IsReply(vh[j])
        BY SMTT(30), <2>2, <4>1, <4>3
      <4> QED  BY <3>1, <4>1, <4>3, <4>4, <4>5
    <3>2. CASE i = Len(vh) /\ vh[i] = q
      <4>1. IsInit(p) /\ p.bytes[1] = Mine /\ sess'["device"].session_id_ = Id(q)
        BY <1>15, <2>5, <3>2, FormLemma
      <4>2. \A j \in 1 + 1 .. Len(wd) : ~IsInit(wd[j])
        BY <1>1, <1>3, <1>5, <2>4, <4>1 DEF Inv0, StartInv, wd
      <4>3. \A j \in 1 .. Len(vd) : ~IsInit(vd[j])
        BY SMTT(30), <2>3, <4>2
      <4>4. i + 1 .. Len(vh) = {}
        BY SMTT(30), <2>2, <3>2
      <4> QED  BY <3>2, <4>1, <4>3, <4>4
    <3> QED  BY <2>2, <3>1, <3>2
  <2>9. AgreeInv'
    <3> SUFFICES ASSUME channel' \in {"open", "waiting"}
                 PROVE  /\ \A j \in 1 .. Len(vd) : ~IsInit(vd[j])
                        /\ \A j \in 1 .. Len(vh) : ~IsReply(vh[j])
                        /\ sess'["device"].state_ = "kSessionEstablished" =>
                             sess'["device"].session_id_ = sess'["host"].session_id_
      BY <1>5 DEF AgreeInv, vh
    <3>1. /\ \A j \in 1 .. Len(wd) : ~IsInit(wd[j])
          /\ \A j \in 1 .. Len(wh) : ~IsReply(wh[j])
          /\ sess["device"].state_ = "kSessionEstablished" =>
               sess["device"].session_id_ = sess["host"].session_id_
      BY <1>1, <1>3 DEF Inv0, AgreeInv, wd, wh
    <3>2. ~IsInit(p)
      BY <1>5, <2>4, <3>1
    <3>3. /\ ~IsReply(q) /\ sess["device"].state_ = "kSessionEstablished"
          /\ sess'["device"].session_id_ = sess["device"].session_id_
      BY <1>15, <3>2, FormLemma
    <3>4. \A j \in 1 .. Len(vd) : ~IsInit(vd[j])
      BY SMTT(30), <2>3, <3>1
    <3>5. \A j \in 1 .. Len(vh) : ~IsReply(vh[j])
      BY <2>2, <3>1, <3>3
    <3> QED  BY <1>2, <3>1, <3>3, <3>4, <3>5
  <2>10. ASSUME ~GoesOn PROVE OwnInv'
    <3>1. OwnInv
      BY <2>10 DEF IInv
    <3>2. Own(q) => Own(p) /\ q.bytes[4] = p.bytes[4]
      BY <1>15, <2>5, FormLemma DEF Own
    <3>3. (NoneUnderWay => NoneUnderWay') /\ (OwnOnce => OwnOnce')
      BY <1>1, <1>2, <1>3, <1>6, <1>15, <3>2, OwnTail DEF Inv0
    <3> QED  BY <1>3, <3>1, <3>3 DEF OwnInv
  <2> QED  BY <1>10, <1>11, <1>12, <2>6, <2>7, <2>8, <2>9, <2>10 DEF IInv, Inv0
<1> QED  BY <1>2, <1>14, <1>15 DEF DeviceEffect
-----------------------------------------------------------------------------
(* A new start *)

\* The nonce of a start is none of those whose packets may still be under way, which are
\* remembered for as long.
LEMMA FreshNonce ==
  ASSUME RangeInv, NoncesDiffer, drawn'["host"] = (drawn["host"] % Len(HostNonces)) + 1
  PROVE  /\ drawn'["host"] \in 1 .. Len(HostNonces)
         /\ early > 0 /\ early' = early - 1 =>
              /\ \A x \in Recent : x \in Recent' /\ x # Mine'
              /\ early' \in 0 .. MaxEarly
<1> DEFINE N == Len(HostNonces)
           d == drawn["host"]
           c == drawn'["host"]
           M == MaxEarly - early
<1>1. N \in Nat \ {0} /\ MaxEarly \in Nat /\ N > MaxEarly
  BY ConstantsLemma
<1>2. d \in Nat /\ d <= N /\ early \in 0 .. MaxEarly
  BY DEF RangeInv, Ends
<1>3. c = (d % N) + 1
  OBVIOUS
<1>4. Recent = {RegenerateNonce(HostNonces[Back(d, a)]) : a \in 0 .. M}
  BY DEF Recent
<1>5. Mine' = RegenerateNonce(HostNonces[c])
  BY DEF Mine
<1>6. Recent' = {RegenerateNonce(HostNonces[Back(c, a)]) : a \in 0 .. MaxEarly - early'}
  BY DEF Recent
<1>7. \A k, a : Back(k, a) = IF a < k THEN k - a ELSE (k - a) + N
  BY DEF Back
<1> HIDE DEF N, d, c
<1>8. c \in 1 .. N /\ (d < N => c = d + 1) /\ (d = N => c = 1)
  <2>1. CASE d < N
    <3>1. d % N = d
      BY SMTT(30), <1>1, <1>2, <2>1
    <3> QED  BY SMTT(30), <1>1, <1>2, <1>3, <2>1, <3>1
  <2>2. CASE d = N
    <3>1. d % N = 0
      BY SMTT(30), <1>1, <1>2, <2>2
    <3> QED  BY SMTT(30), <1>1, <1>2, <1>3, <2>2, <3>1
  <2> QED  BY SMTT(30), <1>1, <1>2, <2>1, <2>2
<1>9. ASSUME early > 0, early' = early - 1
      PROVE  /\ \A x \in Recent : x \in Recent' /\ x # Mine'
             /\ early' \in 0 .. MaxEarly
  <2>1. M \in Nat /\ M + 1 < N /\ MaxEarly - early' = M + 1 /\ early' \in 0 .. MaxEarly
    BY SMTT(30), <1>1, <1>2, <1>9
  <2> HIDE DEF M
  <2>2. ASSUME NEW a \in 0 .. M
        PROVE  Back(d, a) \in 1 .. N /\ Back(d, a) # c /\ Back(c, a + 1) = Back(d, a)
    <3>1. a \in Nat /\ a + 1 < N
      BY SMTT(30), <1>1, <2>1, <2>2
    <3>2. CASE d < N
      BY SMTT(30), <1>1, <1>2, <1>7, <1>8, <3>1, <3>2
    <3>3. CASE d = N
      BY SMTT(30), <1>1, <1>2, <1>7, <1>8, <3>1, <3>3
    <3> QED  BY SMTT(30), <1>1, <1>2, <3>2, <3>3
  <2>3. ASSUME NEW x \in Recent PROVE x \in Recent' /\ x # Mine'
    <3>1. PICK a \in 0 .. M : x = RegenerateNonce(HostNonces[Back(d, a)])
      BY <1>4, <2>3
    <3>2. a + 1 \in 0 .. MaxEarly - early'
      BY SMTT(30), <2>1
    <3>3. x = RegenerateNonce(HostNonces[Back(c, a + 1)])
      BY <2>2, <3>1
    <3>4. x \in Recent'
      BY <1>6, <3>2, <3>3
    <3>5. x # Mine'
      <4> DEFINE b == Back(d, a)
      <4>1. b \in 1 .. N /\ b # c
        BY <2>2
      <4> HIDE DEF b
      <4>2. RegenerateNonce(HostNonces[b]) # RegenerateNonce(HostNonces[c])
        BY <1>8, <4>1 DEF NoncesDiffer, N
      <4> QED  BY <1>5, <3>1, <4>2 DEF b
    <3> QED  BY <3>4, <3>5
  <2> QED  BY <2>1, <2>3
<1> QED  BY <1>8, <1>9 DEF N, c

LEMMA StartStep ==
  ASSUME IInv, NoncesDiffer, NEW s \in Sessions, s.complete # {} \/ s.receive_buffer_ = <<>>,
         NEW heard \in Seq(HostMessages), \E k \in Nat : Kept(wire["host"], heard, k),
         Start(s, heard), channel' = "starting", asked' = asked
  PROVE  Inv0' /\ NoneUnderWay'
<1> DEFINE n == HostNonces[Drawn("host")]
           m == RegenerateNonce(n)
           r == Started(s, n)
           t == Packet(<<0, 0>>, kTerminateSession, <<>>)
           q == Packet(<<m, 0>>, kStartSessionInit, <<kVersion>>)
           wd == wire["device"]
           wh == wire["host"]
           vd == Append(Append(wd, t), q)
           quiet == \A e \in Ends : wire[e] = <<>>
<1>1. RangeInv /\ BufferInv /\ RecentInv /\ PhaseInv
  BY DEF IInv, Inv0
<1>2. /\ quiet \/ early > 0
      /\ early' = IF quiet THEN early ELSE early - 1
      /\ sess' = [sess EXCEPT !["host"] = r.s]
      /\ wire' = [host |-> heard, device |-> wire["device"] \o r.out]
      /\ drawn' = [drawn EXCEPT !["host"] = Drawn("host")]
  BY DEF Start
<1>3. drawn'["host"] = Drawn("host") /\ drawn'["device"] = drawn["device"]
  BY <1>1, <1>2 DEF RangeInv, Ends
<1>4. drawn'["host"] = (drawn["host"] % Len(HostNonces)) + 1
  BY <1>3 DEF Drawn, Nonces
<1>5. drawn'["host"] \in 1 .. Len(HostNonces)
  BY <1>1, <1>4, FreshNonce
<1>6. n \in NonceBytes /\ Mine' = m
  BY <1>3, <1>5, ConstantsLemma DEF Mine
<1> HIDE DEF n
<1>7. /\ r.s \in Sessions /\ r.s.state_ = "kStartSessionSent" /\ r.s.local_nonce_ = m
      /\ r.s.complete = s.complete /\ r.s.receive_buffer_ = s.receive_buffer_
      /\ r.out = <<t, q>> /\ m \in NonceBytes \ {0}
  BY <1>6, StartedLemma
<1> HIDE DEF m, r
<1>8. q \in DeviceMessages /\ InitForm(q) /\ q.bytes[1] = Mine'
  <2> DEFINE k == kStartSessionInit
             x == kVersion
             b == 0
  <2>1. m \in Byte /\ m # 0
    <3>1. m \in NonceBytes \ {0}
      BY <1>7
    <3> QED  BY SMTT(30), <3>1 DEF NonceBytes, Byte
  <2>2. k \in Byte /\ x \in Byte /\ b \in Byte
    BY Kinds DEF Byte
  <2>3. q = Packet(<<m, b>>, k, <<x>>)
    OBVIOUS
  <2> HIDE DEF k, x, b, q
  <2>4. /\ q \in Messages /\ Len(q.bytes) = 4 /\ IsType(q, k) /\ q.bytes[1] = m
        /\ q.bytes[4] = x
    BY SMTT(30), <2>1, <2>2, <2>3, BytePacket
  <2> QED  BY <1>6, <2>1, <2>4 DEF DeviceMessages, InitForm, IsInit, k, x
<1>9. t \in DeviceMessages /\ Plain(t)
  BY PlainPackets
<1> HIDE DEF t, q
<1>10. IsInit(q) /\ ~IsNormal(q)
  BY <1>8, FormLemma
<1>11. wd \in Seq(DeviceMessages) /\ wh \in Seq(HostMessages)
  BY <1>1 DEF RangeInv
<1>12. wd \o r.out = vd
  BY SMTT(30), <1>7, <1>8, <1>9, <1>11, AppendTwo
<1>13. wire'["host"] = heard /\ wire'["device"] = vd /\ wire' = [host |-> heard, device |-> vd]
  BY <1>2, <1>12
<1>14. PICK kh \in Nat : Kept(wh, heard, kh)
  OBVIOUS
<1>15. quiet => wd = <<>> /\ wh = <<>>
  BY DEF Ends
<1>16. early' \in 0 .. MaxEarly /\ Mine' \in Recent'
  <2>1. early' \in 0 .. MaxEarly
    BY <1>1, <1>2, <1>4, FreshNonce DEF RangeInv
  <2>2. drawn'["host"] \in Nat /\ drawn'["host"] > 0
    BY SMTT(30), <1>5, ConstantsLemma
  <2>3. 0 \in 0 .. MaxEarly - early' /\ Back(drawn'["host"], 0) = drawn'["host"]
    <3>1. \A top \in Nat : \A low \in 0 .. top : 0 \in 0 .. top - low
      BY SMTT(30)
    <3>2. \A d \in Nat : d > 0 => Back(d, 0) = d
      BY SMTT(30) DEF Back
    <3>3. MaxEarly \in Nat
      BY ConstantsLemma
    <3> QED  BY <2>1, <2>2, <3>1, <3>2, <3>3
  <2>4. Mine' = RegenerateNonce(HostNonces[drawn'["host"]])
    BY DEF Mine
  <2>5. Recent' = {RegenerateNonce(HostNonces[Back(drawn'["host"], a)]) :
                     a \in 0 .. MaxEarly - early'}
    BY DEF Recent
  <2> QED  BY <2>1, <2>3, <2>4, <2>5
<1>17. ~quiet => \A x \in Recent : x \in Recent' /\ x # Mine'
  BY <1>1, <1>2, <1>4, FreshNonce
<1>18. \A i \in 1 .. Len(wd) : IsInit(wd[i]) \/ IsNormal(wd[i]) =>
         wd[i].bytes[1] \in Recent
  BY <1>1 DEF RecentInv
<1>19. \A i \in 1 .. Len(wh) : IsReply(wh[i]) \/ IsNormal(wh[i]) =>
         wh[i].bytes[1] \in Recent
  BY <1>1 DEF RecentInv
<1>20. sess'["host"] = r.s /\ sess'["device"] = sess["device"] /\ sess' \in [Ends -> Sessions]
  BY <1>1, <1>2, <1>7 DEF RangeInv, Ends
<1>21. drawn' \in [Ends -> Nat]
  BY SMTT(30), <1>1, <1>2, <1>3, <1>5, ConstantsLemma DEF RangeInv, Ends
<1> HIDE DEF wd, wh, quiet
<1>22. /\ vd \in Seq(DeviceMessages) /\ Len(vd) = Len(wd) + 2 /\ Len(wd) \in Nat
       /\ \A i \in 1 .. Len(vd) : \/ i \in 1 .. Len(wd) /\ vd[i] = wd[i]
                                  \/ vd[i] = t
                                  \/ i = Len(vd) /\ vd[i] = q
       /\ vd[Len(vd)] = q
  <2> DEFINE u == Append(wd, t)
  <2>1. /\ u \in Seq(DeviceMessages) /\ Len(u) = Len(wd) + 1 /\ Len(wd) \in Nat
        /\ \A i \in 1 .. Len(u) : (i \in 1 .. Len(wd) /\ u[i] = wd[i]) \/ (i = Len(u) /\ u[i] = t)
    BY SMTT(30), <1>9, <1>11, Sent
  <2>2. vd = Append(u, q)
    OBVIOUS
  <2> HIDE DEF u, vd
  <2>3. /\ vd \in Seq(DeviceMessages) /\ Len(vd) = Len(u) + 1
        /\ \A i \in 1 .. Len(vd) : (i \in 1 .. Len(u) /\ vd[i] = u[i]) \/ (i = Len(vd) /\ vd[i] = q)
    BY SMTT(30), <1>8, <2>1, <2>2, Sent
  <2> QED  BY SMTT(30), <2>1, <2>3
<1> HIDE DEF vd
<1>23. \A i \in 1 .. Len(wd) : IsInit(wd[i]) \/ IsNormal(wd[i]) =>
         wd[i].bytes[1] \in Recent' /\ wd[i].bytes[1] # Mine'
  <2>1. CASE quiet
    <3>1. Len(wd) = 0
      BY SMTT(30), <1>15, <2>1
    <3> QED  BY SMTT(30), <3>1
  <2>2. CASE ~quiet
    BY <1>17, <1>18, <2>2
  <2> QED  BY <2>1, <2>2
<1>24. \A i \in 1 .. Len(heard) : IsReply(heard[i]) \/ IsNormal(heard[i]) =>
         heard[i].bytes[1] \in Recent' /\ heard[i].bytes[1] # Mine'
  <2> SUFFICES ASSUME NEW i \in 1 .. Len(heard), IsReply(heard[i]) \/ IsNormal(heard[i])
               PROVE  heard[i].bytes[1] \in Recent' /\ heard[i].bytes[1] # Mine'
    OBVIOUS
  <2>1. i + kh <= Len(wh) /\ heard[i] = wh[i + kh]
    BY <1>14 DEF Kept, Plain
  <2>2. i + kh \in 1 .. Len(wh)
    BY SMTT(30), <1>11, <1>14, <2>1
  <2>3. CASE quiet
    <3>1. Len(wh) = 0
      BY SMTT(30), <1>15, <2>3
    <3> QED  BY SMTT(30), <2>2, <3>1
  <2>4. CASE ~quiet
    BY <1>17, <1>19, <2>1, <2>2, <2>4
  <2> QED  BY <2>3, <2>4
<1>25. RangeInv'
  <2>1. wire' \in [host : Seq(HostMessages), device : Seq(DeviceMessages)]
    BY <1>13, <1>22
  <2>2. drawn'["host"] <= Len(HostNonces)
    BY SMTT(30), <1>5, ConstantsLemma
  <2> QED  BY <1>1, <1>3, <1>16, <1>20, <1>21, <2>1, <2>2 DEF RangeInv
<1>26. BufferInv'
  BY <1>1, <1>7, <1>20 DEF BufferInv, Ends
<1>27. RecentInv'
  <2>1. \A i \in 1 .. Len(vd) : IsInit(vd[i]) \/ IsNormal(vd[i]) => vd[i].bytes[1] \in Recent'
    BY <1>8, <1>9, <1>16, <1>22, <1>23 DEF Plain
  <2> QED  BY <1>13, <1>24, <2>1 DEF RecentInv
<1>28. PhaseInv'
  <2>1. drawn'["host"] > 0
    BY SMTT(30), <1>5, ConstantsLemma
  <2> QED  BY <1>1, <1>6, <1>7, <1>20, <2>1 DEF PhaseInv
<1>29. StartInv'
  <2> SUFFICES ASSUME NEW i \in 1 .. Len(vd), IsInit(vd[i])
               PROVE  /\ \E j \in i .. Len(vd) : IsInit(vd[j]) /\ vd[j].bytes[1] = Mine'
                      /\ vd[i].bytes[1] = Mine' => \A j \in i + 1 .. Len(vd) : ~IsInit(vd[j])
    BY <1>13 DEF StartInv
  <2>1. Len(vd) \in i .. Len(vd) /\ IsInit(vd[Len(vd)]) /\ vd[Len(vd)].bytes[1] = Mine'
    BY SMTT(30), <1>8, <1>10, <1>22
  <2>2. ASSUME vd[i].bytes[1] = Mine' PROVE i = Len(vd)
    BY ZenonT(60), <1>9, <1>22, <1>23, <2>2 DEF Plain
  <2>3. i = Len(vd) => i + 1 .. Len(vd) = {}
    BY SMTT(30), <1>22
  <2> QED  BY <2>1, <2>2, <2>3
<1>30. ReplyInv' /\ AgreeInv'
  BY <1>13, <1>24 DEF ReplyInv, AgreeInv
<1>31. NoneUnderWay'
  <2>1. \A i \in 1 .. Len(vd) : ~(IsNormal(vd[i]) /\ vd[i].bytes[1] = Mine')
    BY <1>9, <1>10, <1>22, <1>23 DEF Plain
  <2>2. \A i \in 1 .. Len(heard) : ~(IsNormal(heard[i]) /\ heard[i].bytes[1] = Mine')
    BY <1>24
  <2> QED  BY <1>13, <2>1, <2>2 DEF NoneUnderWay, Own, Ends
<1> QED  BY <1>25, <1>26, <1>27, <1>28, <1>29, <1>30, <1>31 DEF Inv0

LEMMA OpenStep ==
  ASSUME IInv, NoncesDiffer, Open
  PROVE  IInv'
<1>1. PICK heard \in Heard(wire["host"]) : Start(NewSession, heard)
  BY DEF Open
<1>2. channel' = "starting" /\ message_' = <<>> /\ asked' = asked /\ got' = got
  BY DEF Open
<1>3. wire["host"] \in Seq(HostMessages)
  BY DEF IInv, Inv0, RangeInv
<1>4. heard \in Seq(HostMessages) /\ \E k \in Nat : Kept(wire["host"], heard, k)
  BY <1>3, KeptHeard
<1>5. NewSession \in Sessions /\ NewSession.receive_buffer_ = <<>>
  BY SMTT(30), Kinds DEF NewSession, Sessions, States, NonceBytes, Ids, Byte
<1>6. Inv0' /\ NoneUnderWay'
  BY <1>1, <1>2, <1>4, <1>5, StartStep
<1>7. ~GoesOn => OwnInv'
  BY <1>2, <1>6 DEF IInv, OwnInv
<1> QED  BY <1>6, <1>7 DEF IInv

LEMMA RetryStep ==
  ASSUME IInv, NoncesDiffer, Retry
  PROVE  IInv'
<1>1. Start(sess["host"], wire["host"]) /\ channel = "starting"
  BY DEF Retry
<1>2. channel' = channel /\ message_' = message_ /\ asked' = asked /\ got' = got
  BY DEF Retry
<1>3. wire["host"] \in Seq(HostMessages)
  BY DEF IInv, Inv0, RangeInv
<1>4. \E k \in Nat : Kept(wire["host"], wire["host"], k)
  BY <1>3, KeptSame
<1>5. /\ sess["host"] \in Sessions
      /\ sess["host"].complete # {} \/ sess["host"].receive_buffer_ = <<>>
  BY DEF IInv, Inv0, RangeInv, BufferInv, Ends
<1>6. Inv0' /\ NoneUnderWay'
  BY <1>1, <1>2, <1>3, <1>4, <1>5, StartStep
<1>7. ~GoesOn => OwnInv'
  BY <1>1, <1>2, <1>6 DEF IInv, OwnInv
<1> QED  BY <1>6, <1>7 DEF IInv
-----------------------------------------------------------------------------
(* The invariant and what follows from it *)

LEMMA InitLemma ==
  ASSUME Init
  PROVE  IInv
<1> DEFINE n == DeviceNonces[1]
           b == Boot(n)
           t == Packet(<<0, 0>>, kTerminateSession, <<>>)
<1>1. n \in NonceBytes
  BY SMTT(30), ConstantsLemma
<1> HIDE DEF n
<1>2. /\ b.s \in Sessions /\ Free(b.s) /\ b.s.state_ = "kNoSessionEstablished"
      /\ b.out = <<t, Log>>
  BY <1>1, BootLemma
<1>3. sess = [host |-> NewSession, device |-> b.s] /\ wire = [host |-> b.out, device |-> <<>>]
  BY DEF Init, n
<1>4. /\ drawn = [host |-> 0, device |-> 1] /\ channel = "closed" /\ asked = 0 /\ got = <<>>
      /\ early = MaxEarly
  BY DEF Init
<1> HIDE DEF b, t
<1>5. NewSession \in Sessions /\ NewSession.receive_buffer_ = <<>>
  BY SMTT(30), Kinds DEF NewSession, Sessions, States, NonceBytes, Ids, Byte
<1>6. t \in HostMessages /\ Log \in HostMessages /\ Plain(t) /\ Plain(Log)
  BY PlainPackets DEF t
<1> DEFINE v == <<t, Log>>
<1>7. v \in Seq(HostMessages) /\ \A i \in 1 .. Len(v) : Plain(v[i])
  <2>1. v \in Seq(HostMessages) /\ Len(v) = 2 /\ v[1] = t /\ v[2] = Log
    BY SMTT(30), <1>6
  <2> HIDE DEF v
  <2>2. ASSUME NEW i \in 1 .. Len(v) PROVE Plain(v[i])
    <3>1. i = 1 \/ i = 2
      BY SMTT(30), <2>1
    <3> QED  BY <1>6, <2>1, <3>1
  <2> QED  BY <2>1, <2>2
<1>8. wire["host"] = v /\ wire["device"] = <<>> /\ wire = [host |-> v, device |-> <<>>]
  BY <1>2, <1>3
<1> HIDE DEF v
<1>9. /\ sess["host"] = NewSession /\ sess["device"] = b.s /\ sess \in [Ends -> Sessions]
  BY SMTT(30), <1>2, <1>3, <1>5 DEF Ends
<1>10. Len(wire["device"]) = 0
  BY SMTT(30), <1>8
<1>11. RangeInv
  <2>1. wire \in [host : Seq(HostMessages), device : Seq(DeviceMessages)]
    <3> DEFINE w == <<>>
    <3>1. w \in Seq(DeviceMessages)
      BY SMTT(30)
    <3>2. wire = [host |-> v, device |-> w]
      BY <1>8
    <3> HIDE DEF w
    <3> QED  BY <1>7, <3>1, <3>2
  <2>2. /\ drawn \in [Ends -> Nat] /\ drawn["host"] <= Len(HostNonces)
        /\ drawn["device"] \in 1 .. Len(DeviceNonces)
    BY SMTT(30), <1>4, ConstantsLemma DEF Ends
  <2>3. early \in 0 .. MaxEarly /\ asked \in Byte
    BY SMTT(30), <1>4, ConstantsLemma DEF Byte
  <2> QED  BY <1>4, <1>9, <2>1, <2>2, <2>3 DEF RangeInv
<1>12. BufferInv
  BY <1>2, <1>5, <1>9 DEF BufferInv, Ends, Free
<1>13. RecentInv
  BY SMTT(30), <1>7, <1>8, <1>10 DEF RecentInv, Plain
<1>14. PhaseInv
  BY <1>2, <1>4, <1>9 DEF PhaseInv
<1>15. StartInv /\ ReplyInv /\ AgreeInv /\ OwnInv
  BY <1>4 DEF StartInv, ReplyInv, AgreeInv, OwnInv
<1> QED  BY <1>11, <1>12, <1>13, <1>14, <1>15 DEF IInv, Inv0

LEMMA StepLemma ==
  ASSUME IInv, ~Torn, NoncesDiffer, [Next]_vars
  PROVE  IInv'
<1>1. CASE Open  BY <1>1, OpenStep
<1>2. CASE Retry  BY <1>2, RetryStep
<1>3. CASE Close  BY <1>3, CloseStep
<1>4. CASE Timeout  BY SMTT(30), <1>4, TimeoutStep
<1>5. CASE Send  BY <1>5, SendStep
<1>6. CASE HostReceive  BY <1>6, HostReceiveStep
<1>7. CASE Recv  BY <1>7, RecvStep
<1>8. CASE DeviceReceive  BY <1>8, DeviceReceiveStep
<1>9. CASE Abort  BY <1>9, AbortStep
<1>10. CASE Reset  BY <1>10, ResetStep
<1>11. CASE UNCHANGED vars
  <2>1. /\ sess' = sess /\ wire' = wire /\ channel' = channel /\ message_' = message_
        /\ asked' = asked /\ got' = got /\ drawn' = drawn /\ early' = early
    BY <1>11 DEF vars
  <2>2. KeptStep
    BY <2>1, StandStill DEF IInv, Inv0
  <2>3. Mine' = Mine
    BY <2>1, MineKept
  <2>4. RangeInv' /\ BufferInv' /\ PhaseInv'
    <3>1. RangeInv /\ BufferInv /\ PhaseInv
      BY DEF IInv, Inv0
    <3>2. RangeInv'
      BY <2>1, <3>1 DEF RangeInv
    <3>3. BufferInv' /\ PhaseInv'
      BY <2>1, <2>3, <3>1 DEF BufferInv, PhaseInv
    <3> QED  BY <3>2, <3>3
  <2>5. Inv0'
    BY <2>2, <2>4, KeptAll DEF IInv
  <2>6. ~GoesOn => OwnInv'
    BY <2>1, <2>2, OwnAll DEF IInv, Inv0
  <2> QED  BY <2>5, <2>6 DEF IInv
<1> QED
  BY SMTT(30), <1>1, <1>2, <1>3, <1>4, <1>5, <1>6, <1>7, <1>8, <1>9, <1>10, <1>11
     DEF Next, HostStep, DeviceStep

\* If resets fall between packets and the nonces of the host differ, the invariant holds
\* in every state that the host and the device can reach.
THEOREM Invariant ==
  ASSUME ~Torn, NoncesDiffer
  PROVE  Spec => []IInv
<1>1. Init => IInv
  BY InitLemma
<1>2. IInv /\ [Next]_vars => IInv'
  BY StepLemma
<1> QED  BY <1>1, <1>2, PTL DEF Spec

\* Under the same conditions, two ends that both have a session, with nothing under way
\* that would change it, have the same one: no retry, late reply or reset mixes them up
\* (ProcessStartSessionReply takes a reply to the present start only).
THEOREM SessionsAgreeHolds ==
  ASSUME ~Torn, NoncesDiffer
  PROVE  Spec => []SessionsAgree
<1>1. ASSUME IInv PROVE SessionsAgree
  <2> SUFFICES ASSUME channel # "closed",
                      \A e \in Ends : sess[e].state_ = "kSessionEstablished" /\ ~Changing(e)
               PROVE  sess["host"].session_id_ = sess["device"].session_id_
    BY DEF SessionsAgree
  <2>1. /\ sess["host"].state_ = "kSessionEstablished"
        /\ sess["device"].state_ = "kSessionEstablished"
    BY DEF Ends
  <2>2. channel \in {"open", "waiting"}
    BY <1>1, <2>1 DEF IInv, Inv0, RangeInv, PhaseInv
  <2> QED  BY <1>1, <2>1, <2>2 DEF IInv, Inv0, AgreeInv
<1> QED  BY <1>1, Invariant, PTL

\* Under the same conditions, neither end falls back to kReset, the state in which it has
\* lost track of the protocol: a reply never meets an established session.
THEOREM NeverConfusedHolds ==
  ASSUME ~Torn, NoncesDiffer
  PROVE  Spec => []NeverConfused
<1>1. ASSUME IInv PROVE NeverConfused
  BY <1>1 DEF IInv, Inv0, RangeInv, PhaseInv, NeverConfused
<1> QED  BY <1>1, Invariant, PTL

\* If, besides, the caller leaves the session after a timeout, what Recv returns is the
\* answer to the request it was called for, never that of an earlier one.
THEOREM AnswerIsOwnHolds ==
  ASSUME ~Torn, ~GoesOn, NoncesDiffer
  PROVE  Spec => []AnswerIsOwn
<1>1. ASSUME IInv PROVE AnswerIsOwn
  BY <1>1 DEF IInv, OwnInv, AnswerIsOwn
<1> QED  BY <1>1, Invariant, PTL
=============================================================================
