--------------------------- MODULE MatchKeyLease ----------------------------
(***************************************************************************)
(* What the tracker, the servers and the clients promise together: the     *)
(* life of a match key.  A server generates it and offers it; it goes out  *)
(* to at most one client; it admits that client, and no other, to at most  *)
(* one session; and it does so only while the server has not generated a   *)
(* newer key.  A key may be given up at any time (a connection or a        *)
(* process may fail) but a key that was given up, or lent, is never        *)
(* offered again.                                                          *)
(***************************************************************************)
EXTENDS Integers

CONSTANTS Servers, Clients, MaxKeys

Keys == Servers \X (1 .. MaxKeys)

VARIABLE life  \* match key -> where it is in its life, and with whom

Fresh == [at |-> "new"]
Offered == [at |-> "offered"]
Void == [at |-> "void"]
Lent(c) == [at |-> "lent", to |-> c]
Used(c) == [at |-> "used", to |-> c]

Init == life = [k \in Keys |-> Fresh]

\* A server has at most one session, and has it under its newest key.
Newest(k) ==
  \A j \in Keys : j[1] = k[1] /\ j # k =>
    /\ life'[j].at # "used"
    /\ j[2] > k[2] => life'[j] = Fresh

Offer(k) == life[k] = Fresh /\ life'[k] = Offered
Lend(k) == life[k] = Offered /\ \E c \in Clients : life'[k] = Lent(c)
Use(k) == \E c \in Clients : life[k] = Lent(c) /\ life'[k] = Used(c) /\ Newest(k)
GiveUp(k) == life'[k] = Void

Next ==
  \A k \in Keys : \/ life'[k] = life[k]
                  \/ Offer(k)
                  \/ Lend(k)
                  \/ Use(k)
                  \/ GiveUp(k)

Spec == Init /\ [][Next]_life
=============================================================================
