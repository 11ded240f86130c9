----------------------------- MODULE MCRpcProxy -----------------------------
(***************************************************************************)
(* Instances of RpcProxy.                                                  *)
(***************************************************************************)
EXTENDS RpcProxy

CONSTANTS c1, c2, s1, cpu, bad

AllPeers == Clients \union {proxy}

\* Every server is of one kind, and every client asks for it.
OneKind == [s \in Servers |-> cpu]
AskCpu == [c \in Clients |-> cpu]
SamePriority == [c \in Clients |-> 1]
TwoTries == [c \in Clients |-> 2]

\* With a tracker the first client makes a request, the second none.
FirstAsks == [c \in Clients |-> IF c = c1 THEN 1 ELSE 0]
\* The first client sends two messages, the server one in each session.
TwoAndOne == [p \in Servers \union Clients |-> IF p = c1 THEN 2 ELSE IF p = s1 THEN 1 ELSE 0]
=============================================================================
