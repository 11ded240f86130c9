---------------------------- MODULE MCRpcServer -----------------------------
(***************************************************************************)
(* Instances of RpcServer.                                                 *)
(***************************************************************************)
EXTENDS RpcServer

CONSTANTS c1, c2, s1, cpu

AllPeers == Clients \union Servers

\* Every server is of one kind, and every client asks for it.
OneKind == [s \in Servers |-> cpu]
AskCpu == [c \in Clients |-> cpu]

\* The second client has the higher priority.
SecondFirst == [c \in Clients |-> IF c = c2 THEN 2 ELSE 1]

\* The first client gives up after one attempt, the second after two.
OneOrTwo == [c \in Clients |-> IF c = c1 THEN 1 ELSE 2]
=============================================================================
