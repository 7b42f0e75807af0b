----------------------------- MODULE MCStreams -----------------------------
(* Two machines that share no state, each behaviour one of them: the event *)
(* hub of REST with its clients, and the connection of Signal.             *)
EXTENDS RestHub, MCSignalRpc

VARIABLE part

rpcVars ==
  <<client, rpcConn, wire, received, reader, offered, notifications, pending, mailbox, call,
    listener, rpcCancelled, app, handed>>
allVars == <<part, vars, rpcVars>>

AllInit == part \in {"hub", "rpc"} /\ Init /\ Rpc!Init

AllNext ==
  /\ UNCHANGED part
  /\ \/ part = "hub" /\ Next /\ UNCHANGED rpcVars
     \/ part = "rpc" /\ Rpc!Next /\ UNCHANGED vars

\* the fairness of each machine in its own behaviours; the connection of
\* Signal owes no step before it is made
AllFairness ==
  /\ \A k \in Subs : WF_vars(part = "hub" /\ Served(k))
  /\ \A c \in Clients : WF_vars(part = "hub" /\ Reconnects(c))
  /\ Rpc!Fairness

AllSpec == AllInit /\ [][AllNext]_allVars /\ AllFairness
=============================================================================
