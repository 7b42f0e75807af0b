---------------------------- MODULE MCSignalRpc ----------------------------
(* The connection of Signal, under names that leave room for the machines  *)
(* of MCProviders and MCStreams.                                           *)

CONSTANTS Calls, Reading, Answering, MayListen, MayLose, NotifyBuffer, MaxReceives

VARIABLES client, rpcConn, wire, received, reader, offered, notifications,
  pending, mailbox, call, listener, rpcCancelled, app, handed

Rpc == INSTANCE SignalRpc WITH conn <- rpcConn, cancelled <- rpcCancelled

ASSUME SignalAssumption == Rpc!RpcAssumption

\* readLoop and Listen: what was passed on, the application gets
NothingLeftBehind == Rpc!NothingLeftBehind

\* call: who waits gets a response or an error
CallsReturn == Rpc!CallsReturn

\* close: the end of a context ends both goroutines
CancelEnds == Rpc!CancelEnds
=============================================================================
