----------------------------- MODULE Descriptors -----------------------------
(***************************************************************************)
(* The two components that open descriptors and may lose one: the client   *)
(* that connects and the command server that accepts. They share no state; *)
(* a process that runs both is the conjunction of their specifications.    *)
(***************************************************************************)
EXTENDS TcpClient, CliServer

(* No descriptor is lost: each socket of the client belongs to the         *)
(* connector, to the connection being built or to a connection, whichever  *)
(* of connect(), stop(), disconnect() and the destructor interfere; and no *)
(* session of the command server is left behind by close() and the         *)
(* callbacks that admit, register and end it.                              *)
DescriptorsOwned == SocketsOwned /\ NoLeakedSession
==============================================================================
