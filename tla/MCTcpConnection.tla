-------------------------- MODULE MCTcpConnection --------------------------
(* Small instances of a connection with its send queue for TLC. *)
EXTENDS TcpConnection

(* One file of each kind and an empty one: the asynchronous one needs two  *)
(* chunks, the second one short.                                           *)
MCFiles == {"plain", "empty", "async"}
MCAsyncFiles == {"async"}
MCFileSize == [plain |-> 1, empty |-> 0, async |-> 3]
=============================================================================
