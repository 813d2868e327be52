---------------------------- MODULE MCConnections ----------------------------
(***************************************************************************)
(* Small instances for the progress and the descriptors of connections for *)
(* TLC: one connection with its send queue, the client that makes          *)
(* connections, and the command server that accepts them. They share no    *)
(* state, so they are explored side by side: a behaviour moves one         *)
(* subject, the others keep their initial states.                          *)
(***************************************************************************)
EXTENDS TcpConnection, Descriptors

VARIABLE subject

(* An empty plain file, and an asynchronous one of two chunks. *)
MCFiles == {"plain", "async"}
MCAsyncFiles == {"async"}
MCFileSize == [f \in MCFiles |-> IF f = "async" THEN 3 ELSE 0]

ConnectionsInit ==
    /\ subject \in {"connection", "client", "cli"} /\ Init /\ ClientInit /\ CliInit
    /\ subject # "client" => ~reconnects

ConnectionsNext ==
    \/ subject = "connection" /\ Next /\ UNCHANGED <<subject, clientVars, cliVars>>
    \/ subject = "client" /\ ClientNext /\ UNCHANGED <<subject, vars, cliVars>>
    \/ subject = "cli" /\ CliNext /\ UNCHANGED <<subject, vars, clientVars>>

(* The fairness of the specifications, each for its own subject. *)
ConnectionsFairness ==
    /\ WF_vars(subject = "connection" /\ LoopRuns)
    /\ SF_vars(subject = "connection" /\ SocketTakes)
    /\ WF_clientVars(subject = "client" /\ ClientRuns)
    /\ SF_clientVars(subject = "client" /\ Established)

ConnectionsSpec ==
    /\ ConnectionsInit /\ [][ConnectionsNext]_<<subject, vars, clientVars, cliVars>>
    /\ ConnectionsFairness
==============================================================================
