------------------------------ MODULE MCSession ------------------------------
(***************************************************************************)
(* Small instances of a session for TLC. Alone: the server's side of the   *)
(* session, with any input. Otherwise: the session of a logged in user     *)
(* with the file client at the other end of the connection.                *)
(***************************************************************************)
EXTENDS ServerSession

VARIABLES cstate, clink, cwork, cleft, sleft, toServer, toClient, tally, surprised, typed

Pair == INSTANCE FileClient
    WITH Users <- {"u1"}, Dirs <- {"/d1"}, MaxAttempts <- 1, MaxTransfers <- 4, MaxBlocks <- 2

clientVars == <<cstate, clink, cwork, cleft, sleft, toServer, toClient, tally, surprised, typed>>

Alone == clink = "alone"

NoClient ==
    /\ cstate = "idle" /\ clink = "alone" /\ cwork = "none" /\ cleft = 0 /\ sleft = 0
    /\ toServer = <<>> /\ toClient = <<>> /\ surprised = FALSE /\ typed = FALSE
    /\ tally = [stored |-> 0, confirmed |-> 0, saved |-> 0, delivered |-> 0]

MCInit == (NoClient /\ SessionInit) \/ Pair!FileInit

MCNext ==
    \/ Alone /\ SessionNext /\ UNCHANGED clientVars
    \/ ~Alone /\ Pair!FileNext

(* The fairness of the two specifications. *)
MCFairness ==
    /\ WF_sessionVars(Alone /\ SessionRuns)
    /\ WF_<<sessionVars, clientVars>>(~Alone /\ Pair!EndsRun)

MCSpec == MCInit /\ [][MCNext]_<<sessionVars, clientVars>> /\ MCFairness

(* Client and server stay in step (FileClient). *)
InStep == Pair!InStep

(* What an end is told has happened: neither a refused sign-up nor a       *)
(* confirmed transfer is a lie (ServerSession, FileClient). *)
AnswersTrue == SignupAnswerTrue /\ Pair!ReportsTrue

(* The server answers what it keeps a user waiting for (ServerSession),    *)
(* and a transfer ends: client and server never wait for each other        *)
(* (FileClient). *)
ExchangesEnd == (Alone => WaitEnds) /\ Pair!TransferEnds
==============================================================================
