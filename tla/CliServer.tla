------------------------------- MODULE CliServer -------------------------------
(***************************************************************************)
(* The diagnostic command server (src/monitor/cli_server.cpp).  Its        *)
(* callbacks run on the engine's loop thread; close() runs on another.  A  *)
(* session is named by its descriptor, which is closed, and may be used    *)
(* again, when the last reference to the session goes: the table, the AIO  *)
(* entry's callback or a thread that works on it.  Of the engine, the      *)
(* phase and the AIO entries are kept: an entry marked for removal stays   *)
(* until the loop starts its next round, and goes with the engine.         *)
(***************************************************************************)
EXTENDS Naturals, FiniteSets

CONSTANTS
    Fds,            \* descriptors of accepted connections
    max_clients,    \* CliServerConfig::_max_clients
    NoFd

ASSUME CliAssumption == NoFd \notin Fds /\ max_clients \in Nat \ {0}

VARIABLES
    engine_phase,   \* "RUNNING" (or READY), "STOPPING", "STOPPED"
    listener,       \* the listener's AIO entry: "none", "armed", "removing", "gone"
    server_closing, \* ServerState::_closing
    sessions,       \* ServerState::_sessions
    closing,        \* sessions with _closing
    handles,        \* sessions with an _aio_handle
    aio,            \* fd -> AIO entry of its session
    backlog,        \* connections nobody accepted yet
    at,             \* thread -> where it is
    on,             \* thread -> the session it works on
    callback        \* the callback the loop runs, or ran last

CliThreads == {"loop", "closer"}

cliVars == <<engine_phase, listener, server_closing, sessions, closing, handles, aio, backlog, at, on, callback>>

CliInit ==
    /\ engine_phase = "RUNNING" /\ listener = "none" /\ server_closing = FALSE
    /\ sessions = {} /\ closing = {} /\ handles = {} /\ backlog = {}
    /\ aio = [c \in Fds |-> "none"]
    /\ at = [t \in CliThreads |-> "idle"] /\ on = [t \in CliThreads |-> NoFd]
    /\ callback = "listener"

accepts_cli_work == engine_phase = "RUNNING"

Open(c) ==
    \/ c \in sessions \cup backlog \/ aio[c] \in {"armed", "removing"}
    \/ \E t \in CliThreads : on[t] = c

Moves(t, where, c) == at' = [at EXCEPT ![t] = where] /\ on' = [on EXCEPT ![t] = c]

(* What process_input() and send_prompt() look at before they go on *)
Quitting == server_closing \/ on["loop"] \in closing \/ ~accepts_cli_work

(* Where close_session() returns to *)
After(t) == IF t = "closer" THEN "sweep" ELSE IF callback = "listener" THEN "accept" ELSE "idle"

tableVars == <<server_closing, sessions, closing, handles>>

------------------------------------------------------------------------------
(* The engine and the clients *)

Connect(c) ==
    /\ ~Open(c) /\ listener \in {"armed", "removing"} /\ backlog' = backlog \cup {c}
    /\ UNCHANGED <<engine_phase, listener, tableVars, aio, at, on, callback>>

EngineStops ==
    /\ engine_phase = "RUNNING" /\ engine_phase' = "STOPPING"
    /\ UNCHANGED <<listener, tableVars, aio, backlog, at, on, callback>>

Retired(s) == IF s = "removing" THEN "gone" ELSE s

(* AioManager::process retires the marked entries; a listener that goes    *)
(* takes its backlog along. *)
NextRound ==
    /\ engine_phase = "RUNNING" /\ at["loop"] = "idle"
    /\ listener' = Retired(listener) /\ aio' = [c \in Fds |-> Retired(aio[c])]
    /\ backlog' = IF listener' = "gone" THEN {} ELSE backlog
    /\ UNCHANGED <<engine_phase, tableVars, at, on, callback>>

(* AioManager::cleanup destroys all of them. *)
EngineStopped ==
    /\ engine_phase = "STOPPING" /\ at["loop"] = "idle" /\ engine_phase' = "STOPPED"
    /\ listener' = (IF listener = "none" THEN "none" ELSE "gone") /\ backlog' = {}
    /\ aio' = [c \in Fds |-> IF aio[c] = "none" THEN "none" ELSE "gone"]
    /\ UNCHANGED <<tableVars, at, on, callback>>

(* Engine::remove_aio: refused unless the engine accepts registrations. *)
Removed(s) == IF s = "armed" /\ engine_phase = "RUNNING" THEN "removing" ELSE s

------------------------------------------------------------------------------
(* start(): once, with all its preparations; a failing one changes nothing *)
start ==
    /\ listener = "none" /\ accepts_cli_work
    /\ listener' = "armed"
    /\ UNCHANGED <<engine_phase, tableVars, aio, backlog, at, on, callback>>

(* close(): without a listener there is nothing to do. *)
close ==
    /\ at["closer"] = "idle" /\ listener # "none"
    /\ server_closing' = TRUE /\ Moves("closer", "listener", NoFd)
    /\ UNCHANGED <<engine_phase, listener, sessions, closing, handles, aio, backlog, callback>>

RemoveListener ==
    /\ at["closer"] = "listener"
    /\ listener' = Removed(listener) /\ Moves("closer", "sweep", NoFd)
    /\ UNCHANGED <<engine_phase, tableVars, aio, backlog, callback>>

(* Sessions are taken out of the table one by one and closed. *)
Sweep ==
    /\ at["closer"] = "sweep"
    /\ \/ sessions = {} /\ Moves("closer", "closed", NoFd) /\ UNCHANGED sessions
       \/ \E c \in sessions : sessions' = sessions \ {c} /\ Moves("closer", "erase", c)
    /\ UNCHANGED <<engine_phase, listener, server_closing, closing, handles, aio, backlog, callback>>

------------------------------------------------------------------------------
(* close_session(), on either thread: leave the table, *)
Erase(t) ==
    /\ at[t] = "erase" /\ sessions' = sessions \ {on[t]} /\ Moves(t, "mark", on[t])
    /\ UNCHANGED <<engine_phase, listener, server_closing, closing, handles, aio, backlog, callback>>

(* exchange _closing, *)
Mark(t) ==
    /\ at[t] = "mark" /\ closing' = closing \cup {on[t]}
    /\ IF on[t] \in closing THEN Moves(t, After(t), NoFd) ELSE Moves(t, "remove", on[t])
    /\ UNCHANGED <<engine_phase, listener, server_closing, sessions, handles, aio, backlog, callback>>

(* and, the first time, remove the AIO entry if it is registered. *)
Remove(t) ==
    /\ at[t] = "remove"
    /\ aio' = [aio EXCEPT ![on[t]] = IF on[t] \in handles THEN Removed(@) ELSE @]
    /\ Moves(t, After(t), NoFd)
    /\ UNCHANGED <<engine_phase, listener, tableVars, backlog, callback>>

------------------------------------------------------------------------------
(* handle_listener_ready(): the loop may have chosen the callback before   *)
(* the entry was marked for removal. *)
ListenerReady ==
    /\ at["loop"] = "idle" /\ engine_phase # "STOPPED" /\ listener \in {"armed", "removing"}
    /\ backlog # {} /\ callback' = "listener" /\ Moves("loop", "accept", NoFd)
    /\ UNCHANGED <<engine_phase, listener, tableVars, aio, backlog>>

(* A connection accepted when the engine no longer works is closed again;  *)
(* otherwise it becomes a new session. *)
Accept(c) ==
    /\ at["loop"] = "accept" /\ c \in backlog /\ backlog' = backlog \ {c}
    /\ IF accepts_cli_work
         THEN /\ closing' = closing \ {c} /\ handles' = handles \ {c}
              /\ aio' = [aio EXCEPT ![c] = "none"] /\ Moves("loop", "admit", c)
         ELSE UNCHANGED <<closing, handles, aio, at, on>>
    /\ UNCHANGED <<engine_phase, listener, server_closing, sessions, callback>>

(* accept4() has nothing more, or failed. *)
AcceptEnds ==
    /\ at["loop"] = "accept" /\ Moves("loop", "idle", NoFd)
    /\ UNCHANGED <<engine_phase, listener, tableVars, aio, backlog, callback>>

(* Under _sessions_mutex the session is admitted or dropped, with its      *)
(* descriptor; an exception ends the callback. *)
AdmitSession ==
    /\ at["loop"] = "admit"
    /\ \/ /\ ~server_closing /\ Cardinality(sessions) < max_clients
          /\ sessions' = sessions \cup {on["loop"]} /\ Moves("loop", "register", on["loop"])
       \/ /\ server_closing \/ Cardinality(sessions) >= max_clients
          /\ Moves("loop", "accept", NoFd) /\ UNCHANGED sessions
       \/ Moves("loop", "idle", NoFd) /\ UNCHANGED sessions
    /\ UNCHANGED <<engine_phase, listener, server_closing, closing, handles, aio, backlog, callback>>

(* Variant: _closing is not looked at under the registration lock. *)
Register_Unchecked ==
    /\ at["loop"] = "register"
    /\ \/ /\ engine_phase = "RUNNING"
          /\ aio' = [aio EXCEPT ![on["loop"]] = "armed"] /\ handles' = handles \cup {on["loop"]}
          /\ Moves("loop", "prompt", on["loop"])
       \/ Moves("loop", "erase", on["loop"]) /\ UNCHANGED <<aio, handles>>
    /\ UNCHANGED <<engine_phase, listener, server_closing, sessions, closing, backlog, callback>>

(* Under the registration lock: unless the session was closed meanwhile it *)
(* gets its AIO entry, which may fail.  Without one it is closed. *)
Register ==
    /\ at["loop"] = "register"
    /\ \/ /\ on["loop"] \notin closing /\ engine_phase = "RUNNING"
          /\ aio' = [aio EXCEPT ![on["loop"]] = "armed"] /\ handles' = handles \cup {on["loop"]}
          /\ Moves("loop", "prompt", on["loop"])
       \/ Moves("loop", "erase", on["loop"]) /\ UNCHANGED <<aio, handles>>
    /\ UNCHANGED <<engine_phase, listener, server_closing, sessions, closing, backlog, callback>>

(* send_prompt() and send_all(): what is being closed, and a slow or lost  *)
(* client, make them fail. *)
Sends(onward, c) ==
    \/ ~Quitting /\ Moves("loop", onward, c)
    \/ Moves("loop", "erase", on["loop"])

Prompt ==
    /\ at["loop"] = "prompt" /\ Sends("accept", NoFd)
    /\ UNCHANGED <<engine_phase, listener, tableVars, aio, backlog, callback>>

------------------------------------------------------------------------------
(* handle_client_ready() *)
ClientReady(c) ==
    /\ at["loop"] = "idle" /\ engine_phase # "STOPPED" /\ aio[c] \in {"armed", "removing"}
    /\ callback' = "client"
    /\ CASE ~accepts_cli_work -> Moves("loop", "erase", c)
         [] accepts_cli_work /\ c \in closing -> UNCHANGED <<at, on>>
         [] accepts_cli_work /\ c \notin closing -> Moves("loop", "recv", c)
    /\ UNCHANGED <<engine_phase, listener, tableVars, aio, backlog>>

(* recv(): input, nothing more, or the end of the connection *)
Recv ==
    /\ at["loop"] = "recv"
    /\ \/ Moves("loop", "process", on["loop"])
       \/ Moves("loop", "idle", NoFd)
       \/ Moves("loop", "erase", on["loop"])
    /\ UNCHANGED <<engine_phase, listener, tableVars, aio, backlog, callback>>

(* process_input(), one turn of its loop: half a line is kept for the next *)
(* recv(); a line too long ends the session; a command is run and answered *)
(* with its output, if any, and the prompt. *)
process_input ==
    /\ at["loop"] = "process"
    /\ IF Quitting
         THEN Moves("loop", "erase", on["loop"])
         ELSE Moves("loop", "recv", on["loop"]) \/ Sends("process", on["loop"])
    /\ UNCHANGED <<engine_phase, listener, tableVars, aio, backlog, callback>>

------------------------------------------------------------------------------
CliNext ==
    \/ EngineStops \/ NextRound \/ EngineStopped
    \/ start \/ close \/ RemoveListener \/ Sweep
    \/ \E t \in CliThreads : Erase(t) \/ Mark(t) \/ Remove(t)
    \/ ListenerReady \/ AcceptEnds \/ AdmitSession \/ Register \/ Prompt \/ Recv \/ process_input
    \/ \E c \in Fds : Connect(c) \/ Accept(c) \/ ClientReady(c)

CliSpec == CliInit /\ [][CliNext]_cliVars

------------------------------------------------------------------------------
(* No session is left behind, whichever of close(), a failing prompt, the  *)
(* client's end of file and the registration of its AIO entry come first:  *)
(* while the engine runs, an AIO entry outside the table is marked for     *)
(* removal or about to be by the thread that took the session out; and     *)
(* after close() has swept the table nobody is admitted to it any more.    *)
NoLeakedSession ==
    /\ engine_phase = "RUNNING" =>
          \A c \in Fds : aio[c] = "armed" /\ c \notin sessions =>
              \E t \in CliThreads : on[t] = c /\ at[t] \in {"erase", "mark", "remove"}
    /\ at["closer"] = "closed" => sessions = {}
    /\ Cardinality(sessions) <= max_clients
==============================================================================
