------------------------------ MODULE MCMonitor ------------------------------
(***************************************************************************)
(* Small instances of the monitor for TLC: the engine, a client of the     *)
(* alarm collector and the sampling policies. They share no state, so they *)
(* are explored side by side: a behaviour moves one subject, the others    *)
(* keep their initial states.                                              *)
(***************************************************************************)
EXTENDS MonitorEngine, CollectorClient, MonitorPolicy

VARIABLE subject

(* Bursts of more small frames than a round may take, alone and after an   *)
(* alarm of more than one header, and each flaw between sound frames. *)
MCStreams ==
    LET Frame(type, payload, flaw) == [type |-> type, payload |-> payload, flaw |-> flaw]
        ping == Frame("PING", 0, "none")
        odd == {Frame("ALARM", 1, flaw) : flaw \in Flaws} \cup {Frame("PONG", 0, "none")}
    IN  {<<Frame("ALARM", 4, "none"), ping, ping, ping>>, <<ping, ping, ping, ping>>}
        \cup {<<ping, frame, ping>> : frame \in odd}

MonitorInit ==
    /\ subject \in {"engine", "stream", "policy"} /\ EngineInit /\ StreamInit /\ PolicyInit
    /\ subject # "stream" => stream = CHOOSE s \in Streams : TRUE

MonitorNext ==
    \/ subject = "engine" /\ EngineNext /\ UNCHANGED <<subject, streamVars, policyVars>>
    \/ subject = "stream" /\ StreamNext /\ UNCHANGED <<subject, engineVars, policyVars>>
    \/ subject = "policy" /\ PolicyNext /\ UNCHANGED <<subject, engineVars, streamVars>>

(* The fairness of the engine, for its subject. *)
MonitorFairness == WF_engineVars(subject = "engine" /\ EngineRuns)

MonitorSpec ==
    /\ MonitorInit /\ [][MonitorNext]_<<subject, engineVars, streamVars, policyVars>>
    /\ MonitorFairness
==============================================================================
