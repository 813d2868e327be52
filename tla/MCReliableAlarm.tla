-------------------------- MODULE MCReliableAlarm --------------------------
(* Small instances of the reliable alarm channel for TLC. *)
EXTENDS ReliableAlarm

(* Crashes and faults of one behaviour, together. *)
MaxTroubles == 2

TroubledNext == Next /\ crashes' + faults' <= MaxTroubles

AlarmSpec == Init /\ [][TroubledNext]_vars /\ Fairness

=============================================================================
