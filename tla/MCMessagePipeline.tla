-------------------------- MODULE MCMessagePipeline --------------------------
(* Instances of MessagePipeline for TLC. *)
EXTENDS MessagePipeline

CONSTANTS v1, m1, m2, p1, p2

MCVisitorOf == [m \in Messages |-> v1]

MCHistoryModes == {"limit_to_active", "forever"}

MCLimited == {"limit_to_active"}

\* Bound: a crash goes with one fault of the relay, and with none of them in mode
\* "forever", which the relay does not read; a call of the API stands alone.
FewFaults ==
    LET ofRelay == faults.relayErrors + faults.redisErrors + faults.listenFailures
    IN  /\ faults.edits + ofRelay <= 1
        /\ faults.edits + faults.crashes <= 1
        /\ setting.mode = "forever" => ofRelay = 0

BoundedNext == Next /\ FewFaults'

BoundedSpec == Init /\ [][BoundedNext]_vars /\ Fairness
=============================================================================
