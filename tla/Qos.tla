-------------------------------- MODULE Qos --------------------------------
(***************************************************************************)
(* rdb::QoS and check_compatible (bus/qos.h).  Durations are numbers of    *)
(* clock units; 0 means "not enabled".                                     *)
(***************************************************************************)
EXTENDS Integers

Reliability == {"BestEffort", "Reliable"}
Durability  == {"Volatile", "TransientLocal"}
QosMismatch == {"None", "Reliability", "Durability", "Deadline"}

\* HistoryKind is left out: no line of the library reads QoS::history.
QoS == [reliability: Reliability, durability: Durability, depth: Nat,
        deadline: Nat, lifespan: Nat]

\* The presets.
sensor_data(depth) ==
    [reliability |-> "BestEffort", durability |-> "Volatile", depth |-> depth,
     deadline |-> 0, lifespan |-> 0]
command(depth) == [sensor_data(depth) EXCEPT !.reliability = "Reliable"]
latched(depth) == [command(depth) EXCEPT !.durability = "TransientLocal"]

\* Variant: durability is not compared.
CompatibleAnyDurability(offered, requested) ==
    IF offered.reliability = "BestEffort" /\ requested.reliability = "Reliable"
    THEN "Reliability"
    ELSE IF /\ requested.deadline > 0
            /\ offered.deadline = 0 \/ offered.deadline > requested.deadline
    THEN "Deadline"
    ELSE "None"

\* The first failing test decides the reason, in the order of the code.
check_compatible(offered, requested) ==
    IF offered.reliability = "BestEffort" /\ requested.reliability = "Reliable"
    THEN "Reliability"
    ELSE IF offered.durability = "Volatile" /\ requested.durability = "TransientLocal"
    THEN "Durability"
    ELSE IF /\ requested.deadline > 0
            /\ offered.deadline = 0 \/ offered.deadline > requested.deadline
    THEN "Deadline"
    ELSE "None"

-----------------------------------------------------------------------------
(* The reference: "the strength the publisher offers must not be below the  *)
(* strength the subscriber requests", policy by policy.                     *)

Strength(policy) == IF policy \in {"Reliable", "TransientLocal"} THEN 1 ELSE 0

\* A period of 0 promises, or asks for, nothing: the weakest deadline of all.
TighterOrEqual(d, e) == e = 0 \/ (d # 0 /\ d <= e)

OffersAtLeast(a, b) ==
    /\ Strength(a.reliability) >= Strength(b.reliability)
    /\ Strength(a.durability) >= Strength(b.durability)
    /\ TighterOrEqual(a.deadline, b.deadline)
=============================================================================
