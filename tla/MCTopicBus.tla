----------------------------- MODULE MCTopicBus -----------------------------
(* Instances of TopicBus for TLC. *)
EXTENDS TopicBusProperties

CONSTANTS t1, int, double, p1, p2, s1, s2

OneTopic       == {t1}
OneType        == {int}
TwoTypes       == {int, double}
OnePublisher   == {p1}
TwoPublishers  == {p1, p2}
OneSubscriber  == {s1}
TwoSubscribers == {s1, s2}
Installed      == {TRUE}

\* QoS values.
Command1          == {command(1)}
\* A publisher that satisfies every request below and whose latch overflows, and one
\* that satisfies none of them.
LatchedOrSensor   == {latched(1), sensor_data(1)}
Latched3          == {latched(3)}
\* What the sensor publisher lacks is reliability, both, and durability; the queue may
\* be full, cannot overflow, and drops its oldest.
Mixed             == {command(1), latched(2), [latched(1) EXCEPT !.reliability = "BestEffort"]}
Periodic          == {[command(1) EXCEPT !.deadline = 1]}
Timed             == {[command(2) EXCEPT !.deadline = 1, !.lifespan = 1],
                      [sensor_data(1) EXCEPT !.deadline = 2, !.lifespan = 2]}

Symmetry == Permutations(TwoPublishers) \cup Permutations(TwoSubscribers)
=============================================================================
