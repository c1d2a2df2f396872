---------------------------- MODULE MCMessageQueue ----------------------------
\* Two producers and two consumers, three items each, a queue of two.
EXTENDS MessageQueue

CONSTANTS p1, p2, c1, c2

MCProducer == {p1, p2}

MCConsumer == {c1, c2}

=============================================================================
