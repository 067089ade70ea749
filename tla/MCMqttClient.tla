---------------------------- MODULE MCMqttClient ----------------------------
(* Small instances of MqttClient for TLC. *)
EXTENDS MqttClient

\* the timer task, tcpip_thread and an application task
ByTask == [timer |-> 40, lwip |-> 26, app |-> 10]

Packet(kind, size) == [i \in 1 .. size |-> [kind |-> kind, at |-> i, size |-> size]]

\* a broker refuses and says something more, or accepts and goes on with a packet that is
\* answered and with the beginning of one whose length is not counted
Refusal == Packet("refusal", 1) \o Packet("PUBLISH", 2)
Session == Packet("CONNACK", 2) \o Packet("PUBLISH", 1) \o SubSeq(Packet("other", 5), 1, 2)
TwoStreams == {Refusal, Session}
=============================================================================
