---------------------------- MODULE MCSocketTable ----------------------------
(* Small instances of SocketTable for TLC. *)
EXTENDS SocketTable

CONSTANTS c1, c2

TwoCtrls == {c1, c2}
OneCtrl == {c1}
NoCtrls == {}
AllModes == {"client", "server", "udp"}
ClientMode == {"client"}
=============================================================================
