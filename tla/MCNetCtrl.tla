------------------------------ MODULE MCNetCtrl ------------------------------
(* Small instances of NetCtrl for TLC. *)
EXTENDS NetCtrl

AllCalls == Ops \ {"none"}
OpenSendClose == {"connect", "listen", "tx", "close"}
=============================================================================
