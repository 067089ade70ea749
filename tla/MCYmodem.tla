------------------------------ MODULE MCYmodem ------------------------------
(* Small instances of Ymodem for TLC. *)
EXTENDS Ymodem

Plain == {"SOH", "STX", "other"}
=============================================================================
