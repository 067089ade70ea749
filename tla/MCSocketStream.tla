--------------------------- MODULE MCSocketStream ---------------------------
(* Small instances of SocketStream for TLC. *)
EXTENDS SocketStream

OneToThree == 1 .. 3
=============================================================================
