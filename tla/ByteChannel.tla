----------------------------- MODULE ByteChannel -----------------------------
(***************************************************************************)
(* What one direction of a TCP socket promises its user: the bytes come    *)
(* out in the order they were put in, each once.  Bytes are numbered from  *)
(* 1.  A byte that is lost breaks the channel, and the user is told.       *)
(***************************************************************************)
EXTENDS Naturals, Sequences

VARIABLES
    queue,      \* the bytes put in and not yet taken out
    put,        \* number of the last byte put in
    got,        \* number of the last byte taken out
    broken      \* bytes have been lost

chVars == <<queue, put, got, broken>>

ChInit == queue = <<>> /\ put = 0 /\ got = 0 /\ broken = FALSE

Put ==
    /\ put' > put
    /\ queue' = queue \o [i \in 1 .. put' - put |-> put + i]
    /\ UNCHANGED <<got, broken>>

Take ==
    /\ \E k \in 1 .. Len(queue) :
          /\ queue' = SubSeq(queue, k + 1, Len(queue))
          /\ got' = queue[k]
    /\ UNCHANGED <<put, broken>>

Lose ==
    /\ put' > put
    /\ broken' = TRUE
    /\ UNCHANGED <<queue, got>>

ChNext == Put \/ Take \/ Lose

ChSpec == ChInit /\ [][ChNext]_chVars
=============================================================================
